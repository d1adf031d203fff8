------------------------------- MODULE TronAbi -------------------------------
(***************************************************************************)
(* A contract's ABI in its three forms and the conversions between them:   *)
(*   JSON      alloy's JsonAbi, what a compiler writes and Interface reads *)
(*   TRON      TronAbi, the metadata model of the abi crate                *)
(*   protobuf  what travels in CreateSmartContract and get_contract        *)
(* A type is a sequence: <<"uint256">>, or <<"tuple", t1, ..., tn>> with   *)
(* its component types; <<"tuple">> is a tuple whose components are        *)
(* unknown.  A JSON parameter also names its components.                   *)
(***************************************************************************)
EXTENDS Integers, Sequences, SequencesExt, FiniteSets

-------------------------------------------------------------------------------
(* Result<_, TronAbiConversionError>                                       *)

Ok(v) == [ok |-> TRUE, v |-> v]
Err(e) == [ok |-> FALSE, e |-> e]
AndThen(result, next(_)) == IF result.ok THEN next(result.v) ELSE result

\* collect::<Result<_, _>>: the values, or the first error.
Collect(results) ==
    IF \A i \in DOMAIN results : results[i].ok
    THEN Ok([i \in DOMAIN results |-> results[i].v])
    ELSE results[CHOOSE i \in DOMAIN results :
                    ~results[i].ok /\ \A j \in 1 .. i - 1 : results[j].ok]

\* What is no Solidity identifier, and a type that does not parse.
BadNames == {"", "2fast"}
BadTypes == {<<"">>, <<"uint257">>}

-------------------------------------------------------------------------------
(* The abi crate.                                                          *)

EntryTypes == <<"Constructor", "Function", "Event", "Fallback", "Receive", "Error">>
Mutabilities == <<"Pure", "View", "NonPayable", "Payable">>
\* Unknown(n), for the two numbers the model uses that stand for no variant.
Unknown == [n \in {0, 9} |-> IF n = 0 THEN "Unknown(0)" ELSE "Unknown(9)"]

FromI32(n, names) == IF n \in DOMAIN names THEN names[n] ELSE Unknown[n]
AsI32(v, names) ==
    IF \E n \in DOMAIN names : names[n] = v THEN CHOOSE n \in DOMAIN names : names[n] = v
    ELSE CHOOSE n \in DOMAIN Unknown : Unknown[n] = v
EntryTypeFromI32(n) == FromI32(n, EntryTypes)
EntryTypeAsI32(t) == AsI32(t, EntryTypes)
MutabilityFromI32(n) == FromI32(n, Mutabilities)
MutabilityAsI32(m) == AsI32(m, Mutabilities)

TronAbiParam(name, ty, indexed) == [name |-> name, ty |-> ty, indexed |-> indexed]
TronAbiEntry(type, name, inputs, outputs, mutability, anonymous, constant, payable) ==
    [type |-> type, name |-> name, inputs |-> inputs, outputs |-> outputs, mutability |-> mutability,
     anonymous |-> anonymous, constant |-> constant, payable |-> payable]

Types(params) == [i \in DOMAIN params |-> params[i].ty]

\* TronAbiEntry::signature: of the three kinds of entry that have a name.
EntrySignature(e) ==
    IF e.type \in {"Function", "Event", "Error"} /\ e.name # "" THEN << <<e.name, Types(e.inputs)>> >>
    ELSE <<>>

ItemsOf(entries, type) == SelectSeq(entries, LAMBDA e : e.type = type)
ItemsNamed(entries, type, name) == SelectSeq(ItemsOf(entries, type), LAMBDA e : e.name = name)

-------------------------------------------------------------------------------
(* JSON to TRON.                                                           *)

ValidateName(name, allowEmpty) ==
    IF (allowEmpty /\ name = "") \/ name \notin BadNames THEN Ok(name) ELSE Err("InvalidName")

\* selector_type: the components' names are forgotten, their types are not.
ParamFromJson(p) ==
    CASE ~ValidateName(p.name, TRUE).ok -> Err("InvalidName")
      [] p.ty = <<"tuple">> -> Err("IncompleteTuple")
      [] p.ty = <<"">> -> Err("InvalidType")
      [] OTHER -> Ok(TronAbiParam(p.name, p.ty, FALSE))
\* Mutated form: the indexed flag is lost.
EventParamFromJsonUnindexed(p) == ParamFromJson(p)
EventParamFromJson(p) ==
    CASE ~ValidateName(p.name, TRUE).ok -> Err("InvalidName")
      [] p.ty = <<"tuple">> -> Err("IncompleteTuple")
      [] p.ty = <<"">> -> Err("InvalidType")
      [] OTHER -> Ok(TronAbiParam(p.name, p.ty, p.indexed))

Mapped(params, convert(_)) == Collect([i \in DOMAIN params |-> convert(params[i])])

\* The two legacy flags are derived from the mutability.
EntryFromJson(type, name, inputs, outputs, mutability, anonymous) ==
    TronAbiEntry(type, name, inputs, outputs, mutability, anonymous,
                 mutability \in {"Pure", "View"}, mutability = "Payable")

\* One item: its name (when its kind has one), its inputs, its outputs.
ItemFromJson(type, named, item) ==
    AndThen(IF named THEN ValidateName(item.name, FALSE) ELSE Ok(item.name), LAMBDA name :
    AndThen(Mapped(item.inputs,
                   LAMBDA p : IF type = "Event" THEN EventParamFromJson(p) ELSE ParamFromJson(p)), LAMBDA inputs :
    AndThen(Mapped(item.outputs, ParamFromJson), LAMBDA outputs :
        Ok(EntryFromJson(type, name, inputs, outputs, item.mutability, item.anonymous)))))

\* try_from_json_abi: constructor, fallback, receive, functions, events, errors.
TryFromJsonAbi(abi) ==
    LET items(type, named, seq) == [i \in DOMAIN seq |-> ItemFromJson(type, named, seq[i])]
    IN Collect(items("Constructor", FALSE, abi.constructor) \o items("Fallback", FALSE, abi.fallback)
               \o items("Receive", FALSE, abi.receive) \o items("Function", TRUE, abi.functions)
               \o items("Event", TRUE, abi.events) \o items("Error", TRUE, abi.errors))

-------------------------------------------------------------------------------
(* TRON to protobuf and back: exact, numbers for the two enums.            *)

ToProto(entries) ==
    [i \in DOMAIN entries |->
        [entries[i] EXCEPT !.type = EntryTypeAsI32(@), !.mutability = MutabilityAsI32(@)]]
FromProto(proto) ==
    [i \in DOMAIN proto |->
        [proto[i] EXCEPT !.type = EntryTypeFromI32(@), !.mutability = MutabilityFromI32(@)]]

-------------------------------------------------------------------------------
(* TRON to JSON.                                                           *)

ParamToJson(p) ==
    CASE ~ValidateName(p.name, TRUE).ok -> Err("InvalidName")
      [] p.ty = <<"tuple">> -> Err("IncompleteTuple")
      [] p.ty \in BadTypes -> Err("InvalidType")
      [] OTHER -> Ok(TronAbiParam(p.name, p.ty, FALSE))
EventParamToJson(p) ==
    IF ParamToJson(p).ok THEN Ok(TronAbiParam(p.name, p.ty, p.indexed)) ELSE ParamToJson(p)

\* The legacy flags speak only when the mutability is absent.
StateToJson(mutability, constant, payable, receive) ==
    CASE mutability = Unknown[0] /\ constant /\ (receive \/ payable) -> Err("ConflictingMutability")
      [] mutability = Unknown[0] /\ (receive \/ payable) -> Ok("Payable")
      [] mutability = Unknown[0] /\ constant -> Ok("View")
      [] mutability = Unknown[0] -> Ok("NonPayable")
      [] mutability \in {Mutabilities[i] : i \in DOMAIN Mutabilities} -> Ok(mutability)
      [] OTHER -> Err("InvalidMutability")

\* An entry, and its parts as JSON.
JsonItem(e, inputs, outputs, state) ==
    LET item == [name |-> e.name, inputs |-> <<>>, outputs |-> <<>>,
                 mutability |-> Unknown[0], anonymous |-> FALSE]
    IN CASE e.type \notin {EntryTypes[i] : i \in DOMAIN EntryTypes} -> Err("UnknownEntryType")
         [] e.type \in {"Function", "Event", "Error"} /\ ~ValidateName(e.name, FALSE).ok ->
                Err("InvalidName")
         [] e.type \notin {"Fallback", "Receive"} /\ ~inputs.ok -> inputs
         [] e.type = "Function" /\ ~outputs.ok -> outputs
         [] e.type \notin {"Event", "Error"} /\ ~state.ok -> state
         [] e.type \in {"Fallback", "Receive"} ->
                Ok([item EXCEPT !.name = "", !.mutability = state.v])
         [] e.type = "Constructor" ->
                Ok([item EXCEPT !.name = "", !.inputs = inputs.v, !.mutability = state.v])
         [] e.type = "Function" ->
                Ok([item EXCEPT !.inputs = inputs.v, !.outputs = outputs.v, !.mutability = state.v])
         [] e.type = "Event" -> Ok([item EXCEPT !.inputs = inputs.v, !.anonymous = e.anonymous])
         [] e.type = "Error" -> Ok([item EXCEPT !.inputs = inputs.v])
EntryToJson(e) ==
    JsonItem(e, Mapped(e.inputs,
                       LAMBDA p : IF e.type = "Event" THEN EventParamToJson(p) ELSE ParamToJson(p)),
             Mapped(e.outputs, ParamToJson),
             StateToJson(e.mutability, e.constant, e.payable, e.type = "Receive"))

\* JsonAbi groups functions, events and errors by name and keeps the order of
\* a name's overloads; across names the order below is the entries'.
\* An entry that is there twice is refused in the same pass as the bad ones;
\* which of several errors is reported first is left out.
Grouped(entries, items) ==
    LET of(type) == LET at == SelectSeq([i \in DOMAIN entries |-> i], LAMBDA i : entries[i].type = type)
                    IN [k \in DOMAIN at |-> items[at[k]]]
    IN CASE \E type \in {"Constructor", "Fallback", "Receive"} : Len(ItemsOf(entries, type)) > 1 ->
                Err("DuplicateEntry")
         [] OTHER -> Ok([constructor |-> of("Constructor"), fallback |-> of("Fallback"),
                         receive |-> of("Receive"), functions |-> of("Function"),
                         events |-> of("Event"), errors |-> of("Error")])
TryToJsonAbi(entries) ==
    AndThen(Collect([i \in DOMAIN entries |-> EntryToJson(entries[i])]),
            LAMBDA items : Grouped(entries, items))

-------------------------------------------------------------------------------
(* contract/src/interface.rs: a JSON ABI, and its two maps.                *)

Signature(item) == <<item.name, Types(item.inputs)>>
Overloads(items, name) == SelectSeq(items, LAMBDA f : f.name = name)

\* Mutated form: every overload is the first.
BuildSelectorMapFirstOnly(abi) ==
    [s \in {Signature(abi.functions[i]) : i \in DOMAIN abi.functions} |-> <<s[1], 1>>]
\* selector -> (name, index among the name's overloads)
BuildSelectorMap(abi) ==
    [s \in {Signature(abi.functions[i]) : i \in DOMAIN abi.functions} |->
        <<s[1], CHOOSE k \in DOMAIN Overloads(abi.functions, s[1]) :
                    Signature(Overloads(abi.functions, s[1])[k]) = s>>]
BuildEventMap(abi) ==
    LET named == SelectSeq(abi.events, LAMBDA e : ~e.anonymous)
    IN [s \in {Signature(named[i]) : i \in DOMAIN named} |->
          <<s[1], CHOOSE k \in DOMAIN Overloads(abi.events, s[1]) :
                      LET e == Overloads(abi.events, s[1])[k]
                      IN ~e.anonymous /\ Signature(e) = s>>]

NewInterface(abi) == [abi |-> abi, functions |-> BuildSelectorMap(abi), events |-> BuildEventMap(abi)]

\* get_by_name is the first overload; get_by_selector is exact.
GetByName(iface, name) ==
    LET fs == Overloads(iface.abi.functions, name)
    IN IF fs = <<>> THEN Err("UnknownFunction") ELSE Ok(fs[1])
GetBySelector(iface, selector) ==
    IF selector \notin DOMAIN iface.functions THEN Err("UnknownSelector")
    ELSE LET at == iface.functions[selector] IN Ok(Overloads(iface.abi.functions, at[1])[at[2]])
GetEventByTopic(iface, topic) ==
    IF topic \notin DOMAIN iface.events THEN Err("UnknownEvent")
    ELSE LET at == iface.events[topic] IN Ok(Overloads(iface.abi.events, at[1])[at[2]])
=============================================================================
