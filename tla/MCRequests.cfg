SPECIFICATION MCSpec
CONSTANTS
  alice = alice
  bob = bob
  carol = carol
  zero = zero
  Kinds = {"transfer", "deploy", "setAccountId"}
  Plain = {"setAccountId"}
  pay = pay
  sweep = sweep
  unreadable = unreadable
  Parts = {"assembly", "operations", "stack"}
  t1 = t1
  t2 = t2
  Bodies = {pay, sweep}
  Broken = {unreadable}
  Fields = {"permission_id", "expiration"}
  Addresses = {alice, bob, carol, zero}
  Zero = zero
  Held = {alice, bob}
  DefaultKey = bob
  KeyLists <- MultisigLists
SYMMETRY BodySymmetry
INVARIANTS
  SignaturesCoverWire WireIsRequested StrictSignsAsOwner
  NodeReadsWhatWasSet HonestNodeAccepted ReadsBackAsAsked
  LayersRunOutsideIn SentOnceTracedOnce AbsentMeansEmpty ListsLoseNothing
