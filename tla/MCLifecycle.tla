------------------------------ MODULE MCLifecycle ------------------------------
(* Instances of MemoryLifecycle for TLC. *)
EXTENDS MemoryLifecycle, FiniteSets, TLC

CONSTANTS s1, k1, b1, x, y

WriterSymmetry == Permutations(Writers)

Default(b) == [block |-> b, withheld |-> FALSE]
Create(s, k, b, c, review) == [scope |-> s, key |-> k, meta |-> Default(b), content |-> c, review |-> review]
Payload(k, b, c) == [key |-> k, meta |-> Default(b), content |-> c, review |-> "approved"]

\* a command that finds rows by key, one that finds them by source block
MixedCommands == {Create(s1, k1, NoBlock, y, "approved"), Create(s1, NoKey, b1, y, "pending")}
MixedEdits == {Payload(k1, b1, x)}

\* what two sessions write of one fact
KeyedCommands == {Create(s1, k1, NoBlock, x, "approved"), Create(s1, k1, NoBlock, y, "approved")}
=============================================================================
