----------------------------- MODULE MCMaintenance -----------------------------
(***************************************************************************)
(* Instances of MemoryMaintenance for TLC: behaviours of MSpec in which a  *)
(* scene, chosen at the start, bounds what is asked and what scripts do.   *)
(***************************************************************************)
EXTENDS MemoryMaintenance

CONSTANTS s1, k1, b1, x, y

VARIABLE scene

Default(b) == [block |-> b, withheld |-> FALSE]
Create(b, c, review) ==
  [scope |-> s1, key |-> NoKey, meta |-> Default(b), content |-> c, review |-> review]

Twin(review) == Create(NoBlock, x, review)
Noted == Create(b1, y, "pending")

AllCommands == {Twin(review) : review \in {"pending", "approved", "not_required"}} \cup {Noted}
Rewording == {[key |-> k1, meta |-> Default(b1), content |-> x, review |-> "approved"]}

\* statuses: twins under review, two scripts with old reads at a time.
\* texts: an approved row without a key, and a candidate that an update rewords
\* and a create words back, among backfills with old reads.
\* undos: twins approved and exempt from review, two actions to undo, freezes.
Scenes ==
  {[commands |-> {Twin("pending")}, operations |-> {"approve"}, open |-> 2, actions |-> 1,
    keyed |-> FALSE, withholds |-> FALSE, freezes |-> FALSE],
   [commands |-> {Twin("approved"), Noted}, operations |-> {"approve", "update"}, open |-> 2,
    actions |-> 0, keyed |-> TRUE, withholds |-> TRUE, freezes |-> FALSE],
   [commands |-> {Twin("approved"), Twin("not_required")}, operations |-> {}, open |-> 1,
    actions |-> 2, keyed |-> FALSE, withholds |-> FALSE, freezes |-> TRUE]}

\* the sweep and the policy backfill withhold only what they reject
NothingWithheld ==
  /\ \A r \in DOMAIN backlog' : backlog'[r].way = "reject"
  /\ \A r \in DOMAIN mem : UnderReview(mem[r]) /\ mem'[r].status = "approved" => mem'[r].meta = mem[r].meta

\* no row is given a key
NoKeyFilled == keyless' = {} /\ \A r \in DOMAIN mem' : mem'[r].key = NoKey

Busy == {w \in Writers : txn[w] # Idle}

\* At most two actors at a time are between their reads and their writes.
InScene ==
  /\ \A w \in Writers :
       /\ txn'[w].op = "create" => txn'[w].cmd \in scene.commands
       /\ txn'[w].op = "review" => txn'[w].kind \in scene.operations
  /\ Cardinality(Open') <= scene.open
  /\ Cardinality(Open') + Cardinality(Busy') <= 2
  /\ Len(ledger') <= scene.actions
  /\ scene.withholds \/ NothingWithheld
  /\ scene.keyed \/ NoKeyFilled
  /\ scene.freezes \/ frozen' = {}

MCInit == MInit /\ scene \in Scenes
MCNext == MNext /\ InScene /\ UNCHANGED scene

MCSpec == MCInit /\ [][MCNext]_<<mvars, scene>>
=============================================================================
