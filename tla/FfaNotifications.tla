-------------------------- MODULE FfaNotifications --------------------------
(***************************************************************************)
(* FF-A notifications: ffa/notifications.rs and its handlers in            *)
(* ffa/proxy.rs.  A 64-bit bitmap is a set of notification IDs.  One       *)
(* action is one call; the proxy checks neither who calls nor that the     *)
(* sender it is given is the caller.                                       *)
(***************************************************************************)
EXTENDS Integers, FiniteSets

CONSTANTS
  MaxEndpoint,   \* endpoints with state: 1..MaxEndpoint, VMs before SPs
  Senders,       \* sender IDs a caller may name
  Ids,           \* notification IDs, 0..63 in the code
  MaxBinds,      \* MAX_BINDS
  MaxListed      \* how many endpoints info_get can list (4)

ASSUME NotificationsAssumption ==
  /\ MaxEndpoint \in Nat
  /\ MaxBinds \in Nat
  /\ MaxListed \in Nat \ {0}

VARIABLES enabled, pending, binds

notifVars == <<enabled, pending, binds>>

Endpoints == 1..MaxEndpoint
Unknown == 0                       \* an ID endpoint_index does not map
Slots == 1..MaxBinds
NoBind == [active |-> FALSE]
Bind(sender, bitmap) == [active |-> TRUE, sender |-> sender, bitmap |-> bitmap]

Refused == UNCHANGED notifVars

bitmap_create(e) ==
  IF e = Unknown \/ enabled[e] THEN Refused
  ELSE enabled' = [enabled EXCEPT ![e] = TRUE] /\ UNCHANGED <<pending, binds>>

bitmap_destroy(e) ==
  IF e = Unknown \/ ~enabled[e] THEN Refused
  ELSE /\ enabled' = [enabled EXCEPT ![e] = FALSE]
       /\ pending' = [pending EXCEPT ![e] = {}]
       /\ binds' = [binds EXCEPT ![e] = [s \in Slots |-> NoBind]]

Overlaps_mutant(e, s, bitmap) == binds[e][s].active /\ bitmap \subseteq binds[e][s].bitmap
Overlaps(e, s, bitmap) == binds[e][s].active /\ binds[e][s].bitmap \cap bitmap # {}

\* The first free slot takes the bind; with none the call returns NO_MEMORY.
bind(sender, e, bitmap) ==
  IF \/ bitmap = {} \/ e = Unknown \/ ~enabled[e]
     \/ \E s \in Slots : Overlaps(e, s, bitmap)
     \/ \A s \in Slots : binds[e][s].active
  THEN Refused
  ELSE \E s \in Slots :
         /\ ~binds[e][s].active /\ \A t \in Slots : t < s => binds[e][t].active
         /\ binds' = [binds EXCEPT ![e][s] = Bind(sender, bitmap)]
         /\ UNCHANGED <<enabled, pending>>

\* Only the first bind of the sender that meets the bitmap is cut back.
UnbindMatches(sender, e, bitmap, s) ==
  binds[e][s].active /\ binds[e][s].sender = sender /\ binds[e][s].bitmap \cap bitmap # {}

CutBack(b, bitmap) ==
  IF b.bitmap \subseteq bitmap THEN NoBind ELSE Bind(b.sender, b.bitmap \ bitmap)

unbind(sender, e, bitmap) ==
  IF e = Unknown \/ ~\E s \in Slots : UnbindMatches(sender, e, bitmap, s) THEN Refused
  ELSE \E s \in Slots :
         /\ UnbindMatches(sender, e, bitmap, s)
         /\ \A t \in Slots : t < s => ~UnbindMatches(sender, e, bitmap, t)
         /\ binds' = [binds EXCEPT ![e][s] = CutBack(@, bitmap)]
         /\ UNCHANGED <<enabled, pending>>

Allowed(sender, e) ==
  UNION {binds[e][s].bitmap : s \in {t \in Slots : binds[e][t].active /\ binds[e][t].sender = sender}}

set(sender, e, bitmap) ==
  IF e = Unknown \/ ~enabled[e] \/ ~(bitmap \subseteq Allowed(sender, e)) THEN Refused
  ELSE pending' = [pending EXCEPT ![e] = @ \cup bitmap] /\ UNCHANGED <<enabled, binds>>

get(e) ==
  IF e = Unknown \/ ~enabled[e] THEN Refused
  ELSE pending' = [pending EXCEPT ![e] = {}] /\ UNCHANGED <<enabled, binds>>

\* What INFO_GET lists: endpoints in index order until the list is full.
HasPending(e) == enabled[e] /\ pending[e] # {}
info_get_mutant ==
  {e \in Endpoints : HasPending(e) /\ Cardinality({f \in Endpoints : f < e}) < MaxListed}
info_get ==
  {e \in Endpoints : HasPending(e) /\ Cardinality({f \in Endpoints : f < e /\ HasPending(f)}) < MaxListed}

-----------------------------------------------------------------------------

NotifInit ==
  /\ enabled = [e \in Endpoints |-> FALSE]
  /\ pending = [e \in Endpoints |-> {}]
  /\ binds = [e \in Endpoints |-> [s \in Slots |-> NoBind]]

NotifNext ==
  \E e \in Endpoints \cup {Unknown} :
    \/ bitmap_create(e)
    \/ bitmap_destroy(e)
    \/ get(e)
    \/ \E sender \in Senders, bitmap \in SUBSET Ids :
         \/ bind(sender, e, bitmap)
         \/ unbind(sender, e, bitmap)
         \/ set(sender, e, bitmap)

NotifSpec == NotifInit /\ [][NotifNext]_notifVars

-----------------------------------------------------------------------------
(* Properties.                                                             *)

\* The types of the state; an active bind is of at least one ID.
NotifTypeOK ==
  /\ enabled \in [Endpoints -> BOOLEAN]
  /\ pending \in [Endpoints -> SUBSET Ids]
  /\ binds \in [Endpoints -> [Slots -> {NoBind}
       \cup [active : {TRUE}, sender : Senders, bitmap : (SUBSET Ids) \ {{}}]]]

\* A notification ID of a receiver is bound at most once, so to one sender, after
\* any sequence of binds, partial unbinds and destroys.
BindsDisjoint ==
  \A e \in Endpoints, s, t \in Slots :
    s # t /\ binds[e][s].active /\ binds[e][t].active =>
      binds[e][s].bitmap \cap binds[e][t].bitmap = {}

\* An endpoint without a bitmap has no bind and nothing pending: a bitmap that is
\* created again starts empty (bitmap_create itself clears nothing).
DisabledIsClean ==
  \A e \in Endpoints : ~enabled[e] =>
    pending[e] = {} /\ \A s \in Slots : ~binds[e][s].active

\* The bindings and bits are in order after any sequence of calls: their types, and the two
\* properties above.
NotifInv == NotifTypeOK /\ BindsDisjoint /\ DisabledIsClean

\* INFO_GET lists every endpoint with something pending as long as the list has
\* room, and fills the list when it has not.
InfoGetLists ==
  LET all == {e \in Endpoints : HasPending(e)} IN
  /\ info_get \subseteq all
  /\ Cardinality(info_get) = IF Cardinality(all) <= MaxListed THEN Cardinality(all) ELSE MaxListed

\* What test_ffa.rs test 37 expects of NOTIFICATION_UNBIND: after a call that
\* succeeds, the sender can set none of the IDs it was unbound from.
UnbindRevokes ==
  [][\A e \in Endpoints, sender \in Senders, bitmap \in SUBSET Ids :
       unbind(sender, e, bitmap) /\ binds' # binds => Allowed(sender, e)' \cap bitmap = {}]_notifVars
=============================================================================
