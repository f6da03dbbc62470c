----------------------------- MODULE Membership -----------------------------
(***************************************************************************)
(* Why a device joined or left a smart group: changes/derive.py,            *)
(* _membership_cause, over the two histories it compares.  A definition's   *)
(* span is stamped with our clock when the catalog pass reads it            *)
(* (mdm/service.py _observe_groups), a device's span with the report date   *)
(* Jamf gives.  One group, one device; the clock advances with every event. *)
(***************************************************************************)
EXTENDS Naturals

CONSTANTS Facts,     \* what the criteria look at on the device
          Criteria,  \* the criteria the group may have: sets of facts
          MaxTime    \* bound: events

MembershipAssumption == Criteria \subseteq SUBSET Facts /\ MaxTime \in Nat

VARIABLES
    now,      \* our clock
    jamf,     \* [criteria, fact, exists, report]: Jamf's side
    group,    \* [criteria, first, follows, departed]: its current span, an open departure row
    device,   \* [member, last]: the device's current span
    sweep,    \* "idle", or "devices" between the catalog pass and the device loop
    row,      \* the last membership row recorded, with what was true when it was
    read      \* [at, gone]: when the device was last read; what the last catalog pass saw

vars == <<now, jamf, group, device, sweep, row, read>>

Causes == {"none", "criteria", "drift", "deleted"}
IsMember(j) == j.exists /\ j.fact \in j.criteria

TypeOK ==
    /\ now \in 0..MaxTime
    /\ jamf \in [criteria: Criteria, fact: Facts, exists: BOOLEAN, report: 0..MaxTime]
    /\ group \in [criteria: Criteria, first: 0..MaxTime, follows: BOOLEAN, departed: BOOLEAN]
    /\ device \in [member: BOOLEAN, last: 0..MaxTime]
    /\ sweep \in {"idle", "devices"}
    /\ row \in [cause: Causes, moved: BOOLEAN, gone: BOOLEAN]
    /\ read \in [at: 0..MaxTime, gone: BOOLEAN]

Init ==
    /\ now = 0 /\ sweep = "idle"
    /\ \E c \in Criteria, f \in Facts :
          /\ jamf = [criteria |-> c, fact |-> f, exists |-> TRUE, report |-> 0]
          /\ group = [criteria |-> c, first |-> 0, follows |-> FALSE, departed |-> FALSE]
          /\ device = [member |-> f \in c, last |-> 0]
    /\ row = [cause |-> "none", moved |-> FALSE, gone |-> FALSE]
    /\ read = [at |-> 0, gone |-> FALSE]

Tick == now < MaxTime /\ now' = now + 1

-----------------------------------------------------------------------------
(* Jamf's side.                                                             *)
Edit ==
    /\ Tick /\ jamf.exists
    /\ \E c \in Criteria \ {jamf.criteria} : jamf' = [jamf EXCEPT !.criteria = c]
    /\ UNCHANGED <<group, device, sweep, row, read>>

Delete ==
    /\ Tick /\ jamf.exists
    /\ jamf' = [jamf EXCEPT !.exists = FALSE]
    /\ UNCHANGED <<group, device, sweep, row, read>>

CheckIn ==
    /\ Tick
    /\ \E f \in Facts : jamf' = [jamf EXCEPT !.fact = f, !.report = now']
    /\ UNCHANGED <<group, device, sweep, row, read>>

-----------------------------------------------------------------------------
(* The catalog pass, a collection of its own or the first half of a sweep:  *)
(* a definition that moved opens a span, one that is gone a departure.      *)
Observed ==
    IF ~jamf.exists THEN [group EXCEPT !.departed = TRUE]
    ELSE IF jamf.criteria = group.criteria THEN group
    ELSE [criteria |-> jamf.criteria, first |-> now', follows |-> TRUE, departed |-> FALSE]

CatalogPass ==
    /\ Tick /\ sweep = "idle"
    /\ group' = Observed
    /\ read' = [read EXCEPT !.gone = ~jamf.exists]
    /\ sweep' \in {"idle", "devices"}
    /\ UNCHANGED <<jamf, device, row>>

-----------------------------------------------------------------------------
(* One read of the device: record_observation, then the cause of a          *)
(* membership that changed.  `previous` is the device's span that closes.   *)
\* A bug: nobody asks whether the group was deleted.
_membership_cause_Unasked(previous) ==
    IF group.follows /\ group.first > previous.last THEN "criteria" ELSE "drift"

_membership_cause(previous) ==
    IF group.departed /\ device.member THEN "deleted"
    ELSE IF group.follows /\ group.first > previous.last THEN "criteria" ELSE "drift"

Ingest ==
    LET member == IsMember(jamf) IN
    IF jamf.report < device.last THEN UNCHANGED <<device, row>>
    ELSE /\ device' = [member |-> member, last |-> jamf.report]
         /\ row' = IF member = device.member THEN row
                   ELSE [cause |-> _membership_cause(device), moved |-> group.first > read.at, gone |-> read.gone]

DeviceLoop ==
    /\ Tick /\ sweep = "devices"
    /\ Ingest
    /\ sweep' = "idle"
    /\ read' = [read EXCEPT !.at = now']
    /\ UNCHANGED <<jamf, group>>

Webhook ==
    /\ Tick
    /\ Ingest
    /\ read' = [read EXCEPT !.at = now']
    /\ UNCHANGED <<jamf, group, sweep>>

Next == Edit \/ Delete \/ CheckIn \/ CatalogPass \/ DeviceLoop \/ Webhook
Spec == Init /\ [][Next]_vars

-----------------------------------------------------------------------------
(* Properties.                                                              *)

\* A row says "criteria" whenever the definition's span opened after the device was last
\* read, and a removal recorded once the catalog has missed the group says "deleted",
\* whatever the report dates (_membership_cause, the order of sync).
CauseIsTold ==
    /\ TypeOK
    /\ row.gone => row.cause = "deleted"
    /\ row.moved /\ ~row.gone => row.cause = "criteria"

\* "criteria changed" is said only when the group's own definition moved since the device
\* was last observed (docs/change-log.md).
DriftIsDrift == row.cause = "criteria" => row.moved
=============================================================================
