------------------------------ MODULE VIPTable ------------------------------
(***************************************************************************)
(* The persistent table that pins service VIPs to device principals        *)
(* (internal/agent/mesh/vip.go).  A VIP is written as its usable-host      *)
(* index 1..Capacity: vipForIndex and indexOfVIP are a bijection on that   *)
(* range, so the addresses themselves are left out.                        *)
(*                                                                         *)
(* Every operation runs under the table's mutex, so each is one action.    *)
(* What is not atomic is the file: vis is what a reader of the path sees,  *)
(* disk what is certain to survive a power loss.  A rename moves vis; only *)
(* the directory sync moves disk.  A crash between the two is the failed   *)
(* sync ("after") followed by PowerLoss or Close.                          *)
(***************************************************************************)
EXTENDS Naturals, FiniteSets

CONSTANTS Devices,   \* device UUIDs
          Tenants,   \* tenant UUIDs
          Capacity,  \* usable host addresses of the prefix
          None       \* absence of an entry or owner

ASSUME CapacityAssumption == Capacity \in Nat \ {0}
ASSUME NoneAssumption ==
  None \notin Devices /\ None \notin [tenant : Tenants, vip : 1..Capacity]

VARIABLES
  open,      \* a table is in use (OpenVIPTable returned it)
  poisoned,  \* persistenceErr # nil
  entries,   \* device -> its pin, or None
  owner,     \* VIP -> device, or None
  retired,   \* VIPs that are never allocated again
  cursor,    \* next index to try
  vis,       \* the file as a reader of the path sees it
  disk,      \* the file a power loss is sure to leave
  grants     \* history: every (device, tenant, vip) a caller was given

memory == <<entries, owner, retired, cursor>>
vars   == <<open, poisoned, memory, vis, disk, grants>>

-----------------------------------------------------------------------------
VIPs    == 1..Capacity
Pins    == [tenant : Tenants, vip : VIPs]
Records == [device : Devices, tenant : Tenants, vip : VIPs]
Files   == [cursor : 1..(Capacity + 1), entries : SUBSET Records,
            retired : SUBSET VIPs]

\* Memory and both views of the file keep their types; the cursor stays in
\* the range load accepts.
TypeOK ==
  /\ open \in BOOLEAN /\ poisoned \in BOOLEAN
  /\ entries \in [Devices -> Pins \cup {None}]
  /\ owner \in [VIPs -> Devices \cup {None}]
  /\ retired \in SUBSET VIPs
  /\ cursor \in 1..(Capacity + 1)
  /\ vis \in Files /\ disk \in Files
  /\ grants \in SUBSET Records

-----------------------------------------------------------------------------
(* The file: vipTableFile, persist's encoding and load's decoding.         *)

Record(d, pin) == [device |-> d, tenant |-> pin.tenant, vip |-> pin.vip]

FileOf(e, r, c) ==
  [cursor  |-> c,
   entries |-> {Record(d, e[d]) : d \in {x \in Devices : e[x] # None}},
   retired |-> r]

\* Mutant: the cursor starts at its zero value.
FreshFile_Zero == [cursor |-> 0, entries |-> {}, retired |-> {}]

\* A missing file reads as a fresh table.
FreshFile == [cursor |-> 1, entries |-> {}, retired |-> {}]

\* What load accepts.
Valid(f) ==
  /\ f.cursor \in 1..(Capacity + 1)
  /\ \A r \in f.entries : r.vip \in VIPs
  /\ \A r, s \in f.entries : r.device = s.device \/ r.vip = s.vip => r = s
  /\ f.retired \subseteq VIPs
  /\ \A r \in f.entries : r.vip \notin f.retired

RecordOf(f, d) == CHOOSE r \in f.entries : r.device = d

LoadedEntries(f) ==
  [d \in Devices |->
     IF \E r \in f.entries : r.device = d
     THEN [tenant |-> RecordOf(f, d).tenant, vip |-> RecordOf(f, d).vip]
     ELSE None]

LoadedOwner(f) ==
  [v \in VIPs |->
     IF \E r \in f.entries : r.vip = v
     THEN (CHOOSE r \in f.entries : r.vip = v).device
     ELSE None]

-----------------------------------------------------------------------------
Usable == open /\ ~poisoned

\* nextVIPLocked: the first index at or after the cursor that is neither held
\* nor retired.
Free(v) == owner[v] = None /\ v \notin retired

\* Mutant: the scan starts over and does not ask for retirement.
NextVIP_Recycling ==
  {v \in VIPs : /\ owner[v] = None
                /\ \A w \in VIPs : w < v => owner[w] # None}

NextVIP ==
  {v \in VIPs : /\ cursor <= v /\ Free(v)
                /\ \A w \in VIPs : cursor <= w /\ w < v => ~Free(w)}

\* persist.  ok: renamed and synced.  before: failed with the old file in
\* place.  after: renamed, the directory sync failed.
PersistOutcomes == {"ok", "before", "after"}

\* Mutant: a failed directory sync is reported as success.
PersistError_SyncIgnored(outcome) ==
  IF outcome = "before" THEN "error" ELSE "nil"

\* The error persist returns; poison is persistenceErr.
PersistError(outcome) ==
  CASE outcome = "ok" -> "nil"
    [] outcome = "before" -> "error"
    [] outcome = "after" -> "poison"

Persist(outcome, f) ==
  /\ vis' = IF outcome = "before" THEN vis ELSE f
  /\ disk' = IF outcome = "ok" THEN f ELSE disk

\* The four maps after a device's old pin p (or None) gave way to VIP v.
Released(o, p) == IF p = None THEN o ELSE [o EXCEPT ![p.vip] = None]
WithRetired(r, p) == IF p = None THEN r ELSE r \cup {p.vip}

\* Mutant: the failed allocation leaves the cursor past the address.
UndoCursor_Kept(c1) == c1

\* The rollback of a failed persist restores each map by name.
UndoCursor(c1) == cursor

\* Mutant: the address that was not granted keeps its owner.
UndoOwner_Kept(o1, v, d, p) == o1

UndoOwner(o1, v, d, p) ==
  IF p = None THEN [o1 EXCEPT ![v] = None]
              ELSE [o1 EXCEPT ![v] = None, ![p.vip] = d]

UndoRetired(r1, p) == IF p = None THEN r1 ELSE r1 \ {p.vip}

\* Allocate on a pin it already holds: idempotent.
AllocateHit(d, t) ==
  /\ Usable
  /\ entries[d] # None /\ entries[d].tenant = t
  /\ grants' = grants \cup {Record(d, entries[d])}
  /\ UNCHANGED <<open, poisoned, memory, vis, disk>>

AllocateMiss(d, t, v, outcome) ==
  LET prev == entries[d]
      e1   == [entries EXCEPT ![d] = [tenant |-> t, vip |-> v]]
      o1   == [Released(owner, prev) EXCEPT ![v] = d]
      r1   == WithRetired(retired, prev)
      c1   == v + 1
  IN /\ Usable
     /\ prev # None => prev.tenant # t
     /\ v \in NextVIP
     /\ Persist(outcome, FileOf(e1, r1, c1))
     /\ IF PersistError(outcome) = "error"
        THEN /\ entries' = [e1 EXCEPT ![d] = prev]
             /\ owner'   = UndoOwner(o1, v, d, prev)
             /\ retired' = UndoRetired(r1, prev)
             /\ cursor'  = UndoCursor(c1)
        ELSE /\ entries' = e1 /\ owner' = o1 /\ retired' = r1 /\ cursor' = c1
     /\ poisoned' = (PersistError(outcome) = "poison")
     /\ grants' = IF PersistError(outcome) = "nil"
                  THEN grants \cup {[device |-> d, tenant |-> t, vip |-> v]}
                  ELSE grants
     /\ open' = open

\* Allocate; with the pool exhausted it returns ErrExhausted and changes
\* nothing.
Allocate(d, t) ==
  \/ AllocateHit(d, t)
  \/ \E v \in VIPs, outcome \in PersistOutcomes : AllocateMiss(d, t, v, outcome)

\* Lookup hands out an existing pin only to the same principal.
Lookup(d, t) == AllocateHit(d, t)

\* RetireTenant: entries outside the tenant are dropped; any persistence
\* failure poisons the table with the entries gone from memory.
Outside(t) == {d \in Devices : entries[d] # None /\ entries[d].tenant # t}

RetireTenant(t, outcome) ==
  LET vips == {entries[d].vip : d \in Outside(t)}
      e1 == [d \in Devices |-> IF d \in Outside(t) THEN None ELSE entries[d]]
      o1 == [v \in VIPs |-> IF v \in vips THEN None ELSE owner[v]]
      r1 == retired \cup vips
  IN /\ Usable
     /\ Outside(t) # {}
     /\ Persist(outcome, FileOf(e1, r1, cursor))
     /\ entries' = e1 /\ owner' = o1 /\ retired' = r1
     /\ poisoned' = (PersistError(outcome) # "nil")
     /\ UNCHANGED <<open, cursor, grants>>

-----------------------------------------------------------------------------
(* Opening, closing and power loss.                                        *)

\* openVIPTable: load, then sync the directory before anything is returned.
\* A failed sync, like a corrupt file, opens nothing.
Open ==
  /\ ~open
  /\ Valid(vis)
  /\ open' = TRUE /\ poisoned' = FALSE
  /\ entries' = LoadedEntries(vis) /\ owner' = LoadedOwner(vis)
  /\ retired' = vis.retired /\ cursor' = vis.cursor
  /\ disk' = vis
  /\ UNCHANGED <<vis, grants>>

\* The agent process ends, or drops a table it cannot use.
Close ==
  /\ open
  /\ open' = FALSE
  /\ UNCHANGED <<poisoned, memory, vis, disk, grants>>

\* EXTERNAL: a rename that was not synced may or may not be there afterwards.
PowerLoss ==
  /\ open' = FALSE
  /\ vis' \in {vis, disk} /\ disk' = vis'
  /\ UNCHANGED <<poisoned, memory, grants>>

Init ==
  /\ open = FALSE /\ poisoned = FALSE
  /\ entries = LoadedEntries(FreshFile) /\ owner = LoadedOwner(FreshFile)
  /\ retired = FreshFile.retired /\ cursor = FreshFile.cursor
  /\ vis = FreshFile /\ disk = FreshFile
  /\ grants = {}

Next ==
  \/ \E d \in Devices, t \in Tenants : Allocate(d, t) \/ Lookup(d, t)
  \/ \E t \in Tenants, outcome \in PersistOutcomes : RetireTenant(t, outcome)
  \/ Open \/ Close \/ PowerLoss

Spec == Init /\ [][Next]_vars

-----------------------------------------------------------------------------
(* Properties.                                                             *)

\* "A VIP is never handed to a second device, and a retired VIP is never
\* re-allocated" (VIPTable): over all restarts, failed writes and power
\* losses, one VIP was only ever given to one principal.
NeverShared == \A g, h \in grants : g.vip = h.vip => g = h

\* A VIP that a caller was given is, in the file a power loss would leave,
\* still pinned to that principal or retired: Allocate's answer never
\* outlives its record.
GrantsDurable ==
  \A g \in grants : g \in disk.entries \/ g.vip \in disk.retired

\* A usable table's reverse map is the inverse of its entries and holds no
\* retired VIP: Device(vip) "cannot fail" on an owner it finds.
OwnerIsInverse ==
  Usable => /\ \A v \in VIPs, d \in Devices :
                 owner[v] = d <=> (entries[d] # None /\ entries[d].vip = v)
            /\ \A v \in retired : owner[v] = None

\* "Keep memory and disk identical": what a usable table holds is what the
\* file holds, durably.
MemoryIsDurable ==
  Usable => vis = FileOf(entries, retired, cursor) /\ disk = vis

\* ErrExhausted says all VIPs are "allocated or retired": nothing the scan
\* has passed is free.
NothingFreeBehindCursor ==
  Usable => \A v \in VIPs : v < cursor => ~Free(v)

\* load never refuses a file the table wrote, whichever of the two a crash
\* leaves.
FileLoads == Valid(vis) /\ Valid(disk)
=============================================================================
