-------------------------- MODULE MeshNamesProofs ---------------------------
(***************************************************************************)
(* Proofs about the VIP table for every set of devices and tenants and     *)
(* every capacity, and about the agent around it.  The table's invariants  *)
(* are not inductive one by one: that a VIP is never shared rests on what  *)
(* the two files remember of the grants, and that in turn on memory and    *)
(* file agreeing while the table is usable.                                *)
(*                                                                         *)
(* The agent's start-up, DNS server and provisioning use the table only    *)
(* through its operations, so the table's theorems carry over to the       *)
(* composed system; and no pin of a former tenant resolves in an enrolled  *)
(* agent.                                                                  *)
(***************************************************************************)
EXTENDS MeshNames, TLAPS

-----------------------------------------------------------------------------
(* The table.                                                              *)

\* The two maps are inverse to each other and disjoint from retired.
Inverse(e, o, r) ==
  /\ \A v \in VIPs, d \in Devices : o[v] = d <=> (e[d] # None /\ e[d].vip = v)
  /\ \A v \in r : o[v] = None

Remembers(f) == \A g \in grants : g \in f.entries \/ g.vip \in f.retired

NoGap(f) == \A v \in VIPs : v < f.cursor =>
              v \in f.retired \/ \E r \in f.entries : r.vip = v

FileInv(f) == Valid(f) /\ Remembers(f) /\ NoGap(f)

\* The inductive invariant.
IInv ==
  /\ TypeOK
  /\ NeverShared
  /\ FileInv(vis)
  /\ FileInv(disk)
  /\ Usable => /\ Inverse(entries, owner, retired)
               /\ vis = FileOf(entries, retired, cursor)
               /\ disk = vis

EntryMaps == [Devices -> Pins \cup {None}]
OwnerMaps == [VIPs -> Devices \cup {None}]

-----------------------------------------------------------------------------
\* The records of an encoded table are its pins.
LEMMA FileOfMember ==
  ASSUME NEW e \in EntryMaps, NEW r, NEW c, NEW x
  PROVE  x \in FileOf(e, r, c).entries
           <=> /\ x \in Records
               /\ e[x.device] = [tenant |-> x.tenant, vip |-> x.vip]
<1>1. ASSUME x \in FileOf(e, r, c).entries
      PROVE  x \in Records /\ e[x.device] = [tenant |-> x.tenant, vip |-> x.vip]
  <2>1. PICK d \in Devices : e[d] # None /\ x = Record(d, e[d])
    BY <1>1 DEF FileOf
  <2>2. e[d] \in Pins
    BY <2>1 DEF EntryMaps
  <2> QED BY <2>1, <2>2 DEF Record, Records, Pins
<1>2. ASSUME x \in Records, e[x.device] = [tenant |-> x.tenant, vip |-> x.vip]
      PROVE  x \in FileOf(e, r, c).entries
  <2>1. e[x.device] \in Pins /\ x.device \in Devices
    BY <1>2 DEF Records, Pins
  <2>2. e[x.device] # None
    BY <2>1, NoneAssumption DEF Pins, VIPs
  <2>3. x = Record(x.device, e[x.device])
    BY <1>2 DEF Record, Records
  <2> QED BY <2>1, <2>2, <2>3 DEF FileOf
<1> QED BY <1>1, <1>2

\* persist writes a file of the right shape.
LEMMA FileOfType ==
  ASSUME NEW e \in EntryMaps, NEW r \in SUBSET VIPs, NEW c \in 1..(Capacity + 1)
  PROVE  FileOf(e, r, c) \in Files
<1>1. FileOf(e, r, c).entries \in SUBSET Records
  BY FileOfMember
<1> QED BY <1>1 DEF FileOf, Files

\* load accepts what persist writes of a consistent table.
LEMMA FileOfValid ==
  ASSUME NEW e \in EntryMaps, NEW o \in OwnerMaps, NEW r \in SUBSET VIPs,
         NEW c \in 1..(Capacity + 1), Inverse(e, o, r)
  PROVE  Valid(FileOf(e, r, c))
<1> DEFINE f == FileOf(e, r, c)
<1>1. f.cursor = c /\ f.retired = r
  BY DEF FileOf
<1>2. ASSUME NEW x \in f.entries
      PROVE  /\ x \in Records
             /\ e[x.device] = [tenant |-> x.tenant, vip |-> x.vip]
             /\ o[x.vip] = x.device
  <2>1. x \in Records /\ e[x.device] = [tenant |-> x.tenant, vip |-> x.vip]
    BY FileOfMember
  <2>2. e[x.device] # None /\ e[x.device].vip = x.vip
    BY <2>1, NoneAssumption DEF Records, VIPs
  <2> QED BY <2>1, <2>2 DEF Inverse, Records
<1>3. \A x \in f.entries : x.vip \in VIPs
  BY <1>2 DEF Records
<1>4. \A x, y \in f.entries : x.device = y.device \/ x.vip = y.vip => x = y
  <2> SUFFICES ASSUME NEW x \in f.entries, NEW y \in f.entries,
                      x.device = y.device \/ x.vip = y.vip
               PROVE  x = y
    OBVIOUS
  <2>1. x.device = y.device
    BY <1>2
  <2>2. [tenant |-> x.tenant, vip |-> x.vip] = [tenant |-> y.tenant, vip |-> y.vip]
    BY <1>2, <2>1
  <2> QED BY <1>2, <2>1, <2>2 DEF Records
<1>5. \A x \in f.entries : x.vip \notin r
  <2> SUFFICES ASSUME NEW x \in f.entries, x.vip \in r PROVE FALSE
    OBVIOUS
  <2>1. o[x.vip] = x.device /\ x.device \in Devices
    BY <1>2 DEF Records
  <2> QED BY <2>1, NoneAssumption DEF Inverse
<1> QED BY <1>1, <1>3, <1>4, <1>5 DEF Valid

\* load rebuilds the maps persist encoded.
LEMMA LoadedIsInverse ==
  ASSUME NEW f \in Files, Valid(f)
  PROVE  /\ LoadedEntries(f) \in EntryMaps
         /\ LoadedOwner(f) \in OwnerMaps
         /\ Inverse(LoadedEntries(f), LoadedOwner(f), f.retired)
         /\ f = FileOf(LoadedEntries(f), f.retired, f.cursor)
<1> DEFINE e == LoadedEntries(f)
           o == LoadedOwner(f)
<1>0. f.entries \subseteq Records /\ f.retired \subseteq VIPs
  BY DEF Files
<1>1. ASSUME NEW x \in f.entries
      PROVE  /\ x \in Records
             /\ e[x.device] = [tenant |-> x.tenant, vip |-> x.vip]
             /\ e[x.device] # None /\ e[x.device].vip = x.vip
             /\ o[x.vip] = x.device
  <2>1. x \in Records
    BY <1>0
  <2>2. RecordOf(f, x.device) = x
    BY DEF RecordOf, Valid
  <2>3. (CHOOSE y \in f.entries : y.vip = x.vip) = x
    BY DEF Valid
  <2>4. e[x.device] = [tenant |-> x.tenant, vip |-> x.vip]
    BY <2>1, <2>2 DEF LoadedEntries, Records
  <2>5. o[x.vip] = x.device
    BY <2>1, <2>3 DEF LoadedOwner, Records
  <2>6. e[x.device] # None
    BY <2>1, <2>4, NoneAssumption DEF Records, VIPs
  <2> QED BY <2>1, <2>4, <2>5, <2>6
<1>2. ASSUME NEW d \in Devices, e[d] # None
      PROVE  \E x \in f.entries : x.device = d
  BY <1>2 DEF LoadedEntries
<1>3. ASSUME NEW v \in VIPs, o[v] # None
      PROVE  \E x \in f.entries : x.vip = v
  BY <1>3 DEF LoadedOwner
<1>4. e \in EntryMaps
  <2>0. e = [d \in Devices |-> e[d]]
    BY DEF LoadedEntries
  <2>1. ASSUME NEW d \in Devices PROVE e[d] \in Pins \cup {None}
    <3>1. CASE e[d] = None
      BY <3>1
    <3>2. CASE e[d] # None
      <4>1. PICK x \in f.entries : x.device = d
        BY <3>2, <1>2
      <4>2. x \in Records /\ e[d] = [tenant |-> x.tenant, vip |-> x.vip]
        BY <4>1, <1>1
      <4> QED BY <4>2 DEF Pins, Records
    <3> QED BY <3>1, <3>2
  <2> HIDE DEF e
  <2> QED BY <2>0, <2>1 DEF EntryMaps
<1>5. o \in OwnerMaps
  <2>0. o = [v \in VIPs |-> o[v]]
    BY DEF LoadedOwner
  <2>1. ASSUME NEW v \in VIPs PROVE o[v] \in Devices \cup {None}
    <3>1. CASE o[v] = None
      BY <3>1
    <3>2. CASE o[v] # None
      <4>1. PICK x \in f.entries : x.vip = v
        BY <3>2, <1>3
      <4>2. x \in Records /\ o[v] = x.device
        BY <4>1, <1>1
      <4> QED BY <4>2 DEF Records
    <3> QED BY <3>1, <3>2
  <2> HIDE DEF o
  <2> QED BY <2>0, <2>1 DEF OwnerMaps
<1> HIDE DEF e, o
<1>6. Inverse(e, o, f.retired)
  <2>1. ASSUME NEW v \in VIPs, NEW d \in Devices, o[v] = d
        PROVE  e[d] # None /\ e[d].vip = v
    <3>1. o[v] # None
      BY <2>1, NoneAssumption
    <3>2. PICK x \in f.entries : x.vip = v
      BY <3>1, <1>3
    <3> QED BY <2>1, <3>2, <1>1
  <2>2. ASSUME NEW v \in VIPs, NEW d \in Devices, e[d] # None, e[d].vip = v
        PROVE  o[v] = d
    <3>1. PICK x \in f.entries : x.device = d
      BY <2>2, <1>2
    <3> QED BY <2>2, <3>1, <1>1
  <2>3. ASSUME NEW v \in f.retired PROVE o[v] = None
    <3> SUFFICES ASSUME o[v] # None PROVE FALSE
      OBVIOUS
    <3>1. PICK x \in f.entries : x.vip = v
      BY <1>0, <1>3
    <3> QED BY <3>1 DEF Valid
  <2> QED BY <2>1, <2>2, <2>3 DEF Inverse
<1>7. f.entries = FileOf(e, f.retired, f.cursor).entries
  <2>1. ASSUME NEW x \in f.entries
        PROVE  x \in FileOf(e, f.retired, f.cursor).entries
    BY <1>1, <1>4, FileOfMember
  <2>2. ASSUME NEW x \in FileOf(e, f.retired, f.cursor).entries
        PROVE  x \in f.entries
    <3>1. x \in Records /\ e[x.device] = [tenant |-> x.tenant, vip |-> x.vip]
      BY <1>4, FileOfMember
    <3>2. e[x.device] # None /\ x.device \in Devices
      BY <3>1, NoneAssumption DEF Records, VIPs
    <3>3. PICK y \in f.entries : y.device = x.device
      BY <3>2, <1>2
    <3>4. y \in Records /\ [tenant |-> y.tenant, vip |-> y.vip]
                             = [tenant |-> x.tenant, vip |-> x.vip]
      BY <3>1, <3>3, <1>1
    <3>5. x = y
      BY <3>1, <3>3, <3>4 DEF Records
    <3> QED BY <3>5
  <2> QED BY <2>1, <2>2
<1>8. f = FileOf(e, f.retired, f.cursor)
  BY <1>7 DEF FileOf, Files
<1> QED BY <1>4, <1>5, <1>6, <1>8 DEF e, o

-----------------------------------------------------------------------------
\* A VIP the scan returns was given to nobody.
LEMMA NextVIPUngranted ==
  ASSUME TypeOK, Remembers(FileOf(entries, retired, cursor)),
         Inverse(entries, owner, retired), NEW v \in NextVIP
  PROVE  v \in VIPs /\ v \notin retired /\ owner[v] = None
         /\ \A g \in grants : g.vip # v
<1>1. v \in VIPs /\ v \notin retired /\ owner[v] = None
  BY DEF NextVIP, Free
<1>2. ASSUME NEW g \in grants, g.vip = v PROVE FALSE
  <2>1. g \in Records /\ entries \in EntryMaps
    BY DEF TypeOK, EntryMaps
  <2>2. g \in FileOf(entries, retired, cursor).entries
    BY <1>1, <1>2 DEF Remembers, FileOf
  <2>3. entries[g.device] = [tenant |-> g.tenant, vip |-> g.vip]
    BY <2>1, <2>2, FileOfMember
  <2>4. entries[g.device] # None /\ entries[g.device].vip = v
    BY <1>2, <2>1, <2>3, NoneAssumption DEF Records, VIPs
  <2>5. owner[v] = g.device
    BY <1>1, <2>1, <2>4 DEF Inverse, Records
  <2> QED BY <1>1, <2>1, <2>5, NoneAssumption DEF Records
<1> QED BY <1>1, <1>2

\* Taking a free VIP for a device, its old pin retired, keeps the maps
\* inverse.
LEMMA PinKeepsInverse ==
  ASSUME NEW e \in EntryMaps, NEW o \in OwnerMaps, NEW r \in SUBSET VIPs,
         Inverse(e, o, r),
         NEW d \in Devices, NEW t \in Tenants, NEW v \in VIPs,
         o[v] = None, v \notin r
  PROVE  LET e1 == [e EXCEPT ![d] = [tenant |-> t, vip |-> v]]
             o1 == [Released(o, e[d]) EXCEPT ![v] = d]
             r1 == WithRetired(r, e[d])
         IN /\ e1 \in EntryMaps /\ o1 \in OwnerMaps /\ r1 \in SUBSET VIPs
            /\ Inverse(e1, o1, r1)
<1> DEFINE pin == [tenant |-> t, vip |-> v]
           e1 == [e EXCEPT ![d] = pin]
           o1 == [Released(o, e[d]) EXCEPT ![v] = d]
           r1 == WithRetired(r, e[d])
<1>1. pin \in Pins /\ pin # None /\ pin.vip = v
  BY NoneAssumption DEF Pins, VIPs
<1>2. e[d] # None => e[d] \in Pins /\ e[d].vip \in VIPs /\ o[e[d].vip] = d
                     /\ e[d].vip # v
  BY NoneAssumption DEF EntryMaps, Pins, Inverse
<1>3. e1 \in EntryMaps
  BY <1>1 DEF EntryMaps
<1>4. Released(o, e[d]) \in OwnerMaps
  BY <1>2 DEF Released, OwnerMaps
<1>5. o1 \in OwnerMaps
  BY <1>4 DEF OwnerMaps
<1>6. r1 \in SUBSET VIPs
  BY <1>2 DEF WithRetired
<1>7. \A w \in VIPs : o1[w] = IF w = v THEN d
                              ELSE IF e[d] # None /\ w = e[d].vip THEN None
                              ELSE o[w]
  BY <1>2, <1>4 DEF OwnerMaps, Released
<1>8. \A x \in Devices : e1[x] = IF x = d THEN pin ELSE e[x]
  BY DEF EntryMaps
<1> HIDE DEF e1, o1, pin
<1>9. ASSUME NEW w \in VIPs, NEW x \in Devices
      PROVE  o1[w] = x <=> (e1[x] # None /\ e1[x].vip = w)
  <2>1. CASE w = v
    <3>1. o1[w] = d
      BY <2>1, <1>7
    <3>2. x = d => e1[x] # None /\ e1[x].vip = w
      BY <2>1, <1>1, <1>8
    <3>3. x # d => ~(e1[x] # None /\ e1[x].vip = w)
      BY <2>1, <1>8, NoneAssumption DEF Inverse
    <3> QED BY <3>1, <3>2, <3>3
  <2>2. CASE w # v /\ x = d
    <3>1. e1[x] = pin /\ e1[x].vip # w
      BY <2>2, <1>1, <1>8
    <3>2. o[w] = x => e[d] # None /\ w = e[d].vip
      BY <2>2 DEF Inverse
    <3>3. o1[w] # x
      BY <2>2, <3>2, <1>7, NoneAssumption
    <3> QED BY <3>1, <3>3
  <2>3. CASE w # v /\ x # d
    <3>1. e1[x] = e[x]
      BY <2>3, <1>8
    <3>2. o1[w] = x <=> o[w] = x
      BY <2>3, <1>2, <1>7, NoneAssumption
    <3> QED BY <3>1, <3>2 DEF Inverse
  <2> QED BY <2>1, <2>2, <2>3
<1>10. ASSUME NEW w \in r1 PROVE o1[w] = None
  <2>1. w \in VIPs
    BY <1>6
  <2>2. CASE w \in r
    BY <2>1, <2>2, <1>7 DEF Inverse
  <2>3. CASE w \notin r
    <3>1. e[d] # None /\ w = e[d].vip
      BY <2>3, <1>10 DEF WithRetired
    <3> QED BY <2>1, <3>1, <1>2, <1>7
  <2> QED BY <2>2, <2>3
<1>11. Inverse(e1, o1, r1)
  BY <1>9, <1>10 DEF Inverse
<1> QED BY <1>3, <1>5, <1>6, <1>11 DEF e1, o1, pin

\* Retiring every pin outside a tenant keeps the maps inverse.
LEMMA DropKeepsInverse ==
  ASSUME TypeOK, Inverse(entries, owner, retired), NEW t \in Tenants
  PROVE  LET vips == {entries[d].vip : d \in Outside(t)}
             e1 == [d \in Devices |->
                      IF d \in Outside(t) THEN None ELSE entries[d]]
             o1 == [v \in VIPs |-> IF v \in vips THEN None ELSE owner[v]]
             r1 == retired \cup vips
         IN /\ e1 \in EntryMaps /\ o1 \in OwnerMaps /\ r1 \in SUBSET VIPs
            /\ Inverse(e1, o1, r1)
<1> DEFINE vips == {entries[d].vip : d \in Outside(t)}
           e1 == [d \in Devices |-> IF d \in Outside(t) THEN None ELSE entries[d]]
           o1 == [v \in VIPs |-> IF v \in vips THEN None ELSE owner[v]]
           r1 == retired \cup vips
<1>1. \A d \in Outside(t) : d \in Devices /\ entries[d] # None
                            /\ entries[d].vip \in VIPs
                            /\ owner[entries[d].vip] = d
  <2> SUFFICES ASSUME NEW d \in Outside(t)
               PROVE  d \in Devices /\ entries[d] # None
                      /\ entries[d].vip \in VIPs /\ owner[entries[d].vip] = d
    OBVIOUS
  <2>1. d \in Devices /\ entries[d] # None
    BY DEF Outside
  <2>2. entries[d] \in Pins
    BY <2>1 DEF TypeOK
  <2>3. entries[d].vip \in VIPs
    BY <2>2 DEF Pins
  <2> QED BY <2>1, <2>3 DEF Inverse
<1>2. e1 \in EntryMaps /\ o1 \in OwnerMaps /\ r1 \in SUBSET VIPs
  BY <1>1 DEF EntryMaps, OwnerMaps, TypeOK
<1>3. ASSUME NEW v \in VIPs, NEW d \in Devices, o1[v] = d
      PROVE  e1[d] # None /\ e1[d].vip = v
  <2>1. v \notin vips /\ owner[v] = d
    BY <1>3, NoneAssumption
  <2>2. entries[d] # None /\ entries[d].vip = v
    BY <2>1 DEF Inverse
  <2>3. d \notin Outside(t)
    BY <2>1, <2>2
  <2> QED BY <2>2, <2>3
<1>4. ASSUME NEW v \in VIPs, NEW d \in Devices, e1[d] # None, e1[d].vip = v
      PROVE  o1[v] = d
  <2>1. d \notin Outside(t) /\ entries[d] # None /\ entries[d].vip = v
    BY <1>4
  <2>2. owner[v] = d
    BY <2>1 DEF Inverse
  <2>3. v \notin vips
    BY <2>1, <2>2, <1>1
  <2> QED BY <2>2, <2>3
<1>5. ASSUME NEW v \in r1 PROVE o1[v] = None
  <2>1. v \in VIPs
    BY <1>2
  <2> QED BY <2>1, <1>5 DEF Inverse
<1>6. Inverse(e1, o1, r1)
  BY <1>3, <1>4, <1>5 DEF Inverse
<1> QED BY <1>2, <1>6

\* A step from one file to the next that drops a record only by retiring its
\* VIP forgets no grant.
Keeps(f, g) ==
  /\ f.retired \subseteq g.retired
  /\ \A x \in f.entries : x \in g.entries \/ x.vip \in g.retired

LEMMA PinKeepsRecords ==
  ASSUME NEW e \in EntryMaps, NEW r, NEW c, NEW c1,
         NEW d \in Devices, NEW t \in Tenants, NEW v \in VIPs
  PROVE  Keeps(FileOf(e, r, c),
               FileOf([e EXCEPT ![d] = [tenant |-> t, vip |-> v]],
                      WithRetired(r, e[d]), c1))
<1> DEFINE e1 == [e EXCEPT ![d] = [tenant |-> t, vip |-> v]]
           r1 == WithRetired(r, e[d])
           f  == FileOf(e, r, c)
           f1 == FileOf(e1, r1, c1)
<1>1. f.retired = r /\ f1.retired = r1 /\ r \subseteq r1
  BY DEF FileOf, WithRetired
<1>2. e1 \in EntryMaps
  BY DEF EntryMaps, Pins
<1>3. ASSUME NEW x \in f.entries PROVE x \in f1.entries \/ x.vip \in r1
  <2>1. x \in Records /\ e[x.device] = [tenant |-> x.tenant, vip |-> x.vip]
    BY FileOfMember
  <2>2. CASE x.device = d
    <3>1. e[d] # None /\ e[d].vip = x.vip
      BY <2>1, <2>2, NoneAssumption DEF Records, VIPs
    <3> QED BY <3>1 DEF WithRetired
  <2>3. CASE x.device # d
    <3>1. e1[x.device] = e[x.device]
      BY <2>1, <2>3 DEF EntryMaps, Records
    <3> QED BY <2>1, <3>1, <1>2, FileOfMember
  <2> QED BY <2>2, <2>3
<1> QED BY <1>1, <1>3 DEF Keeps

LEMMA DropKeepsRecords ==
  ASSUME TypeOK, NEW t \in Tenants
  PROVE  LET vips == {entries[d].vip : d \in Outside(t)}
             e1 == [d \in Devices |->
                      IF d \in Outside(t) THEN None ELSE entries[d]]
         IN Keeps(FileOf(entries, retired, cursor),
                  FileOf(e1, retired \cup vips, cursor))
<1> DEFINE vips == {entries[d].vip : d \in Outside(t)}
           e1 == [d \in Devices |-> IF d \in Outside(t) THEN None ELSE entries[d]]
           f  == FileOf(entries, retired, cursor)
           f1 == FileOf(e1, retired \cup vips, cursor)
<1>1. f.retired = retired /\ f1.retired = retired \cup vips
  BY DEF FileOf
<1>2. entries \in EntryMaps /\ e1 \in EntryMaps
  BY DEF EntryMaps, TypeOK
<1>3. ASSUME NEW x \in f.entries
      PROVE  x \in f1.entries \/ x.vip \in retired \cup vips
  <2>1. x \in Records /\ entries[x.device] = [tenant |-> x.tenant, vip |-> x.vip]
    BY <1>2, FileOfMember
  <2>2. CASE x.device \in Outside(t)
    <3>1. entries[x.device].vip = x.vip
      BY <2>1
    <3> QED BY <2>2, <3>1
  <2>3. CASE x.device \notin Outside(t)
    <3>1. e1[x.device] = entries[x.device]
      BY <2>1, <2>3 DEF Records
    <3> QED BY <2>1, <3>1, <1>2, FileOfMember
  <2> QED BY <2>2, <2>3
<1> QED BY <1>1, <1>3 DEF Keeps

LEMMA KeepsFileInv ==
  ASSUME NEW f, NEW g, FileInv(f), Keeps(f, g), Valid(g)
  PROVE  /\ Remembers(g)
         /\ \A v \in VIPs : v < f.cursor =>
              v \in g.retired \/ \E r \in g.entries : r.vip = v
<1>1. Remembers(g)
  BY DEF FileInv, Keeps, Remembers
<1>2. ASSUME NEW v \in VIPs, v < f.cursor
      PROVE  v \in g.retired \/ \E r \in g.entries : r.vip = v
  <2>1. v \in f.retired \/ \E r \in f.entries : r.vip = v
    BY <1>2 DEF FileInv, NoGap
  <2> QED BY <2>1 DEF Keeps
<1> QED BY <1>1, <1>2

-----------------------------------------------------------------------------
\* The state a usable table and its two files are in, unfolded once.
LEMMA UsableFacts ==
  ASSUME IInv, Usable
  PROVE  /\ entries \in EntryMaps /\ owner \in OwnerMaps
         /\ retired \in SUBSET VIPs /\ cursor \in 1..(Capacity + 1)
         /\ Inverse(entries, owner, retired)
         /\ FileInv(FileOf(entries, retired, cursor))
         /\ vis = FileOf(entries, retired, cursor)
         /\ disk = FileOf(entries, retired, cursor)
BY DEF IInv, TypeOK, EntryMaps, OwnerMaps

\* What the scan passes over is held or retired in the new file too.
LEMMA ScanLeavesNoGap ==
  ASSUME IInv, Usable, NEW d \in Devices, NEW t \in Tenants, NEW v \in NextVIP
  PROVE  LET f1 == FileOf([entries EXCEPT ![d] = [tenant |-> t, vip |-> v]],
                          WithRetired(retired, entries[d]), v + 1)
         IN NoGap(f1)
<1> DEFINE e1 == [entries EXCEPT ![d] = [tenant |-> t, vip |-> v]]
           f0 == FileOf(entries, retired, cursor)
           f1 == FileOf(e1, WithRetired(retired, entries[d]), v + 1)
<1>0. f0.cursor = cursor /\ f1.cursor = v + 1 /\ f0.retired = retired
  BY DEF FileOf
<1>1. v \in VIPs
  BY DEF NextVIP
<1>2. Keeps(f0, f1)
  BY <1>1, UsableFacts, PinKeepsRecords
<1>3. e1 \in EntryMaps
  BY <1>1, UsableFacts DEF EntryMaps, Pins
<1> SUFFICES ASSUME NEW w \in VIPs, w < v + 1
             PROVE  w \in f1.retired \/ \E r \in f1.entries : r.vip = w
  BY <1>0 DEF NoGap
<1>4. CASE w = v
  <2> DEFINE x == [device |-> d, tenant |-> t, vip |-> v]
  <2>1. x \in Records /\ e1[x.device] = [tenant |-> x.tenant, vip |-> x.vip]
    BY <1>1, UsableFacts DEF Records, EntryMaps
  <2>2. x \in f1.entries
    BY <2>1, <1>3, FileOfMember
  <2> QED BY <2>2, <1>4
<1>5. CASE w # v /\ w < cursor
  <2>1. w \in f0.retired \/ \E r \in f0.entries : r.vip = w
    BY <1>5, <1>0, UsableFacts DEF FileInv, NoGap
  <2> QED BY <2>1, <1>2 DEF Keeps
<1>6. CASE w # v /\ ~(w < cursor)
  <2>1. w < v /\ cursor <= w
    BY <1>1, <1>6, UsableFacts, CapacityAssumption DEF VIPs
  <2>2. ~Free(w)
    BY <2>1 DEF NextVIP
  <2>3. CASE w \in retired
    BY <2>3, <1>0, <1>2 DEF Keeps
  <2>4. CASE owner[w] # None
    <3>1. PICK y \in Devices : owner[w] = y
      BY <2>4, UsableFacts DEF OwnerMaps
    <3>2. entries[y] # None /\ entries[y].vip = w
      BY <3>1, UsableFacts DEF Inverse
    <3>3. entries[y] \in Pins
      BY <3>1, <3>2, UsableFacts DEF EntryMaps
    <3>4. Record(y, entries[y]) \in f0.entries
      BY <3>1, <3>2 DEF FileOf
    <3>5. Record(y, entries[y]).vip = w
      BY <3>2 DEF Record
    <3> QED BY <3>4, <3>5, <1>2 DEF Keeps
  <2> QED BY <2>2, <2>3, <2>4 DEF Free
<1> QED BY <1>4, <1>5, <1>6

\* The file a new pin writes is as good as the one it replaces.
LEMMA PinFileInv ==
  ASSUME IInv, Usable, NEW d \in Devices, NEW t \in Tenants, NEW v \in NextVIP
  PROVE  LET f1 == FileOf([entries EXCEPT ![d] = [tenant |-> t, vip |-> v]],
                          WithRetired(retired, entries[d]), v + 1)
         IN f1 \in Files /\ FileInv(f1)
<1> DEFINE e1 == [entries EXCEPT ![d] = [tenant |-> t, vip |-> v]]
           o1 == [Released(owner, entries[d]) EXCEPT ![v] = d]
           r1 == WithRetired(retired, entries[d])
           f0 == FileOf(entries, retired, cursor)
           f1 == FileOf(e1, r1, v + 1)
<1>1. v \in VIPs /\ owner[v] = None /\ v \notin retired
  BY DEF NextVIP, Free
<1>2. v + 1 \in 1..(Capacity + 1)
  BY <1>1, CapacityAssumption DEF VIPs
<1>3. /\ e1 \in EntryMaps /\ o1 \in OwnerMaps /\ r1 \in SUBSET VIPs
      /\ Inverse(e1, o1, r1)
  BY <1>1, UsableFacts, PinKeepsInverse
<1>4. Valid(f1)
  BY <1>2, <1>3, FileOfValid
<1>5. f1 \in Files
  BY <1>2, <1>3, FileOfType
<1>6. Keeps(f0, f1)
  BY <1>1, UsableFacts, PinKeepsRecords
<1>7. Remembers(f1)
  BY <1>4, <1>6, UsableFacts, KeepsFileInv
<1>8. NoGap(f1)
  BY ScanLeavesNoGap
<1> QED BY <1>4, <1>5, <1>7, <1>8 DEF FileInv

\* ... and so is the file a retirement writes.
LEMMA DropFileInv ==
  ASSUME IInv, Usable, NEW t \in Tenants
  PROVE  LET vips == {entries[d].vip : d \in Outside(t)}
             e1 == [d \in Devices |->
                      IF d \in Outside(t) THEN None ELSE entries[d]]
             f1 == FileOf(e1, retired \cup vips, cursor)
         IN f1 \in Files /\ FileInv(f1)
<1> DEFINE vips == {entries[d].vip : d \in Outside(t)}
           e1 == [d \in Devices |-> IF d \in Outside(t) THEN None ELSE entries[d]]
           o1 == [v \in VIPs |-> IF v \in vips THEN None ELSE owner[v]]
           r1 == retired \cup vips
           f0 == FileOf(entries, retired, cursor)
           f1 == FileOf(e1, r1, cursor)
<1>0. TypeOK /\ cursor \in 1..(Capacity + 1)
      /\ f0.cursor = cursor /\ f1.cursor = cursor
  BY DEF IInv, TypeOK, FileOf
<1>1. /\ e1 \in EntryMaps /\ o1 \in OwnerMaps /\ r1 \in SUBSET VIPs
      /\ Inverse(e1, o1, r1)
  BY <1>0, UsableFacts, DropKeepsInverse
<1>2. Valid(f1)
  BY <1>0, <1>1, FileOfValid
<1>3. f1 \in Files
  BY <1>0, <1>1, FileOfType
<1>4. Keeps(f0, f1)
  BY <1>0, DropKeepsRecords
<1>5. /\ Remembers(f1)
      /\ \A v \in VIPs : v < f0.cursor =>
           v \in f1.retired \/ \E r \in f1.entries : r.vip = v
  BY <1>2, <1>4, UsableFacts, KeepsFileInv
<1>6. NoGap(f1)
  BY <1>0, <1>5 DEF NoGap
<1> QED BY <1>2, <1>3, <1>5, <1>6 DEF FileInv

-----------------------------------------------------------------------------
\* The fresh table satisfies the invariant.
LEMMA InitIInv == Init => IInv
<1> SUFFICES ASSUME Init PROVE IInv
  OBVIOUS
<1>1. FreshFile \in Files /\ Valid(FreshFile)
  BY CapacityAssumption DEF FreshFile, Files, Valid
<1>2. LoadedEntries(FreshFile) \in EntryMaps /\ LoadedOwner(FreshFile) \in OwnerMaps
  BY <1>1, LoadedIsInverse
<1>3. TypeOK
  BY <1>1, <1>2, CapacityAssumption
     DEF Init, TypeOK, EntryMaps, OwnerMaps, FreshFile, Files
<1>4. FileInv(vis) /\ FileInv(disk)
  BY <1>1 DEF Init, FileInv, Remembers, NoGap, FreshFile, VIPs
<1>5. NeverShared /\ ~Usable
  BY DEF Init, NeverShared, Usable
<1> QED BY <1>3, <1>4, <1>5 DEF IInv

LEMMA HitStep ==
  ASSUME IInv, NEW d \in Devices, NEW t \in Tenants, AllocateHit(d, t)
  PROVE  IInv'
<1> DEFINE x == Record(d, entries[d])
           f0 == FileOf(entries, retired, cursor)
<1>0. Usable /\ grants' = grants \cup {x} /\ entries[d] # None
      /\ UNCHANGED <<open, poisoned, memory, vis, disk>>
  BY DEF AllocateHit
<1>1. x \in f0.entries
  BY <1>0 DEF FileOf
<1>2. x \in Records
  BY <1>1, <1>0, UsableFacts, FileOfMember
<1>3. TypeOK'
  BY <1>0, <1>2 DEF IInv, TypeOK, memory
<1>4. NeverShared'
  <2>1. ASSUME NEW g \in grants, g.vip = x.vip PROVE g = x
    <3>1. Valid(f0) /\ Remembers(f0)
      BY <1>0, UsableFacts DEF FileInv
    <3>2. x.vip \notin f0.retired
      BY <1>1, <3>1 DEF Valid
    <3>3. g \in f0.entries
      BY <2>1, <3>1, <3>2 DEF Remembers
    <3> QED BY <2>1, <1>1, <3>1, <3>3 DEF Valid
  <2>2. \A g, h \in grants : g.vip = h.vip => g = h
    BY DEF IInv, NeverShared
  <2> QED BY <1>0, <2>1, <2>2 DEF NeverShared
<1>5. FileInv(vis)' /\ FileInv(disk)'
  <2>1. vis' = f0 /\ disk' = f0 /\ FileInv(f0)
    BY <1>0, UsableFacts
  <2>2. \A g \in grants' : g \in f0.entries \/ g.vip \in f0.retired
    BY <1>0, <1>1, <2>1 DEF FileInv, Remembers
  <2> QED BY <2>1, <2>2 DEF FileInv, Remembers, NoGap, Valid
<1>6. (Usable => /\ Inverse(entries, owner, retired)
                 /\ vis = FileOf(entries, retired, cursor)
                 /\ disk = vis)'
  BY <1>0 DEF IInv, Usable, Inverse, FileOf, memory
<1> QED BY <1>3, <1>4, <1>5, <1>6 DEF IInv

LEMMA MissStep ==
  ASSUME IInv, NEW d \in Devices, NEW t \in Tenants, NEW v \in VIPs,
         NEW outcome \in PersistOutcomes, AllocateMiss(d, t, v, outcome)
  PROVE  IInv'
<1> DEFINE prev == entries[d]
           e1 == [entries EXCEPT ![d] = [tenant |-> t, vip |-> v]]
           o1 == [Released(owner, prev) EXCEPT ![v] = d]
           r1 == WithRetired(retired, prev)
           f0 == FileOf(entries, retired, cursor)
           f1 == FileOf(e1, r1, v + 1)
           x  == [device |-> d, tenant |-> t, vip |-> v]
<1>0. Usable /\ v \in NextVIP /\ open' = open
      /\ Persist(outcome, f1) /\ poisoned' = (PersistError(outcome) = "poison")
  BY DEF AllocateMiss
<1>1. /\ entries \in EntryMaps /\ owner \in OwnerMaps
      /\ retired \in SUBSET VIPs /\ cursor \in 1..(Capacity + 1)
      /\ Inverse(entries, owner, retired) /\ FileInv(f0)
      /\ vis = f0 /\ disk = f0
  BY <1>0, UsableFacts
<1>2. f1 \in Files /\ FileInv(f1)
  BY <1>0, PinFileInv
<1>3. owner[v] = None /\ v \notin retired /\ \A g \in grants : g.vip # v
  BY <1>0, <1>1, NextVIPUngranted DEF IInv, FileInv
<1>4. /\ e1 \in EntryMaps /\ o1 \in OwnerMaps /\ r1 \in SUBSET VIPs
      /\ Inverse(e1, o1, r1)
  BY <1>1, <1>3, PinKeepsInverse
<1>5. v + 1 \in 1..(Capacity + 1) /\ x \in Records
  BY CapacityAssumption DEF VIPs, Records
<1>6. TypeOK /\ NeverShared /\ vis \in Files /\ disk \in Files
  BY DEF IInv, TypeOK
<1>7. CASE outcome = "ok"
  <2>1. /\ entries' = e1 /\ owner' = o1 /\ retired' = r1 /\ cursor' = v + 1
        /\ vis' = f1 /\ disk' = f1 /\ grants' = grants \cup {x}
        /\ poisoned' = FALSE
    BY <1>0, <1>7 DEF AllocateMiss, Persist, PersistError
  <2>2. TypeOK'
    BY <2>1, <1>0, <1>2, <1>4, <1>5, <1>6 DEF TypeOK, EntryMaps, OwnerMaps
  <2>3. NeverShared'
    BY <2>1, <1>3, <1>6 DEF NeverShared
  <2>4. x \in f1.entries
    <3>1. e1[x.device] = [tenant |-> x.tenant, vip |-> x.vip]
      BY <1>1 DEF EntryMaps
    <3> QED BY <3>1, <1>4, <1>5, FileOfMember
  <2>5. \A g \in grants' : g \in f1.entries \/ g.vip \in f1.retired
    BY <2>1, <2>4, <1>2 DEF FileInv, Remembers
  <2>6. FileInv(vis)' /\ FileInv(disk)'
    BY <2>1, <2>5, <1>2 DEF FileInv, Remembers, NoGap, Valid
  <2> HIDE DEF e1, o1, r1
  <2>7. (Usable => /\ Inverse(entries, owner, retired)
                   /\ vis = FileOf(entries, retired, cursor)
                   /\ disk = vis)'
    BY <2>1, <1>4 DEF Inverse, FileOf
  <2> QED BY <2>2, <2>3, <2>6, <2>7 DEF IInv
<1>8. CASE outcome = "before"
  <2>1. /\ entries' = [e1 EXCEPT ![d] = prev]
        /\ owner' = UndoOwner(o1, v, d, prev)
        /\ retired' = UndoRetired(r1, prev)
        /\ cursor' = cursor
        /\ vis' = vis /\ disk' = disk /\ grants' = grants
        /\ poisoned' = FALSE
    BY <1>0, <1>8 DEF AllocateMiss, Persist, PersistError, UndoCursor
  <2>2. entries' = entries
    BY <2>1, <1>1 DEF EntryMaps
  <2>3. prev # None => prev.vip \in VIPs /\ owner[prev.vip] = d /\ prev.vip # v
                       /\ prev.vip \notin retired
    BY <1>1, <1>3, NoneAssumption DEF Inverse, EntryMaps, Pins
  <2>4. retired' = retired
    BY <2>1, <2>3 DEF UndoRetired, WithRetired
  <2>5. owner' = owner
    <3>1. CASE prev = None
      BY <3>1, <2>1, <1>1, <1>3 DEF UndoOwner, Released, OwnerMaps
    <3>2. CASE prev # None
      BY <3>2, <2>1, <2>3, <1>1, <1>3 DEF UndoOwner, Released, OwnerMaps
    <3> QED BY <3>1, <3>2
  <2>6. UNCHANGED vars
    <3>1. poisoned = FALSE
      BY <1>0, <1>6 DEF Usable, TypeOK
    <3> QED BY <3>1, <1>0, <2>1, <2>2, <2>4, <2>5 DEF vars, memory
  <2> QED BY <2>6 DEF IInv, vars, memory, TypeOK, NeverShared, FileInv,
             Remembers, NoGap, Valid, Usable, Inverse, FileOf
<1>9. CASE outcome = "after"
  <2>1. /\ entries' = e1 /\ owner' = o1 /\ retired' = r1 /\ cursor' = v + 1
        /\ vis' = f1 /\ disk' = disk /\ grants' = grants /\ poisoned' = TRUE
    BY <1>0, <1>9 DEF AllocateMiss, Persist, PersistError
  <2>2. TypeOK'
    BY <2>1, <1>0, <1>2, <1>4, <1>5, <1>6 DEF TypeOK, EntryMaps, OwnerMaps
  <2>3. NeverShared'
    BY <2>1, <1>6 DEF NeverShared
  <2>4. FileInv(vis)' /\ FileInv(disk)'
    BY <2>1, <1>1, <1>2 DEF FileInv, Remembers, NoGap, Valid
  <2> QED BY <2>1, <2>2, <2>3, <2>4 DEF IInv, Usable
<1> QED BY <1>7, <1>8, <1>9 DEF PersistOutcomes

LEMMA RetireStep ==
  ASSUME IInv, NEW t \in Tenants, NEW outcome \in PersistOutcomes,
         RetireTenant(t, outcome)
  PROVE  IInv'
<1> DEFINE vips == {entries[d].vip : d \in Outside(t)}
           e1 == [d \in Devices |-> IF d \in Outside(t) THEN None ELSE entries[d]]
           o1 == [v \in VIPs |-> IF v \in vips THEN None ELSE owner[v]]
           r1 == retired \cup vips
           f1 == FileOf(e1, r1, cursor)
<1>0. /\ Usable /\ Persist(outcome, f1)
      /\ entries' = e1 /\ owner' = o1 /\ retired' = r1 /\ cursor' = cursor
      /\ poisoned' = (PersistError(outcome) # "nil")
      /\ open' = open /\ grants' = grants
  BY DEF RetireTenant
<1>1. TypeOK /\ NeverShared /\ FileInv(vis) /\ FileInv(disk)
      /\ Inverse(entries, owner, retired)
  BY <1>0 DEF IInv
<1>2. f1 \in Files /\ FileInv(f1)
  BY <1>0, DropFileInv
<1>3. /\ e1 \in EntryMaps /\ o1 \in OwnerMaps /\ r1 \in SUBSET VIPs
      /\ Inverse(e1, o1, r1)
  BY <1>1, DropKeepsInverse
<1> HIDE DEF e1, o1, r1
<1>4. /\ vis' \in {vis, f1} /\ disk' \in {disk, f1}
      /\ ~poisoned' => vis' = f1 /\ disk' = f1
  BY <1>0 DEF Persist, PersistError, PersistOutcomes
<1>5. TypeOK'
  BY <1>0, <1>1, <1>2, <1>3, <1>4 DEF TypeOK, EntryMaps, OwnerMaps
<1>6. NeverShared'
  BY <1>0, <1>1 DEF NeverShared
<1>7. FileInv(vis)' /\ FileInv(disk)'
  BY <1>0, <1>1, <1>2, <1>4 DEF FileInv, Remembers, NoGap, Valid
<1>8. (Usable => /\ Inverse(entries, owner, retired)
                 /\ vis = FileOf(entries, retired, cursor)
                 /\ disk = vis)'
  <2>1. Inverse(entries, owner, retired)'
    BY <1>0, <1>3 DEF Inverse
  <2>2. Usable' => vis' = f1 /\ disk' = f1
    BY <1>4 DEF Usable
  <2>3. FileOf(entries, retired, cursor)' = f1
    BY <1>0 DEF FileOf
  <2> QED BY <2>1, <2>2, <2>3
<1> QED BY <1>5, <1>6, <1>7, <1>8 DEF IInv

LEMMA OpenStep ==
  ASSUME IInv, Open
  PROVE  IInv'
<1>1. /\ entries' = LoadedEntries(vis) /\ owner' = LoadedOwner(vis)
      /\ retired' = vis.retired /\ cursor' = vis.cursor
      /\ disk' = vis /\ vis' = vis /\ grants' = grants
      /\ open' = TRUE /\ poisoned' = FALSE
  BY DEF Open
<1>2. vis \in Files /\ FileInv(vis) /\ NeverShared /\ grants \in SUBSET Records
  BY DEF IInv, TypeOK
<1>3. /\ LoadedEntries(vis) \in EntryMaps /\ LoadedOwner(vis) \in OwnerMaps
      /\ Inverse(LoadedEntries(vis), LoadedOwner(vis), vis.retired)
      /\ vis = FileOf(LoadedEntries(vis), vis.retired, vis.cursor)
  BY <1>2, LoadedIsInverse DEF FileInv
<1>4. TypeOK'
  BY <1>1, <1>2, <1>3 DEF TypeOK, EntryMaps, OwnerMaps, Files
<1>5. NeverShared' /\ FileInv(vis)' /\ FileInv(disk)'
  BY <1>1, <1>2 DEF NeverShared, FileInv, Remembers, NoGap, Valid
<1>6. (Inverse(entries, owner, retired)
       /\ vis = FileOf(entries, retired, cursor) /\ disk = vis)'
  BY <1>1, <1>3 DEF Inverse, FileOf
<1> QED BY <1>4, <1>5, <1>6 DEF IInv

LEMMA LossStep ==
  ASSUME IInv, PowerLoss \/ Close
  PROVE  IInv'
<1>1. /\ open' = FALSE /\ vis' \in {vis, disk} /\ disk' \in {vis, disk}
      /\ UNCHANGED <<poisoned, memory, grants>>
  BY DEF PowerLoss, Close
<1>2. TypeOK'
  BY <1>1 DEF IInv, TypeOK, memory
<1>3. NeverShared' /\ FileInv(vis)' /\ FileInv(disk)'
  BY <1>1 DEF IInv, NeverShared, FileInv, Remembers, NoGap, Valid
<1> QED BY <1>1, <1>2, <1>3 DEF IInv, Usable

\* Every step of the table keeps the invariant.
LEMMA NextIInv == IInv /\ [Next]_vars => IInv'
<1> SUFFICES ASSUME IInv, [Next]_vars PROVE IInv'
  OBVIOUS
<1>1. CASE UNCHANGED vars
  BY <1>1 DEF IInv, vars, memory, TypeOK, NeverShared, FileInv,
     Remembers, NoGap, Valid, Usable, Inverse, FileOf
<1>2. ASSUME NEW d \in Devices, NEW t \in Tenants, Allocate(d, t) \/ Lookup(d, t)
      PROVE  IInv'
  <2>1. CASE AllocateHit(d, t)
    BY <2>1, HitStep
  <2>2. ASSUME NEW v \in VIPs, NEW outcome \in PersistOutcomes,
               AllocateMiss(d, t, v, outcome)
        PROVE  IInv'
    BY <2>2, MissStep
  <2> QED BY <1>2, <2>1, <2>2 DEF Allocate, Lookup
<1>3. ASSUME NEW t \in Tenants, NEW outcome \in PersistOutcomes,
             RetireTenant(t, outcome)
      PROVE  IInv'
  BY <1>3, RetireStep
<1>4. CASE Open
  BY <1>4, OpenStep
<1>5. CASE Close \/ PowerLoss
  BY <1>5, LossStep
<1> QED BY <1>1, <1>2, <1>3, <1>4, <1>5 DEF Next

\* The invariant holds in every reachable state, whatever fails and whenever
\* power is lost.
THEOREM TableInvariant == Spec => []IInv
BY InitIInv, NextIInv, PTL DEF Spec

\* Every variable of the table keeps its type.
THEOREM TypeCorrect == Spec => []TypeOK
<1>1. IInv => TypeOK
  BY DEF IInv
<1> QED BY <1>1, TableInvariant, PTL

\* One VIP is only ever given to one principal (VIPTable's contract), for any
\* number of devices, tenants and addresses.
THEOREM VIPsNeverShared == Spec => []NeverShared
<1>1. IInv => NeverShared
  BY DEF IInv
<1> QED BY <1>1, TableInvariant, PTL

\* A VIP a caller was given is on the durable file, pinned to the same
\* principal or retired (Allocate, persist).
THEOREM GrantsAreDurable == Spec => []GrantsDurable
<1>1. IInv => GrantsDurable
  BY DEF IInv, FileInv, Remembers, GrantsDurable
<1> QED BY <1>1, TableInvariant, PTL

\* load accepts every file the table leaves behind (persist, load).
THEOREM FilesAlwaysLoad == Spec => []FileLoads
<1>1. IInv => FileLoads
  BY DEF IInv, FileInv, FileLoads
<1> QED BY <1>1, TableInvariant, PTL

\* A usable table agrees with its file (persist and its rollbacks).
THEOREM MemoryAgrees == Spec => []MemoryIsDurable
<1>1. IInv => MemoryIsDurable
  BY DEF IInv, MemoryIsDurable
<1> QED BY <1>1, TableInvariant, PTL

\* A usable table's reverse map is the inverse of its entries (Device).
THEOREM OwnersAreInverse == Spec => []OwnerIsInverse
<1>1. IInv => OwnerIsInverse
  BY DEF IInv, OwnerIsInverse, Inverse
<1> QED BY <1>1, TableInvariant, PTL

\* Nothing the scan has passed is free, so ErrExhausted is truthful.
THEOREM NoGapBehindCursor == Spec => []NothingFreeBehindCursor
<1>1. ASSUME IInv, Usable, NEW v \in VIPs, v < cursor
      PROVE  ~Free(v)
  <2> DEFINE f0 == FileOf(entries, retired, cursor)
  <2>1. f0.cursor = cursor /\ f0.retired = retired
    BY DEF FileOf
  <2>2. v \in retired \/ \E r \in f0.entries : r.vip = v
    BY <1>1, <2>1, UsableFacts DEF FileInv, NoGap
  <2>3. CASE v \in retired
    BY <2>3 DEF Free
  <2>4. ASSUME NEW r \in f0.entries, r.vip = v PROVE owner[v] # None
    <3>1. r \in Records /\ entries[r.device] = [tenant |-> r.tenant, vip |-> r.vip]
      BY <1>1, UsableFacts, FileOfMember
    <3>2. r.device \in Devices /\ entries[r.device] # None
          /\ entries[r.device].vip = v
      BY <2>4, <3>1, NoneAssumption DEF Records, VIPs
    <3>3. owner[v] = r.device
      BY <1>1, <3>2, UsableFacts DEF Inverse
    <3> QED BY <3>2, <3>3, NoneAssumption
  <2> QED BY <2>2, <2>3, <2>4 DEF Free
<1>2. IInv => NothingFreeBehindCursor
  BY <1>1 DEF NothingFreeBehindCursor
<1> QED BY <1>2, TableInvariant, PTL

-----------------------------------------------------------------------------
(* The agent around it.                                                    *)

\* The tenants the agent passes to the table are tenants.
TenantsOK ==
  /\ enrolled \in Tenants \cup {None}
  /\ identity \in Tenants \cup {None}
  /\ queries \in [Devices -> Tenants \cup {None}]
  /\ stage \in {"persisted", "retired"} => enrolled # None

LEMMA InitTenants == NamesInit => TenantsOK
BY DEF NamesInit, TenantsOK, NoQueries

LEMMA NextTenants == TenantsOK /\ [NamesNext]_allVars => TenantsOK'
<1> SUFFICES ASSUME TenantsOK, [NamesNext]_allVars PROVE TenantsOK'
  OBVIOUS
<1> USE DEF TenantsOK
<1>1. CASE UNCHANGED allVars
  BY <1>1 DEF allVars, names
<1>2. CASE Start \/ StartRetire \/ EnrollRetire \/ SetMeshIdentity \/ Unprovision
  BY <1>2 DEF Start, StartRetire, EnrollRetire, SetMeshIdentity, Unprovision
<1>3. CASE Stop
  BY <1>3 DEF Stop, NoQueries
<1>4. ASSUME NEW d \in Devices, QueryStart(d) \/ QueryAnswer(d)
      PROVE  TenantsOK'
  BY <1>4 DEF QueryStart, QueryAnswer
<1>5. ASSUME NEW t \in Tenants, EnrollPersist(t) PROVE TenantsOK'
  BY <1>5, EnrollAssumption DEF EnrollPersist
<1> QED BY <1>1, <1>2, <1>3, <1>4, <1>5 DEF NamesNext

\* Every step of the agent is a step of the table or leaves it alone.
LEMMA NamesStepIsTableStep == TenantsOK /\ [NamesNext]_allVars => [Next]_vars
<1> SUFFICES ASSUME TenantsOK, [NamesNext]_allVars PROVE [Next]_vars
  OBVIOUS
<1>1. CASE UNCHANGED allVars
  BY <1>1 DEF allVars
<1>2. ASSUME NEW t \in Tenants, Retire(t) PROVE [Next]_vars
  BY <1>2 DEF Retire, Next
<1>3. CASE Start
  BY <1>3 DEF Start, Next
<1>4. CASE StartRetire
  BY <1>2, <1>4 DEF StartRetire, TenantsOK
<1>5. CASE EnrollRetire
  <2>1. enrolled \in Tenants
    BY <1>5 DEF EnrollRetire, TenantsOK
  <2> QED BY <1>2, <1>5, <2>1 DEF EnrollRetire
<1>6. CASE SetMeshIdentity \/ Unprovision
  BY <1>6 DEF SetMeshIdentity, Unprovision
<1>7. CASE Stop
  BY <1>7 DEF Stop, Next
<1>8. ASSUME NEW d \in Devices, QueryStart(d) PROVE [Next]_vars
  BY <1>8 DEF QueryStart
<1>9. ASSUME NEW d \in Devices, QueryAnswer(d) PROVE [Next]_vars
  <2>1. queries[d] \in Tenants
    BY <1>9 DEF QueryAnswer, TenantsOK
  <2> QED BY <1>9, <2>1 DEF QueryAnswer, Next
<1>10. ASSUME NEW t \in Tenants, EnrollPersist(t) PROVE [Next]_vars
  BY <1>10 DEF EnrollPersist
<1> QED BY <1>1, <1>3, <1>4, <1>5, <1>6, <1>7, <1>8, <1>9, <1>10 DEF NamesNext

\* The composed agent implements the table's specification: start-up, DNS
\* answers and provisioning reach the table only through its operations.
THEOREM NamesImplementTable == NamesSpec => TableSpec
<1>1. NamesInit => Init
  BY DEF NamesInit
<1> QED BY <1>1, InitTenants, NextTenants, NamesStepIsTableStep, PTL
        DEF NamesSpec, TableSpec, Spec

\* So no DNS answer, however it interleaves with provisioning, failed writes
\* and power losses, hands one VIP to two principals.
THEOREM NamesNeverShare == NamesSpec => []NeverShared
BY NamesImplementTable, VIPsNeverShared, PTL DEF TableSpec

\* The rest of the agent's types.
StagesOK ==
  /\ stage \in {"down", "opened", "up", "persisted", "retired"}
  /\ resetRestartPending \in BOOLEAN
  /\ enrolls \in 0..MaxEnrolls

LEMMA NextStages == StagesOK /\ [NamesNext]_allVars => StagesOK'
<1> SUFFICES ASSUME StagesOK, [NamesNext]_allVars PROVE StagesOK'
  OBVIOUS
<1> USE DEF StagesOK
<1>1. CASE UNCHANGED allVars
  BY <1>1 DEF allVars, names
<1>2. CASE Start \/ StartRetire \/ EnrollRetire \/ SetMeshIdentity \/ Unprovision \/ Stop
  BY <1>2 DEF Start, StartRetire, EnrollRetire, SetMeshIdentity, Unprovision, Stop
<1>3. ASSUME NEW d \in Devices, QueryStart(d) \/ QueryAnswer(d)
      PROVE  StagesOK'
  BY <1>3 DEF QueryStart, QueryAnswer
<1>4. ASSUME NEW t \in Tenants, EnrollPersist(t) PROVE StagesOK'
  BY <1>4, EnrollAssumption DEF EnrollPersist
<1> QED BY <1>1, <1>2, <1>3, <1>4 DEF NamesNext

\* The table inside the agent and the agent around it keep their types.
THEOREM NamesTypeCorrect == NamesSpec => []NamesTypeOK
<1>1. NamesInit => StagesOK
  <2> SUFFICES ASSUME NamesInit PROVE StagesOK
    OBVIOUS
  <2>1. stage = "down" /\ resetRestartPending = FALSE /\ enrolls = 0
    BY DEF NamesInit
  <2>2. enrolls \in 0..MaxEnrolls
    BY <2>1, EnrollAssumption
  <2> QED BY <2>1, <2>2 DEF StagesOK
<1>2. TypeOK /\ TenantsOK /\ StagesOK => NamesTypeOK
  BY DEF TenantsOK, StagesOK, NamesTypeOK
<1>3. NamesSpec => []TypeOK
  BY NamesImplementTable, TypeCorrect, PTL DEF TableSpec
<1> QED BY <1>1, <1>2, <1>3, InitTenants, NextTenants, NextStages, PTL DEF NamesSpec

-----------------------------------------------------------------------------
(* No pin of a former tenant.                                              *)

\* Who may hold which tenant: an enrolled agent's DNS server and queries know
\* no other; an agent that was never enrolled since it started, and is not
\* waiting for the restart of a reset, has none at all.
OneTenant ==
  /\ enrolled # None =>
       /\ ~resetRestartPending
       /\ identity \in {None, enrolled}
       /\ \A d \in Devices : queries[d] \in {None, enrolled}
  /\ enrolled = None /\ ~resetRestartPending =>
       /\ identity = None
       /\ \A d \in Devices : queries[d] = None
  /\ stage \in {"down", "opened"} =>
       /\ ~resetRestartPending
       /\ identity = None
       /\ \A d \in Devices : queries[d] = None
  /\ stage = "down" => ~open

NamesInv == OneTenant /\ NoForeignPin

\* Retirement leaves a usable table with the tenant's own pins only.
LEMMA RetireDropsForeign ==
  ASSUME TypeOK, NEW t \in Tenants, Retire(t)
  PROVE  ~poisoned' => \A d \in Devices :
                          entries'[d] # None => entries'[d].tenant = t
<1>1. CASE Usable /\ Outside(t) = {} /\ UNCHANGED vars
  BY <1>1 DEF Outside, vars, memory
<1>2. ASSUME NEW outcome \in PersistOutcomes, RetireTenant(t, outcome)
      PROVE  \A d \in Devices : entries'[d] # None => entries'[d].tenant = t
  BY <1>2 DEF RetireTenant, Outside
<1> QED BY <1>1, <1>2 DEF Retire

\* An allocation for the one tenant leaves only that tenant's pins.
LEMMA AllocateKeepsTenant ==
  ASSUME TypeOK, NEW d \in Devices, NEW t \in Tenants, Allocate(d, t),
         \A x \in Devices : entries[x] # None => entries[x].tenant = t
  PROVE  \A x \in Devices : entries'[x] # None => entries'[x].tenant = t
<1>1. CASE AllocateHit(d, t)
  BY <1>1 DEF AllocateHit, memory
<1>2. ASSUME NEW v \in VIPs, NEW outcome \in PersistOutcomes,
             AllocateMiss(d, t, v, outcome)
      PROVE  \A x \in Devices : entries'[x] # None => entries'[x].tenant = t
  <2> DEFINE e1 == [entries EXCEPT ![d] = [tenant |-> t, vip |-> v]]
  <2>1. entries' = e1 \/ entries' = [e1 EXCEPT ![d] = entries[d]]
    BY <1>2 DEF AllocateMiss
  <2> QED BY <2>1 DEF TypeOK
<1> QED BY <1>1, <1>2 DEF Allocate

LEMMA InitNamesInv == NamesInit => NamesInv
BY DEF NamesInit, NamesInv, OneTenant, NoForeignPin, NoQueries, Init

LEMMA NextOneTenant ==
  TenantsOK /\ OneTenant /\ [NamesNext]_allVars => OneTenant'
<1> SUFFICES ASSUME TenantsOK, OneTenant, [NamesNext]_allVars PROVE OneTenant'
  OBVIOUS
<1> USE DEF OneTenant, TenantsOK
<1>1. CASE UNCHANGED allVars
  BY <1>1 DEF allVars, names, vars
<1>2. CASE Start
  BY <1>2 DEF Start, Open, vars
<1>3. CASE StartRetire \/ EnrollRetire \/ SetMeshIdentity \/ Unprovision
  BY <1>3 DEF StartRetire, EnrollRetire, SetMeshIdentity, Unprovision
<1>4. CASE Stop
  BY <1>4 DEF Stop, Close, PowerLoss, NoQueries, vars
<1>5. ASSUME NEW d \in Devices, QueryStart(d) PROVE OneTenant'
  BY <1>5 DEF QueryStart, vars
<1>6. ASSUME NEW d \in Devices, QueryAnswer(d) PROVE OneTenant'
  BY <1>6 DEF QueryAnswer
<1>7. ASSUME NEW t \in Tenants, EnrollPersist(t) PROVE OneTenant'
  BY <1>7, EnrollAssumption DEF EnrollPersist, vars
<1> QED BY <1>1, <1>2, <1>3, <1>4, <1>5, <1>6, <1>7 DEF NamesNext

LEMMA NextNoForeignPin ==
  TypeOK /\ TenantsOK /\ NamesInv /\ [NamesNext]_allVars => NoForeignPin'
<1> SUFFICES ASSUME TypeOK, TenantsOK, NamesInv, [NamesNext]_allVars
             PROVE  NoForeignPin'
  OBVIOUS
<1> USE DEF NoForeignPin, Usable
<1>1. CASE UNCHANGED allVars
  BY <1>1 DEF allVars, names, vars, memory, NamesInv
<1>2. CASE Start
  BY <1>2 DEF Start, vars, memory, NamesInv, OneTenant
<1>3. CASE StartRetire \/ EnrollRetire
  <2>1. CASE enrolled # None /\ Retire(enrolled)
    BY <1>3, <2>1, RetireDropsForeign
       DEF StartRetire, EnrollRetire, TenantsOK
  <2>2. CASE (~open \/ poisoned) /\ UNCHANGED vars
    BY <2>2 DEF vars
  <2>3. CASE enrolled = None /\ UNCHANGED enrolled
    BY <2>3
  <2> QED BY <1>3, <2>1, <2>2, <2>3 DEF StartRetire, EnrollRetire, TenantsOK
<1>4. CASE SetMeshIdentity
  BY <1>4 DEF SetMeshIdentity, NamesInv, vars, memory
<1>5. CASE Unprovision \/ Stop
  BY <1>5 DEF Unprovision, Stop
<1>6. ASSUME NEW d \in Devices, QueryStart(d) PROVE NoForeignPin'
  BY <1>6 DEF QueryStart, NamesInv, vars, memory
<1>7. ASSUME NEW d \in Devices, QueryAnswer(d) PROVE NoForeignPin'
  <2>1. CASE UNCHANGED vars
    BY <1>7, <2>1 DEF QueryAnswer, NamesInv, vars, memory
  <2>2. CASE Allocate(d, queries[d])
    <3>1. Usable
      BY <2>2 DEF Allocate, AllocateHit, AllocateMiss
    <3>2. queries[d] \in Tenants
      BY <1>7 DEF QueryAnswer, TenantsOK
    <3>3. CASE enrolled # None /\ stage \in {"up", "retired"}
      <4>1. queries[d] = enrolled
        BY <1>7, <3>3 DEF QueryAnswer, NamesInv, OneTenant
      <4>2. \A x \in Devices : entries[x] # None => entries[x].tenant = enrolled
        BY <3>1, <3>3 DEF NamesInv
      <4> QED BY <1>7, <2>2, <3>2, <4>1, <4>2, AllocateKeepsTenant DEF QueryAnswer
    <3> QED BY <1>7, <3>3 DEF QueryAnswer
  <2> QED BY <1>7, <2>1, <2>2 DEF QueryAnswer
<1>8. ASSUME NEW t \in Tenants, EnrollPersist(t) PROVE NoForeignPin'
  BY <1>8 DEF EnrollPersist
<1> QED BY <1>1, <1>2, <1>3, <1>4, <1>5, <1>6, <1>7, <1>8 DEF NamesNext

\* An enrolled agent that serves names resolves no pin of a former tenant,
\* for any number of devices, tenants, addresses and enrolments: retirement
\* at start-up and in the enrolment callback, and the restart a reset forces
\* before the next enrolment, are together enough.
THEOREM NoPinOutlivesItsTenant == NamesSpec => []NoForeignPin
<1>1. TypeOK /\ TenantsOK /\ NamesInv /\ [NamesNext]_allVars => NamesInv'
  BY NextOneTenant, NextNoForeignPin DEF NamesInv
<1>2. NamesInv => NoForeignPin
  BY DEF NamesInv
<1>3. NamesSpec => []TypeOK
  BY NamesImplementTable, TypeCorrect, PTL DEF TableSpec
<1>4. NamesSpec => []TenantsOK
  BY InitTenants, NextTenants, PTL DEF NamesSpec
<1> QED BY <1>1, <1>2, <1>3, <1>4, InitNamesInv, PTL DEF NamesSpec
=============================================================================
