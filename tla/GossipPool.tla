------------------------------ MODULE GossipPool ------------------------------
(***************************************************************************)
(* The pool of announcement downloads (go/internal/agent/netgossip) that   *)
(* the sessions of one router share, the adapter that verifies what was    *)
(* downloaded (localmesh/gossip.go, sync.go), and the peers at the other   *)
(* end of the sessions, which run the same code.                           *)
(*                                                                         *)
(* A method runs under the pool's mutex and prunes first, so it is an      *)
(* action that starts from the pruned state (Lookup lets go of the mutex   *)
(* to read the directory; the session is busy meanwhile and the receipt it *)
(* found has not expired).  Instants are not modelled: a hint or a         *)
(* transfer ages in a step of its own and the next prune acts on it.       *)
(* Artifacts are of one type; an artifact has Chunks chunks.  Which body   *)
(* gives way when the cache is full is left open (the code takes the least *)
(* recently used).                                                         *)
(***************************************************************************)
EXTENDS Integers, FiniteSets, Sequences

CONSTANTS Sessions,      \* session incarnations, each used once
          IDs,           \* the announcements, as a sequence in hash order
          Chunks,        \* chunks of a body
          Uploads,       \* request numbers the peers use for their downloads
          Leechers,      \* the sessions whose peers download
          MaxInFlight,   \* downloads, and uploads, of the pool
          MaxPerPeer,    \* downloads, and uploads, of one session
          MaxPending,    \* announcements with a pending entry
          MaxSuppliers,  \* suppliers of one pending entry
          MaxBodies,     \* bodies the cache has room for (maxBytes)
          PollBudget,    \* messages a poll may emit
          PollChunks,    \* of those, chunks
          MaxAsked       \* bound: session -> requests its peer has not answered

None == "none"

ASSUME PoolAssumption ==
    /\ Leechers \subseteq Sessions /\ None \notin Sessions /\ IsFiniteSet(Sessions)
    /\ Len(IDs) \in Nat /\ DOMAIN IDs = 1 .. Len(IDs)
    /\ Chunks \in Nat \ {0}
    /\ \A n \in {MaxInFlight, MaxPerPeer, MaxPending, MaxSuppliers, MaxBodies} : n \in Nat \ {0}
    /\ PollBudget \in Nat /\ PollChunks \in Nat /\ MaxAsked \in [Sessions -> Nat]

VARIABLES
  objects,     \* id -> [known, body, load]: receipt, with or without bytes
  pending,     \* id -> the fetch, or NoFetch
  serving,     \* uploads in progress, as the pool counts them
  state,       \* session -> "new", "open" or "closed"
  seen,        \* session -> id -> "none", "fresh" or "old" hint
  unavailable, \* session -> ids its peer said it no longer has
  out,         \* session -> sequence of uploads [id, request, left]
  verifying,   \* session -> bodies handed to the adapter, not yet resolved
  asked        \* session -> requests its peer is working on [id, request, next]

poolVars == <<objects, pending, serving>>
sessionVars == <<state, seen, unavailable, out>>
vars == <<objects, pending, serving, state, seen, unavailable, out, verifying, asked>>

Ids == {IDs[i] : i \in DOMAIN IDs}

NoObject == [known |-> FALSE, body |-> FALSE, load |-> FALSE]
NoFetch  == [owner |-> None, request |-> 0, suppliers |-> {}, got |-> 0,
             received |-> FALSE, avoid |-> None, idle |-> FALSE]

Open == {s \in Sessions : state[s] = "open"}

-----------------------------------------------------------------------------
(* The pool *)

\* A fetch with nobody left to supply it is dropped; one whose owner made no
\* progress for IdleTimeout is taken from it, and the owner avoided.  A supplier
\* is as old as the hint it comes from; HintAges removes one whose hint is gone.
\* (The number of a request without an owner is never compared: it is cleared.)
Released_keepsBytes(f) == [f EXCEPT !.owner = None, !.request = 0, !.idle = FALSE]

Released(f) == [f EXCEPT !.owner = None, !.request = 0, !.got = 0, !.idle = FALSE]

prunedFetch_impatient(id) ==
    LET f    == pending[id]
        live == {s \in f.suppliers : seen[s][id] # "old"}
        kept == [f EXCEPT !.suppliers = live]
    IN  IF live = {} THEN NoFetch
        ELSE IF f.owner # None /\ f.idle
             THEN [Released(kept) EXCEPT !.avoid = f.owner]
             ELSE kept

prunedFetch_patient(id) ==
    LET live == {s \in pending[id].suppliers : seen[s][id] # "old"}
    IN  IF live = {} THEN NoFetch ELSE [pending[id] EXCEPT !.suppliers = live]

prunedFetch(id) ==
    LET f    == pending[id]
        live == {s \in f.suppliers : seen[s][id] # "old"}
        kept == [f EXCEPT !.suppliers = live]
    IN  IF live = {} THEN NoFetch
        ELSE IF f.owner # None /\ ~f.received /\ f.idle
             THEN [Released(kept) EXCEPT !.avoid = f.owner]
             ELSE kept

prunedPending == [id \in Ids |-> prunedFetch(id)]

\* remember: the object replaces an older entry but keeps its loader, bodies
\* give way until there is room for this one, and the fetch is over.
remember(id, body, load) ==
    LET objs   == [objects EXCEPT ![id] = NoObject]
        bodies == {k \in Ids : objs[k].body}
    IN  /\ \E keep \in SUBSET bodies :
              /\ IF body /\ Cardinality(bodies) >= MaxBodies
                 THEN Cardinality(keep) = MaxBodies - 1
                 ELSE keep = bodies
              /\ objects' = [k \in Ids |->
                    IF k = id
                    THEN [known |-> TRUE, body |-> body,
                          load |-> load \/ objects[id].load]
                    ELSE [objs[k] EXCEPT !.body = k \in keep]]
        /\ pending' = [prunedPending EXCEPT ![id] = NoFetch]

-----------------------------------------------------------------------------
(* Claims.  A memory m has the fields pending, seen and unavailable (the      *)
(* last two of one session) and want, the requests emitted.                   *)

Memory(s) ==
    [pending |-> prunedPending, seen |-> seen[s], unavailable |-> unavailable[s], want |-> {}]

\* The code counts requests up for ever.  An answer is matched by session, id and
\* number, so what matters is a number that no request its peer still has in
\* hand for the same id has.
NewRequest(s, id) ==
    LET used == {t.request : t \in {u \in asked[s] : u.id = id}}
    IN  CHOOSE r \in 1 .. Cardinality(used) + 1 :
           r \notin used /\ \A k \in 1 .. r - 1 : k \in used

Claims(m) == {id \in Ids : m.pending[id].owner # None}

claim(m, s, id) ==
    LET f       == m.pending[id]
        joined  == IF f # NoFetch /\ (s \in f.suppliers \/ Cardinality(f.suppliers) < MaxSuppliers)
                   THEN [f EXCEPT !.suppliers = @ \cup {s}] ELSE f
        refused == \/ f.owner # None
                   \/ f.avoid = s /\ Cardinality(joined.suppliers) > 1
                   \/ Cardinality(Claims(m)) >= MaxInFlight
                   \/ Cardinality({k \in Claims(m) : m.pending[k].owner = s}) >= MaxPerPeer
                   \/ f = NoFetch /\ Cardinality({k \in Ids : m.pending[k] # NoFetch}) >= MaxPending
        base    == IF f = NoFetch THEN [NoFetch EXCEPT !.suppliers = {s}] ELSE joined
    IN  IF objects[id].known
        THEN [m EXCEPT !.seen[id] = "none", !.unavailable = @ \ {id}]
        ELSE IF id \in m.unavailable THEN m
        ELSE IF refused THEN [m EXCEPT !.pending[id] = joined]
        ELSE [m EXCEPT !.pending[id] = [base EXCEPT !.owner = s, !.request = NewRequest(s, id), !.idle = FALSE],
                       !.want = @ \cup {[id |-> id, request |-> NewRequest(s, id), next |-> 0]}]

\* Store a memory back; what it asks for goes to the peer.
Write(s, m) ==
    /\ pending' = m.pending
    /\ seen' = [seen EXCEPT ![s] = m.seen]
    /\ unavailable' = [unavailable EXCEPT ![s] = m.unavailable]
    /\ asked' = [asked EXCEPT ![s] = @ \cup m.want]
    /\ Cardinality(asked'[s]) <= MaxAsked[s]

-----------------------------------------------------------------------------
(* Messages from the peer *)

\* have: a known object needs nothing; otherwise the hint is fresh again and
\* the session tries to claim the fetch.
ReceiveHave(s, id) ==
    /\ s \in Open
    /\ LET m == Memory(s) IN
       Write(s, IF objects[id].known THEN m
                ELSE claim([m EXCEPT !.seen[id] = "fresh", !.unavailable = @ \ {id}], s, id))
    /\ UNCHANGED <<objects, serving, state, out, verifying>>

\* gone: the hint is withdrawn.  A body already complete keeps its reservation.
ReceiveGone(s, id) ==
    LET m == Memory(s)
        f == [m.pending[id] EXCEPT !.suppliers = @ \ {s}]
        g == IF f.owner = s /\ ~f.received
             THEN [Released(f) EXCEPT !.avoid = s] ELSE f
    IN
    /\ s \in Open
    /\ Write(s, [m EXCEPT !.seen[id] = "none", !.unavailable = @ \ {id},
                          !.pending[id] = IF g.owner = None /\ g.suppliers = {} THEN NoFetch ELSE g])
    /\ UNCHANGED <<objects, serving, state, out, verifying>>

\* unavailable: the peer cannot serve this request.
ReceiveUnavailable(s, t) ==
    LET m == Memory(s)
        f == m.pending[t.id]
    IN
    /\ s \in Open /\ t.next = 0
    /\ IF f.owner = s /\ f.request = t.request /\ ~f.received
       THEN /\ pending' = [m.pending EXCEPT ![t.id] = [Released(f) EXCEPT !.suppliers = @ \ {s}]]
            /\ unavailable' = [unavailable EXCEPT ![s] = @ \cup {t.id}]
       ELSE pending' = m.pending /\ UNCHANGED unavailable
    /\ asked' = [asked EXCEPT ![s] = @ \ {t}]
    /\ UNCHANGED <<objects, serving, state, seen, out, verifying>>

\* Close: the session's uploads end, its claims are free again and it supplies
\* nothing any more.
Leave(f, s) ==
    LET g == [f EXCEPT !.suppliers = @ \ {s}]
        h == IF f.owner = s THEN [Released(g) EXCEPT !.received = FALSE] ELSE g
    IN  IF h.suppliers = {} THEN NoFetch ELSE h

CloseSession_leaks(s, pend) ==
    /\ state' = [state EXCEPT ![s] = "closed"]
    /\ pending' = [id \in Ids |-> Leave(pend[id], s)]
    /\ out' = [out EXCEPT ![s] = <<>>]
    /\ seen' = [seen EXCEPT ![s] = [id \in Ids |-> "none"]]
    /\ unavailable' = [unavailable EXCEPT ![s] = {}]
    /\ verifying' = [verifying EXCEPT ![s] = {}]
    /\ asked' = [asked EXCEPT ![s] = {}]
    /\ UNCHANGED serving

CloseSession(s, pend) ==
    /\ state' = [state EXCEPT ![s] = "closed"]
    /\ pending' = [id \in Ids |-> Leave(pend[id], s)]
    /\ serving' = serving - Len(out[s])
    /\ out' = [out EXCEPT ![s] = <<>>]
    /\ seen' = [seen EXCEPT ![s] = [id \in Ids |-> "none"]]
    /\ unavailable' = [unavailable EXCEPT ![s] = {}]
    /\ verifying' = [verifying EXCEPT ![s] = {}]
    /\ asked' = [asked EXCEPT ![s] = {}]

\* data: the next chunk of a request.  It is ignored unless it belongs to the
\* claim in force; a chunk out of order fails the session; the chunk that
\* completes the body hands it to the adapter.
Wanted(f, s, t) == f.owner = s /\ f.request = t.request /\ ~f.received

Accepted(f) == [f EXCEPT !.got = @ + 1, !.idle = FALSE, !.received = f.got + 1 = Chunks]

ReceiveData(s, t) ==
    LET f      == prunedPending[t.id]
        wanted == Wanted(f, s, t)
        rest   == IF t.next + 1 = Chunks THEN {} ELSE {[t EXCEPT !.next = @ + 1]}
    IN
    /\ s \in Open
    /\ UNCHANGED objects
    /\ IF wanted /\ t.next # f.got
       THEN CloseSession(s, prunedPending)
       ELSE /\ pending' = IF wanted THEN [prunedPending EXCEPT ![t.id] = Accepted(f)] ELSE prunedPending
            /\ verifying' = IF wanted /\ f.got + 1 = Chunks
                            THEN [verifying EXCEPT ![s] = @ \cup {t.id}] ELSE verifying
            /\ asked' = [asked EXCEPT ![s] = (@ \ {t}) \cup rest]
            /\ UNCHANGED serving /\ UNCHANGED sessionVars

\* chunk: the first upload sends a chunk and goes to the back of the line, or is
\* over.  u has the fields out (of one session), serving and sent.
chunk_late(u) ==
    LET x == Head(u.out) IN
    IF u.out = <<>> THEN u
    ELSE IF x.left = 0
    THEN [out |-> Tail(u.out), serving |-> u.serving - 1, sent |-> u.sent + 1]
    ELSE [u EXCEPT !.out = Append(Tail(@), [x EXCEPT !.left = @ - 1]), !.sent = @ + 1]

chunk(u) ==
    LET x == Head(u.out) IN
    IF u.out = <<>> THEN u
    ELSE IF x.left = 1
    THEN [out |-> Tail(u.out), serving |-> u.serving - 1, sent |-> u.sent + 1]
    ELSE [u EXCEPT !.out = Append(Tail(@), [x EXCEPT !.left = @ - 1]), !.sent = @ + 1]

\* want: a repeated request changes nothing; one that can be served takes an
\* upload slot, and its first chunk goes out at once unless that is deferred.
ReceiveWant(s, id, request, deferUpload) ==
    LET u == [out |-> Append(out[s], [id |-> id, request |-> request, left |-> Chunks]),
              serving |-> serving + 1, sent |-> 0]
        v == IF deferUpload THEN u ELSE chunk(u)
        served == /\ \A i \in DOMAIN out[s] : out[s][i].request # request
                  /\ objects[id].body
                  /\ Len(out[s]) < MaxPerPeer /\ serving < MaxInFlight
    IN
    /\ s \in Open \cap Leechers
    /\ UNCHANGED objects /\ pending' = prunedPending
    /\ out' = IF served THEN [out EXCEPT ![s] = v.out] ELSE out
    /\ serving' = IF served THEN v.serving ELSE serving
    /\ UNCHANGED <<state, seen, unavailable, verifying, asked>>

-----------------------------------------------------------------------------
(* The session's other methods *)

NewSession(s) ==
    /\ state[s] = "new"
    /\ state' = [state EXCEPT ![s] = "open"]
    /\ UNCHANGED poolVars /\ UNCHANGED <<seen, unavailable, out, verifying, asked>>

\* Poll: some chunks, then a claim for every hint while the budget lasts; hints
\* that are too old are forgotten.
Sending(s) ==
    LET u[k \in 0 .. PollChunks] ==
          IF k = 0 THEN [out |-> out[s], serving |-> serving, sent |-> 0] ELSE chunk(u[k - 1])
    IN  u

visit(m, s, id, room) ==
    IF m.seen[id] = "old"
    THEN [m EXCEPT !.seen[id] = "none", !.unavailable = @ \ {id}]
    ELSE IF m.seen[id] = "fresh" /\ Cardinality(m.want) < room THEN claim(m, s, id) ELSE m

Claiming(s, room) ==
    LET m[k \in 0 .. Len(IDs)] ==
          IF k = 0 THEN Memory(s) ELSE visit(m[k - 1], s, IDs[k], room)
    IN  m

Poll(s, budget) ==
    LET u == Sending(s)[IF budget < PollChunks THEN budget ELSE PollChunks] IN
    /\ s \in Open
    /\ Write(s, Claiming(s, budget - u.sent)[Len(IDs)])
    /\ out' = [out EXCEPT ![s] = u.out]
    /\ serving' = u.serving
    /\ UNCHANGED <<objects, state, verifying>>

\* Offer: the adapter announces a record the directory holds.
Offer(s, id) ==
    /\ s \in Open
    /\ remember(id, TRUE, TRUE)
    /\ UNCHANGED <<serving, verifying, asked>> /\ UNCHANGED sessionVars

\* Lookup: bytes that were evicted are loaded from the directory again, if it
\* still holds that exact record.
Lookup(s, id, found) ==
    LET o == objects[id] IN
    /\ s \in Open
    /\ IF o.known /\ ~o.body /\ o.load /\ found
       THEN remember(id, TRUE, FALSE)
       ELSE UNCHANGED objects /\ pending' = prunedPending
    /\ UNCHANGED <<serving, verifying, asked>> /\ UNCHANGED sessionVars

\* Resolve: the adapter has verified a body.  It is admitted to the directory,
\* or it is authentic but stale and leaves a receipt without bytes.
Resolve(s, id, accepted) ==
    /\ id \in verifying[s]
    /\ remember(id, accepted, FALSE)
    /\ verifying' = [verifying EXCEPT ![s] = @ \ {id}]
    /\ UNCHANGED <<serving, asked>> /\ UNCHANGED sessionVars

\* Discard: the adapter gives up on a body without having verified it.
Discard(s, id) ==
    LET f == pending[id]
        g == [Released(f) EXCEPT !.suppliers = @ \ {s}, !.received = FALSE]
    IN
    /\ id \in verifying[s]
    /\ pending' = IF f.owner = s
                  THEN [pending EXCEPT ![id] = IF g.suppliers = {} THEN NoFetch ELSE g]
                  ELSE [pending EXCEPT ![id].suppliers = IF seen[s][id] = "old" THEN @ \ {s} ELSE @]
    /\ seen' = [seen EXCEPT ![s][id] = "none"]
    /\ unavailable' = [unavailable EXCEPT ![s] = @ \ {id}]
    /\ verifying' = [verifying EXCEPT ![s] = @ \ {id}]
    /\ UNCHANGED <<objects, serving, state, out, asked>>

Close(s) ==
    /\ s \in Open
    /\ CloseSession(s, pending)
    /\ UNCHANGED objects

-----------------------------------------------------------------------------
(* Time, and the pool's other announcements *)

\* A hint is too old.  (A supplier may outlive its hint: Discard forgets the hint
\* of a session that supplies a fetch another session owns.)
HintAges(s, id) ==
    /\ \/ /\ seen[s][id] = "fresh"
          /\ seen' = [seen EXCEPT ![s][id] = "old"]
          /\ UNCHANGED pending
       \/ /\ seen[s][id] = "none" /\ s \in pending[id].suppliers
          /\ pending' = [pending EXCEPT ![id].suppliers = @ \ {s}]
          /\ UNCHANGED seen
    /\ UNCHANGED <<objects, serving, state, unavailable, out, verifying, asked>>

\* IdleTimeout has passed since the claim or its last chunk.
FetchIdles(id) ==
    /\ pending[id].owner # None
    /\ ~pending[id].idle
    /\ pending' = [pending EXCEPT ![id].idle = TRUE]
    /\ UNCHANGED <<objects, serving, verifying, asked>> /\ UNCHANGED sessionVars

\* A receipt expires.  Every reader prunes first, so it may as well go now.
ObjectExpires(id) ==
    /\ objects[id].known
    /\ objects' = [objects EXCEPT ![id] = NoObject]
    /\ UNCHANGED <<pending, serving, verifying, asked>> /\ UNCHANGED sessionVars

\* The pool's other announcements take the room of this body.
Evicted(id) ==
    /\ objects[id].body
    /\ objects' = [objects EXCEPT ![id].body = FALSE]
    /\ UNCHANGED <<pending, serving, verifying, asked>> /\ UNCHANGED sessionVars

-----------------------------------------------------------------------------
Init ==
    /\ objects = [id \in Ids |-> NoObject]
    /\ pending = [id \in Ids |-> NoFetch]
    /\ serving = 0
    /\ state = [s \in Sessions |-> "new"]
    /\ seen = [s \in Sessions |-> [id \in Ids |-> "none"]]
    /\ unavailable = [s \in Sessions |-> {}]
    /\ out = [s \in Sessions |-> <<>>]
    /\ verifying = [s \in Sessions |-> {}]
    /\ asked = [s \in Sessions |-> {}]

Next ==
    \/ \E s \in Sessions :
          \/ NewSession(s) \/ Close(s)
          \/ \E budget \in 0 .. PollBudget : Poll(s, budget)
          \/ \E t \in asked[s] : ReceiveUnavailable(s, t) \/ ReceiveData(s, t)
          \/ \E id \in Ids :
                \/ ReceiveHave(s, id) \/ ReceiveGone(s, id) \/ HintAges(s, id)
                \/ Offer(s, id) \/ Discard(s, id)
                \/ \E accepted \in BOOLEAN : Resolve(s, id, accepted)
                \/ \E found \in BOOLEAN : Lookup(s, id, found)
                \/ \E request \in Uploads, deferUpload \in BOOLEAN :
                      ReceiveWant(s, id, request, deferUpload)
    \/ \E id \in Ids : FetchIdles(id) \/ ObjectExpires(id) \/ Evicted(id)

Spec == Init /\ [][Next]_vars

\* Fairness, stated by the states it leads to: of the polls of a session, which
\* come at regular intervals whatever the others do, some come when a fetch it can
\* supply is free (strong fairness of a Poll that claims); the adapter finishes
\* verifying (weak fairness of Resolve or Discard); a transfer without progress is
\* idle some day (weak fairness of FetchIdles), and a supplier whose hint was
\* forgotten runs out (of HintAges).  Nothing is assumed of the peers, but that the
\* bound MaxAsked does not stop a session for ever.
CanClaim(s) ==
    /\ s \in Open /\ Cardinality(asked[s]) < MaxAsked[s]
    /\ \E id \in Ids : seen[s][id] = "fresh" /\ claim(Memory(s), s, id).want # {}

Claimed(s) == \E id \in Ids : pending[id].owner = s

Verified(s, id) == id \notin verifying[s]

Timed(id) == pending[id].owner = None \/ pending[id].received \/ pending[id].idle

Hinted(s, id) == s \in pending[id].suppliers => seen[s][id] # "none"

Fairness ==
    /\ \A s \in Sessions : []<>CanClaim(s) => []<>Claimed(s)
    /\ \A s \in Sessions : []<>(Cardinality(asked[s]) < MaxAsked[s])
    /\ \A s \in Sessions, id \in Ids : []<>Verified(s, id) /\ []<>Hinted(s, id)
    /\ \A id \in Ids : []<>Timed(id)

FairSpec == Spec /\ Fairness

-----------------------------------------------------------------------------
(* Properties *)

\* Types; an upload the session still holds (out) has a chunk to send, and no
\* download runs past its body.
TypeOK ==
    /\ objects \in [Ids -> [known : BOOLEAN, body : BOOLEAN, load : BOOLEAN]]
    /\ \A id \in Ids : LET f == pending[id] IN
          /\ f.owner \in Sessions \cup {None} /\ f.avoid \in Sessions \cup {None}
          /\ f.suppliers \subseteq Sessions
          /\ f.request \in Nat /\ f.got \in 0 .. Chunks
          /\ f.received \in BOOLEAN /\ f.idle \in BOOLEAN
    /\ serving \in Nat
    /\ state \in [Sessions -> {"new", "open", "closed"}]
    /\ seen \in [Sessions -> [Ids -> {"none", "fresh", "old"}]]
    /\ unavailable \in [Sessions -> SUBSET Ids]
    /\ \A s \in Sessions : \A i \in DOMAIN out[s] : out[s][i].left \in 1 .. Chunks
    /\ verifying \in [Sessions -> SUBSET Ids]
    /\ \A s \in Sessions : \A t \in asked[s] : t.id \in Ids /\ t.next \in 0 .. Chunks - 1

\* The upload slots in use are exactly the uploads the sessions hold: none leaks
\* and none is freed twice, whatever ends a transfer.
SlotsBalance == serving = Cardinality(UNION {{s} \X DOMAIN out[s] : s \in Sessions})

\* A claim is held by an open session whose peer is working on exactly the
\* request and the chunk the pool waits for: no download is lost, and no honest
\* peer's chunk is out of order.
ClaimBacked ==
    \A id \in Ids : LET f == pending[id] IN
       /\ f.suppliers \subseteq Open
       /\ f.owner # None =>
             /\ f.owner \in Open
             /\ ~f.received => [id |-> id, request |-> f.request, next |-> f.got] \in asked[f.owner]
             /\ f.received => id \in verifying[f.owner]

\* A step that ends the claim of a body still under verification starts with the
\* hint it came from withdrawn or too old: nothing else makes a second download
\* possible, neither the idle timer nor another session, request or object.
ClaimKept ==
    [][\A s \in Sessions : \A id \in verifying[s] \cap verifying'[s] :
          /\ pending[id].owner = s /\ pending[id].received
          /\ seen[s][id] = "fresh" /\ ~objects'[id].known
          => pending'[id].owner = s /\ pending'[id].received]_vars

\* A peer that goes on advertising an announcement, does not refuse it and does not
\* let its transfer idle is not starved: whatever the other peers do (stall,
\* withdraw, refuse, leave), the announcement becomes known.
Fetched ==
    \A s \in Sessions, id \in Ids :
       ~ <>[](/\ seen[s][id] = "fresh" /\ id \notin unavailable[s]
              /\ ~(pending[id].owner = s /\ pending[id].idle)
              /\ ~objects[id].known)

=============================================================================
