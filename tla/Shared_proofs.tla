----------------------------- MODULE Shared_proofs -----------------------------
(***************************************************************************)
(* For any number of clients, files, rows and requests: what the rate      *)
(* limiter, the connection manager, media-service, the sections of a       *)
(* profile and the lists by page promise, each as a specification of its   *)
(* own, and their types side by side as MCShared runs them.                *)
(***************************************************************************)
EXTENDS MCShared, FiniteSetTheorems, WellFoundedInduction, TLAPS
-----------------------------------------------------------------------------
(* RateLimiter: LimiterKeepsItsWindows for any number of keys, requests,   *)
(* windows and any budget. A count belongs to one request of one window    *)
(* because the counter only grows within a window: the counts under way    *)
(* and those let through are at most the counter (CountsAreDrawn); a key   *)
(* whose expiry is outstanding is without one (FirstIsAlone), and its      *)
(* window cannot end.                                                      *)

\* Counts of the present window are at most the counter, later windows are untouched.
CountsAreDrawn ==
  /\ \A c \in Calls : call[c] # None =>
       /\ call[c].window <= window[call[c].key]
       /\ call[c].window = window[call[c].key] => call[c].count <= hits[call[c].key]
  /\ \A k \in Counters, w \in 1 .. MaxWindows :
       /\ w = window[k] => \A n \in passed[k][w] : n <= hits[k]
       /\ w > window[k] => passed[k][w] = {}

\* Who is about to set an expiry holds the first count of a window that has none.
FirstIsAlone ==
  \A c \in Calls : CallAt(c, "expire") =>
    /\ call[c].count = 1 /\ call[c].window = window[call[c].key]
    /\ call[c].key \notin expiring \cup endless

\* What counts for ever counts.
EndlessCounts == \A k \in endless : hits[k] > 0
ExpiringCounts == \A k \in expiring : hits[k] > 0

LimiterInv ==
  /\ LimiterTypeOK /\ CountsAreDrawn /\ FirstIsAlone /\ EndlessCounts /\ ExpiringCounts
  /\ PlacesAreTakenOnce /\ CountersExpire
-----------------------------------------------------------------------------
\* A request in the middleware is a record.
LEMMA CallIsRecord ==
  ASSUME LimiterTypeOK, NEW c \in Calls, call[c] # None
  PROVE  call[c] \in CallRecord
BY DEF LimiterTypeOK

\* What was let through are counts.
LEMMA CountsAreNumbers ==
  ASSUME LimiterTypeOK
  PROVE  \A k \in Counters, w \in 1 .. MaxWindows : passed[k][w] \subseteq Nat
<1> TAKE k \in Counters, w \in 1 .. MaxWindows
<1>1. passed[k][w] \subseteq 1 .. MaxHits
  BY DEF LimiterTypeOK
<1> QED
  BY <1>1

\* The initial state satisfies the invariant.
LEMMA LimiterInitEstablishes == LimiterInit => LimiterInv
BY LimiterAssumption
   DEF LimiterInit, LimiterInv, LimiterTypeOK, CountsAreDrawn, FirstIsAlone, EndlessCounts,
       ExpiringCounts, PlacesAreTakenOnce, CountersExpire, CallAt

\* Every step keeps the types.
LEMMA LimiterNextKeepsTypes == LimiterTypeOK /\ [LimiterNext]_limiterVars => LimiterTypeOK'
<1> SUFFICES ASSUME LimiterTypeOK, [LimiterNext]_limiterVars PROVE LimiterTypeOK'
  OBVIOUS
<1> USE LimiterAssumption
<1>1. ASSUME NEW c \in Calls, NEW k \in Counters, Incr(c, k) PROVE LimiterTypeOK'
  <2> DEFINE new == [key |-> k, pc |-> IF hits[k] = 0 THEN "expire" ELSE "ttl",
                     count |-> hits[k] + 1, window |-> window[k]]
  <2>1. hits[k] + 1 \in 1 .. MaxHits
    BY <1>1 DEF LimiterTypeOK, Incr, Hit
  <2>2. new \in CallRecord
    BY <2>1 DEF CallRecord, LimiterTypeOK
  <2> HIDE DEF new
  <2>3. call' = [call EXCEPT ![c] = new] /\ hits' = [hits EXCEPT ![k] = hits[k] + 1]
    BY <1>1 DEF Incr, Hit, new
  <2> QED
    BY <1>1, <2>1, <2>2, <2>3 DEF LimiterTypeOK, Incr
<1>2. ASSUME NEW k \in Counters, IncrUnanswered(k) PROVE LimiterTypeOK'
  BY <1>2 DEF LimiterTypeOK, IncrUnanswered, Hit
<1>3. ASSUME NEW c \in Calls, Expire(c) PROVE LimiterTypeOK'
  <2>1. call[c] \in CallRecord
    BY <1>3, CallIsRecord DEF Expire, CallAt
  <2>2. [call[c] EXCEPT !.pc = "ttl"] \in CallRecord
    BY <2>1 DEF CallRecord
  <2> QED
    BY <1>3, <2>1, <2>2 DEF LimiterTypeOK, Expire, CallRecord
<1>4. ASSUME NEW c \in Calls, ExpireUnanswered(c) PROVE LimiterTypeOK'
  <2>1. call[c] \in CallRecord
    BY <1>4, CallIsRecord DEF ExpireUnanswered, CallAt
  <2> QED
    BY <1>4, <2>1 DEF LimiterTypeOK, ExpireUnanswered, CallRecord
<1>5. ASSUME NEW c \in Calls, Admit(c) PROVE LimiterTypeOK'
  <2>1. call[c] \in CallRecord
    BY <1>5, CallIsRecord DEF Admit, CallAt
  <2> QED
    BY <1>5, <2>1 DEF LimiterTypeOK, Admit, CallRecord
<1>6. ASSUME NEW c \in Calls, CallFails(c) PROVE LimiterTypeOK'
  <2>1. call[c] \in CallRecord
    BY <1>6, CallIsRecord DEF CallFails
  <2> QED
    BY <1>6, <2>1 DEF LimiterTypeOK, CallFails, CallRecord
<1>7. ASSUME NEW k \in Counters, WindowEnds(k) PROVE LimiterTypeOK'
  BY <1>7 DEF LimiterTypeOK, WindowEnds
<1>8. CASE UNCHANGED limiterVars
  BY <1>8 DEF LimiterTypeOK, limiterVars
<1> QED
  BY <1>1, <1>2, <1>3, <1>4, <1>5, <1>6, <1>7, <1>8 DEF LimiterNext

\* The limiter keeps its types, for any number of keys, requests and windows.
THEOREM LimiterTypeCorrect == LimiterSpec => []LimiterTypeOK
<1>1. LimiterInit => LimiterTypeOK
  BY LimiterInitEstablishes DEF LimiterInv
<1> QED
  BY <1>1, LimiterNextKeepsTypes, PTL DEF LimiterSpec

-----------------------------------------------------------------------------
\* A counted request draws a count nobody of its window has.
LEMMA IncrKeeps ==
  ASSUME LimiterInv, LimiterTypeOK', NEW c \in Calls, NEW k \in Counters, Incr(c, k)
  PROVE  LimiterInv'
<1> USE DEF LimiterInv
<1> DEFINE new == [key |-> k, pc |-> IF hits[k] = 0 THEN "expire" ELSE "ttl",
                   count |-> hits[k] + 1, window |-> window[k]]
<1>0. new \in CallRecord
  BY LimiterAssumption DEF CallRecord, LimiterTypeOK, Incr, Hit
<1>1. /\ new.key = k /\ new.window = window[k] /\ new.count = hits[k] + 1
      /\ new.pc = IF hits[k] = 0 THEN "expire" ELSE "ttl"
      /\ call'[c] = new /\ \A d \in Calls \ {c} : call'[d] = call[d]
      /\ hits' = [hits EXCEPT ![k] = hits[k] + 1]
      /\ UNCHANGED <<expiring, window, passed, endless>>
  <2>1. call' = [call EXCEPT ![c] = new] /\ c \in DOMAIN call
    BY DEF Incr, LimiterTypeOK
  <2>2. new.pc = IF hits[k] = 0 THEN "expire" ELSE "ttl"
    OBVIOUS
  <2>3. new.key = k /\ new.window = window[k] /\ new.count = hits[k] + 1
    OBVIOUS
  <2> HIDE DEF new
  <2>4. call'[c] = new /\ \A d \in Calls \ {c} : call'[d] = call[d]
    BY <2>1 DEF LimiterTypeOK
  <2>5. hits' = [hits EXCEPT ![k] = hits[k] + 1] /\ UNCHANGED <<expiring, window, passed, endless>>
    BY DEF Incr, Hit
  <2> QED
    BY <2>2, <2>3, <2>4, <2>5
<1>2. hits \in [Counters -> Nat] /\ window \in [Counters -> Nat] /\ call[c] = None
  BY DEF LimiterTypeOK, Incr
<1>3. \A d \in Calls : call[d] # None => call[d].key \in Counters /\ call[d].count \in Nat
                                        /\ call[d].window \in 1 .. MaxWindows
  BY CallIsRecord DEF CallRecord
<1>4. \A l \in Counters, w \in 1 .. MaxWindows : passed[l][w] \subseteq Nat
  BY CountsAreNumbers
<1> HIDE DEF new
<1>5. CountsAreDrawn'
  BY <1>1, <1>2, <1>3, <1>4 DEF CountsAreDrawn
<1>6. FirstIsAlone'
  BY <1>1, <1>2, <1>3 DEF FirstIsAlone, CallAt, EndlessCounts, ExpiringCounts
<1>7. EndlessCounts' /\ ExpiringCounts'
  BY <1>1, <1>2 DEF EndlessCounts, ExpiringCounts, LimiterTypeOK
<1>8. PlacesAreTakenOnce'
  <2>1. \A l \in Counters, w \in 1 .. MaxWindows : passed'[l][w] \subseteq 1 .. Budget
    BY <1>1 DEF PlacesAreTakenOnce
  <2>2. ASSUME NEW d \in Calls, call'[d] # None
        PROVE  /\ call'[d].count \notin passed'[call'[d].key][call'[d].window]
               /\ \A e \in Calls \ {d} : call'[e] # None =>
                    ~(/\ call'[e].key = call'[d].key /\ call'[e].window = call'[d].window
                      /\ call'[e].count = call'[d].count)
    <3>1. window[k] \in 1 .. MaxWindows
      BY DEF LimiterTypeOK
    <3>2. hits[k] + 1 \notin passed[k][window[k]]
      BY <1>2, <1>4, <3>1 DEF CountsAreDrawn
    <3>3. \A e \in Calls \ {c} : call[e] # None =>
             ~(call[e].key = k /\ call[e].window = window[k] /\ call[e].count = hits[k] + 1)
      BY <1>2, <1>3 DEF CountsAreDrawn
    <3>4. CASE d = c
      BY <3>4, <3>2, <3>3, <1>1
    <3>5. CASE d # c
      BY <3>5, <2>2, <3>3, <1>1 DEF PlacesAreTakenOnce
    <3> QED
      BY <3>4, <3>5
  <2> QED
    BY <2>1, <2>2 DEF PlacesAreTakenOnce
<1>9. CountersExpire'
  <2>1. ASSUME NEW l \in Counters, hits'[l] > 0
        PROVE  \/ l \in expiring' \/ l \in endless'
               \/ \E d \in Calls : CallAt(d, "expire")' /\ call'[d].key = l
    <3>1. CASE l = k /\ hits[k] = 0
      <4>1. new # None
        BY LimiterAssumption, <1>0
      <4> QED
        BY <3>1, <4>1, <1>1 DEF CallAt
    <3>2. CASE hits[l] > 0
      <4>1. CASE \E d \in Calls : CallAt(d, "expire") /\ call[d].key = l
        BY <4>1, <1>1, <1>2 DEF CallAt
      <4> QED
        BY <3>2, <4>1, <1>1 DEF CountersExpire
    <3> QED
      BY <3>1, <3>2, <2>1, <1>1, <1>2
  <2> QED
    BY <2>1, <1>1 DEF CountersExpire
<1> QED
  BY <1>5, <1>6, <1>7, <1>8, <1>9

\* A request that leaves, or goes on to the time to live, keeps its place.
LEMMA ExpireKeeps ==
  ASSUME LimiterInv, LimiterTypeOK', NEW c \in Calls, Expire(c) \/ ExpireUnanswered(c)
  PROVE  LimiterInv'
<1> USE DEF LimiterInv
<1>1. /\ call[c] \in CallRecord /\ CallAt(c, "expire") /\ expiring' = expiring \cup {call[c].key}
      /\ \A d \in Calls \ {c} : call'[d] = call[d]
      /\ call'[c] = None \/ call'[c] = [call[c] EXCEPT !.pc = "ttl"]
      /\ UNCHANGED <<hits, window, passed, endless>>
  BY CallIsRecord DEF Expire, ExpireUnanswered, CallAt, LimiterTypeOK
<1>2. /\ call'[c] # None => /\ call'[c].key = call[c].key /\ call'[c].count = call[c].count
                            /\ call'[c].window = call[c].window /\ call'[c].pc = "ttl"
      /\ call[c].key \in Counters /\ call[c] # None
  BY <1>1 DEF CallRecord, CallAt
<1>3. \A d \in Calls \ {c} : CallAt(d, "expire") => call[d].key # call[c].key
  <2> SUFFICES ASSUME NEW d \in Calls \ {c}, CallAt(d, "expire"), call[d].key = call[c].key
               PROVE  FALSE
    OBVIOUS
  <2>1. call[d].count = call[c].count /\ call[d].window = call[c].window
    BY <1>1 DEF FirstIsAlone
  <2> QED
    BY <2>1, <1>1, <1>2 DEF PlacesAreTakenOnce, CallAt
<1>4. CountsAreDrawn'
  BY <1>1, <1>2 DEF CountsAreDrawn
<1>5. FirstIsAlone'
  BY <1>1, <1>2, <1>3 DEF FirstIsAlone, CallAt
<1>6. EndlessCounts' /\ ExpiringCounts'
  <2>1. hits[call[c].key] > 0
    <3>1. call[c].count = 1 /\ call[c].window = window[call[c].key]
      BY <1>1 DEF FirstIsAlone
    <3> QED
      BY <3>1, <1>2 DEF CountsAreDrawn, LimiterTypeOK
  <2> QED
    BY <2>1, <1>1 DEF EndlessCounts, ExpiringCounts
<1>7. PlacesAreTakenOnce'
  BY <1>1, <1>2 DEF PlacesAreTakenOnce
<1>8. CountersExpire'
  <2>1. call[c].key \notin endless
    BY <1>1 DEF FirstIsAlone
  <2>2. ASSUME NEW k \in Counters, hits[k] > 0, k # call[c].key
        PROVE  \/ k \in expiring' \/ k \in endless'
               \/ \E d \in Calls : CallAt(d, "expire")' /\ call'[d].key = k
    BY <2>2, <1>1 DEF CountersExpire, CallAt
  <2> QED
    BY <2>1, <2>2, <1>1 DEF CountersExpire
<1> QED
  BY <1>4, <1>5, <1>6, <1>7, <1>8

\* A place is taken when its request is let through, and only within the budget.
LEMMA AdmitKeeps ==
  ASSUME LimiterInv, LimiterTypeOK', NEW c \in Calls, Admit(c)
  PROVE  LimiterInv'
<1> USE DEF LimiterInv
<1> DEFINE k == call[c].key
           w == call[c].window
           n == call[c].count
<1>1. /\ call[c] \in CallRecord /\ call[c] # None /\ call[c].pc = "ttl" /\ call'[c] = None
      /\ \A d \in Calls \ {c} : call'[d] = call[d]
      /\ UNCHANGED <<hits, expiring, window, endless>>
  BY CallIsRecord DEF Admit, CallAt, LimiterTypeOK
<1>2. k \in Counters /\ w \in 1 .. MaxWindows /\ n \in 1 .. MaxHits
  BY <1>1 DEF CallRecord
<1>3. \A l \in Counters, v \in 1 .. MaxWindows :
        /\ passed'[l][v] \subseteq passed[l][v] \cup {n}
        /\ l # k \/ v # w => passed'[l][v] = passed[l][v]
        /\ n > Budget => passed'[l][v] = passed[l][v]
  BY <1>2 DEF Admit, LimiterTypeOK
<1> HIDE DEF k, w, n
<1>4. CountsAreDrawn'
  <2>1. \A d \in Calls : call'[d] # None => call[d] # None /\ call'[d] = call[d]
    BY <1>1
  <2>2. w <= window[k] /\ (w = window[k] => n <= hits[k])
    BY <1>1 DEF CountsAreDrawn, k, w, n
  <2>3. window \in [Counters -> Nat] /\ hits \in [Counters -> Nat]
    BY DEF LimiterTypeOK
  <2>4. ASSUME NEW l \in Counters, NEW v \in 1 .. MaxWindows
        PROVE  /\ v = window'[l] => \A m \in passed'[l][v] : m <= hits'[l]
               /\ v > window'[l] => passed'[l][v] = {}
    BY <1>1, <1>2, <1>3, <2>2, <2>3 DEF CountsAreDrawn
  <2> QED
    BY <1>1, <2>1, <2>4 DEF CountsAreDrawn
<1>5. FirstIsAlone'
  BY <1>1 DEF FirstIsAlone, CallAt
<1>6. EndlessCounts' /\ ExpiringCounts'
  BY <1>1 DEF EndlessCounts, ExpiringCounts
<1>7. PlacesAreTakenOnce'
  <2>1. \A l \in Counters, v \in 1 .. MaxWindows : passed'[l][v] \subseteq 1 .. Budget
    BY <1>2, <1>3, LimiterAssumption DEF PlacesAreTakenOnce
  <2>2. ASSUME NEW d \in Calls \ {c}, call[d] # None
        PROVE  call[d].count \notin passed'[call[d].key][call[d].window]
    <3>1. call[d].key \in Counters /\ call[d].window \in 1 .. MaxWindows
      BY <2>2, CallIsRecord DEF CallRecord
    <3>2. ~(call[d].key = k /\ call[d].window = w /\ call[d].count = n)
      BY <2>2, <1>1 DEF PlacesAreTakenOnce, k, w, n
    <3>3. call[d].count \notin passed[call[d].key][call[d].window]
      BY <2>2 DEF PlacesAreTakenOnce
    <3> QED
      BY <3>1, <3>2, <3>3, <1>3
  <2> QED
    BY <2>1, <2>2, <1>1 DEF PlacesAreTakenOnce
<1>8. CountersExpire'
  BY <1>1 DEF CountersExpire, CallAt
<1> QED
  BY <1>4, <1>5, <1>6, <1>7, <1>8

\* A request that fails before the expiry is set leaves a key that counts for ever.
LEMMA CallFailsKeeps ==
  ASSUME LimiterInv, LimiterTypeOK', NEW c \in Calls, CallFails(c)
  PROVE  LimiterInv'
<1> USE DEF LimiterInv
<1>1. /\ call[c] \in CallRecord /\ call[c] # None /\ call'[c] = None
      /\ \A d \in Calls \ {c} : call'[d] = call[d]
      /\ endless' = IF call[c].pc = "expire" THEN endless \cup {call[c].key} ELSE endless
      /\ UNCHANGED <<hits, expiring, window, passed>>
  BY CallIsRecord DEF CallFails, LimiterTypeOK
<1>2. call[c].key \in Counters
  BY <1>1 DEF CallRecord
<1>3. CountsAreDrawn'
  BY <1>1 DEF CountsAreDrawn
<1>4. FirstIsAlone'
  <2>1. ASSUME NEW d \in Calls \ {c}, CallAt(d, "expire"), call[c].pc = "expire"
        PROVE  call[d].key # call[c].key
    <3>1. /\ call[d].count = 1 /\ call[d].window = window[call[d].key] /\ call[d] # None
          /\ call[c].count = 1 /\ call[c].window = window[call[c].key]
      BY <2>1, <1>1 DEF FirstIsAlone, CallAt
    <3> QED
      BY <3>1, <1>1 DEF PlacesAreTakenOnce
  <2> QED
    BY <2>1, <1>1 DEF FirstIsAlone, CallAt
<1>5. EndlessCounts' /\ ExpiringCounts'
  <2>1. ASSUME call[c].pc = "expire" PROVE hits[call[c].key] > 0
    <3>1. call[c].count = 1 /\ call[c].window = window[call[c].key]
      BY <2>1, <1>1 DEF FirstIsAlone, CallAt
    <3> QED
      BY <3>1, <1>1, <1>2 DEF CountsAreDrawn, LimiterTypeOK
  <2> QED
    BY <2>1, <1>1 DEF EndlessCounts, ExpiringCounts
<1>6. PlacesAreTakenOnce'
  BY <1>1 DEF PlacesAreTakenOnce
<1>7. CountersExpire'
  <2>1. call[c].pc = "expire" => call[c].key \notin expiring
    BY <1>1 DEF FirstIsAlone, CallAt
  <2>2. ASSUME NEW k \in Counters, hits[k] > 0
        PROVE  \/ k \in expiring' \/ k \in endless'
               \/ \E d \in Calls : CallAt(d, "expire")' /\ call'[d].key = k
    BY <2>2, <1>1 DEF CountersExpire, CallAt
  <2> QED
    BY <2>1, <2>2, <1>1 DEF CountersExpire
<1> QED
  BY <1>3, <1>4, <1>5, <1>6, <1>7

\* A count whose reply is lost is drawn by nobody.
LEMMA IncrUnansweredKeeps ==
  ASSUME LimiterInv, LimiterTypeOK', NEW k \in Counters, IncrUnanswered(k)
  PROVE  LimiterInv'
<1> USE DEF LimiterInv
<1>1. /\ hits \in [Counters -> Nat] /\ hits' = [hits EXCEPT ![k] = hits[k] + 1]
      /\ endless' = IF hits[k] = 0 THEN endless \cup {k} ELSE endless
      /\ UNCHANGED <<expiring, call, window, passed>>
  BY DEF IncrUnanswered, Hit, LimiterTypeOK
<1>2. \A d \in Calls : call[d] # None => call[d].key \in Counters /\ call[d].count \in Nat
                                        /\ call[d].window \in 1 .. MaxWindows
  BY CallIsRecord DEF CallRecord
<1>3. CountsAreDrawn'
  BY <1>1, <1>2, CountsAreNumbers DEF CountsAreDrawn
<1>4. FirstIsAlone'
  <2>1. ASSUME NEW d \in Calls, CallAt(d, "expire") PROVE hits[call[d].key] # 0
    BY <2>1, <1>1, <1>2 DEF FirstIsAlone, CallAt, CountsAreDrawn
  <2> QED
    BY <2>1, <1>1 DEF FirstIsAlone, CallAt
<1>5. EndlessCounts' /\ ExpiringCounts'
  BY <1>1 DEF EndlessCounts, ExpiringCounts, LimiterTypeOK
<1>6. PlacesAreTakenOnce'
  BY <1>1 DEF PlacesAreTakenOnce
<1>7. CountersExpire'
  <2>1. hits[k] = 0 => k \notin expiring
    BY DEF ExpiringCounts
  <2>2. ASSUME NEW l \in Counters, hits'[l] > 0
        PROVE  \/ l \in expiring' \/ l \in endless'
               \/ \E d \in Calls : CallAt(d, "expire")' /\ call'[d].key = l
    BY <2>2, <1>1 DEF CountersExpire, CallAt
  <2> QED
    BY <2>1, <2>2, <1>1 DEF CountersExpire
<1> QED
  BY <1>3, <1>4, <1>5, <1>6, <1>7

\* Counts of the window that ends stay apart from those of the next.
LEMMA WindowEndsKeeps ==
  ASSUME LimiterInv, LimiterTypeOK', NEW k \in Counters, WindowEnds(k)
  PROVE  LimiterInv'
<1> USE DEF LimiterInv
<1>1. /\ k \in expiring /\ expiring' = expiring \ {k}
      /\ hits \in [Counters -> Nat] /\ hits' = [hits EXCEPT ![k] = 0]
      /\ window \in [Counters -> Nat] /\ window' = [window EXCEPT ![k] = window[k] + 1]
      /\ UNCHANGED <<call, passed, endless>>
  BY DEF WindowEnds, LimiterTypeOK
<1>2. \A d \in Calls : call[d] # None => call[d].key \in Counters /\ call[d].count \in Nat
                                        /\ call[d].window \in Nat
  BY CallIsRecord DEF CallRecord
<1>3. CountsAreDrawn'
  BY <1>1, <1>2 DEF CountsAreDrawn
<1>4. FirstIsAlone'
  BY <1>1 DEF FirstIsAlone, CallAt
<1>5. EndlessCounts' /\ ExpiringCounts'
  BY <1>1 DEF EndlessCounts, ExpiringCounts, CountersExpire, LimiterTypeOK
<1>6. PlacesAreTakenOnce'
  BY <1>1 DEF PlacesAreTakenOnce
<1>7. CountersExpire'
  <2>1. ASSUME NEW l \in Counters, hits'[l] > 0
        PROVE  \/ l \in expiring' \/ l \in endless'
               \/ \E d \in Calls : CallAt(d, "expire")' /\ call'[d].key = l
    <3>1. l # k /\ hits[l] > 0
      BY <2>1, <1>1
    <3> QED
      BY <3>1, <1>1 DEF CountersExpire, CallAt
  <2> QED
    BY <2>1, <1>1 DEF CountersExpire
<1> QED
  BY <1>3, <1>4, <1>5, <1>6, <1>7
-----------------------------------------------------------------------------
\* Every step keeps the invariant.
LEMMA LimiterNextKeeps == LimiterInv /\ [LimiterNext]_limiterVars => LimiterInv'
<1> SUFFICES ASSUME LimiterInv, [LimiterNext]_limiterVars PROVE LimiterInv'
  OBVIOUS
<1>1. LimiterTypeOK'
  BY LimiterNextKeepsTypes DEF LimiterInv
<1>2. CASE UNCHANGED limiterVars
  BY <1>2 DEF limiterVars, LimiterInv, LimiterTypeOK, CountsAreDrawn, FirstIsAlone,
     EndlessCounts, ExpiringCounts, PlacesAreTakenOnce, CountersExpire, CallAt
<1> QED
  BY <1>1, <1>2, IncrKeeps, ExpireKeeps, AdmitKeeps, CallFailsKeeps, IncrUnansweredKeeps,
     WindowEndsKeeps DEF LimiterNext

\* Within a window no count is let through twice and none beyond the budget, and a
\* key that counts expires unless the request that had to see to it failed.
THEOREM WindowsAreKept == LimiterSpec => []LimiterKeepsItsWindows
<1>1. LimiterInv => LimiterKeepsItsWindows
  BY DEF LimiterInv, LimiterKeepsItsWindows
<1> QED
  BY <1>1, LimiterInitEstablishes, LimiterNextKeeps, PTL DEF LimiterSpec
-----------------------------------------------------------------------------
(* RabbitConnection: ConnectionIsManaged for any pool size and any number  *)
(* of connections. Its parts lean on what establish() and close() agree    *)
(* about without saying so: a dial begins without a connection and a pool  *)
(* is filled with one (DialsFromNothing), `closed` tells the timer what    *)
(* close() has begun (ClosingIsMarked), and the round-robin index is back  *)
(* inside the pool after one miss (MissesOnce).                            *)

DialsFromNothing ==
  /\ connecting = "dial" => connection = None
  /\ connecting = "fill" => connection # None /\ Len(publishChannels) < PoolSize
  /\ process = "new" => connecting = "no"

ClosingIsMarked ==
  /\ closing = "no" => ~closed
  /\ closing # "no" => process \in {"up", "exited"}
  /\ closing \in {"channels", "connection"} /\ ~raced =>
       closed /\ ~timer /\ connecting # "dial"
  /\ closing = "connection" => publishChannels = <<>>
  /\ process = "exited" => opened = {}

MissesOnce ==
  /\ connection # None => connection <= dialled
  /\ \A l \in Links : l > dialled => missed[l] = 0
  /\ connection # None /\ missed[connection] > 0 =>
       currentIndex < Len(publishChannels) \/ closing = "connection"

RabbitInv ==
  /\ RabbitTypeOK /\ DialsFromNothing /\ ClosingIsMarked /\ MissesOnce
  /\ PoolBelongsToConnection /\ NoLinkIsForgotten /\ LostLinksAreReplaced /\ ClosedStaysClosed
-----------------------------------------------------------------------------
\* The empty pool, and a pool with one more channel.
LEMMA Pools ==
  /\ <<>> \in Seq(Links) /\ Len(<<>>) = 0
  /\ \A pool \in Seq(Links), l \in Links :
       /\ Append(pool, l) \in Seq(Links) /\ Len(Append(pool, l)) = Len(pool) + 1
       /\ \A i \in 1 .. Len(pool) : Append(pool, l)[i] = pool[i]
       /\ Append(pool, l)[Len(pool) + 1] = l
OBVIOUS

\* The initial state satisfies the invariant.
LEMMA RabbitInitEstablishes == RabbitInit => RabbitInv
<1> SUFFICES ASSUME RabbitInit PROVE RabbitInv
  OBVIOUS
<1> USE RabbitAssumption DEF RabbitInit
<1>1. RabbitTypeOK
  <2>1. publishChannels \in Seq(Links) /\ Len(publishChannels) <= PoolSize
    BY Pools
  <2>2. opened \subseteq Links /\ dialled \in 0 .. MaxLinks /\ missed \in [Links -> Nat]
    OBVIOUS
  <2>3. currentIndex \in 0 .. PoolSize - 1
    OBVIOUS
  <2> QED
    BY <2>1, <2>2, <2>3 DEF RabbitTypeOK
<1>2. DialsFromNothing /\ ClosingIsMarked /\ NoLinkIsForgotten
  BY DEF DialsFromNothing, ClosingIsMarked, NoLinkIsForgotten
<1>3. MissesOnce /\ PoolBelongsToConnection
  BY Pools DEF MissesOnce, PoolBelongsToConnection, Links
<1>4. LostLinksAreReplaced /\ ClosedStaysClosed
  BY DEF LostLinksAreReplaced, ClosedStaysClosed
<1> QED
  BY <1>1, <1>2, <1>3, <1>4 DEF RabbitInv

\* connect() begins a dial when there is no connection, and else nothing.
LEMMA ConnectKeeps ==
  ASSUME RabbitInv, Bootstrap \/ TimerFires
  PROVE  RabbitInv'
<1> USE RabbitAssumption DEF RabbitInv, Bootstrap, TimerFires, Connect, Links, RabbitTypeOK
<1>1. RabbitTypeOK'
  OBVIOUS
<1>2. DialsFromNothing' /\ ClosingIsMarked'
  BY DEF DialsFromNothing, ClosingIsMarked
<1>3. MissesOnce'
  BY DEF MissesOnce
<1>4. PoolBelongsToConnection'
  BY DEF PoolBelongsToConnection
<1>5. NoLinkIsForgotten'
  BY DEF NoLinkIsForgotten
<1>6. LostLinksAreReplaced' /\ ClosedStaysClosed'
  BY DEF LostLinksAreReplaced, ClosedStaysClosed, DialsFromNothing, ClosingIsMarked
<1> QED
  BY <1>1, <1>2, <1>3, <1>4, <1>5, <1>6

\* A new connection begins with an empty pool and no misses.
LEMMA DialledKeeps ==
  ASSUME RabbitInv, Dialled
  PROVE  RabbitInv'
<1> USE RabbitAssumption DEF RabbitInv, Dialled, RabbitTypeOK
<1>1. RabbitTypeOK'
  <2>1. dialled + 1 \in Links
    BY DEF Links
  <2>2. publishChannels' \in Seq(Links) /\ Len(publishChannels') <= PoolSize
    BY Pools
  <2>3. opened' \subseteq Links /\ dialled' \in 0 .. MaxLinks
    BY <2>1 DEF Links
  <2> QED
    BY <2>1, <2>2, <2>3
<1>2. DialsFromNothing' /\ ClosingIsMarked'
  BY DEF DialsFromNothing, ClosingIsMarked
<1>3. MissesOnce'
  BY DEF MissesOnce, Links
<1>4. PoolBelongsToConnection'
  BY DEF PoolBelongsToConnection
<1>5. NoLinkIsForgotten'
  BY DEF NoLinkIsForgotten, DialsFromNothing
<1>6. LostLinksAreReplaced' /\ ClosedStaysClosed'
  BY DEF LostLinksAreReplaced, ClosedStaysClosed, ClosingIsMarked
<1> QED
  BY <1>1, <1>2, <1>3, <1>4, <1>5, <1>6

\* A rejected establish() leaves what it had got.
LEMMA EstablishFailsKeeps ==
  ASSUME RabbitInv, EstablishFails
  PROVE  RabbitInv'
<1> USE RabbitAssumption DEF RabbitInv, EstablishFails, Rejected, Exit, Links, RabbitTypeOK
<1>1. RabbitTypeOK'
  OBVIOUS
<1>2. DialsFromNothing' /\ ClosingIsMarked'
  BY DEF DialsFromNothing, ClosingIsMarked
<1>3. MissesOnce'
  BY DEF MissesOnce
<1>4. PoolBelongsToConnection'
  BY DEF PoolBelongsToConnection
<1>5. NoLinkIsForgotten'
  BY DEF NoLinkIsForgotten
<1>6. LostLinksAreReplaced' /\ ClosedStaysClosed'
  BY DEF LostLinksAreReplaced, ClosedStaysClosed, DialsFromNothing, ClosingIsMarked
<1> QED
  BY <1>1, <1>2, <1>3, <1>4, <1>5, <1>6

\* The pool grows by a channel of the connection.
LEMMA ChannelOpenedKeeps ==
  ASSUME RabbitInv, ChannelOpened
  PROVE  RabbitInv'
<1> USE RabbitAssumption DEF RabbitInv, ChannelOpened, Links, RabbitTypeOK
<1>1. RabbitTypeOK'
  BY Pools DEF DialsFromNothing
<1>2. DialsFromNothing' /\ ClosingIsMarked'
  BY DEF DialsFromNothing, ClosingIsMarked
<1>3. MissesOnce'
  BY DEF MissesOnce, DialsFromNothing
<1>4. PoolBelongsToConnection'
  BY DEF PoolBelongsToConnection, DialsFromNothing
<1>5. NoLinkIsForgotten'
  BY DEF NoLinkIsForgotten
<1>6. LostLinksAreReplaced' /\ ClosedStaysClosed'
  BY DEF LostLinksAreReplaced, ClosedStaysClosed, DialsFromNothing, ClosingIsMarked
<1> QED
  BY <1>1, <1>2, <1>3, <1>4, <1>5, <1>6

\* A lost connection takes its pool along, and sets the timer unless close() began.
LEMMA ConnectionIsLostKeeps ==
  ASSUME RabbitInv, ConnectionIsLost
  PROVE  RabbitInv'
<1> USE RabbitAssumption DEF RabbitInv, ConnectionIsLost, OnClose, Links, RabbitTypeOK
<1>1. RabbitTypeOK'
  OBVIOUS
<1>2. DialsFromNothing' /\ ClosingIsMarked'
  BY DEF DialsFromNothing, ClosingIsMarked, NoLinkIsForgotten
<1>3. MissesOnce'
  BY DEF MissesOnce
<1>4. PoolBelongsToConnection'
  BY DEF PoolBelongsToConnection
<1>5. NoLinkIsForgotten'
  BY DEF NoLinkIsForgotten
<1>6. LostLinksAreReplaced' /\ ClosedStaysClosed'
  BY DEF LostLinksAreReplaced, ClosedStaysClosed, DialsFromNothing, ClosingIsMarked
<1> QED
  BY <1>1, <1>2, <1>3, <1>4, <1>5, <1>6

\* close() begins, and knows whether it met a reconnect.
LEMMA CloseKeeps ==
  ASSUME RabbitInv, Close
  PROVE  RabbitInv'
<1> USE RabbitAssumption DEF RabbitInv, Close, Links, RabbitTypeOK
<1>1. RabbitTypeOK'
  OBVIOUS
<1>2. DialsFromNothing' /\ ClosingIsMarked'
  BY DEF DialsFromNothing, ClosingIsMarked
<1>3. MissesOnce'
  BY DEF MissesOnce
<1>4. PoolBelongsToConnection'
  BY DEF PoolBelongsToConnection
<1>5. NoLinkIsForgotten'
  BY DEF NoLinkIsForgotten
<1>6. LostLinksAreReplaced' /\ ClosedStaysClosed'
  BY DEF LostLinksAreReplaced, ClosedStaysClosed, DialsFromNothing, ClosingIsMarked, NoLinkIsForgotten
<1> QED
  BY <1>1, <1>2, <1>3, <1>4, <1>5, <1>6

\* close() closes the channels, then the connection.
LEMMA CloseStepKeeps ==
  ASSUME RabbitInv, CloseChannels \/ CloseConnection
  PROVE  RabbitInv'
<1> USE RabbitAssumption DEF RabbitInv, CloseChannels, CloseConnection, RabbitTypeOK
<1>1. RabbitTypeOK'
  <2>1. publishChannels' = <<>>
    OBVIOUS
  <2>2. publishChannels' \in Seq(Links) /\ Len(publishChannels') <= PoolSize
    BY <2>1, Pools
  <2>3. opened' \subseteq Links
    OBVIOUS
  <2> QED
    BY <2>2, <2>3
<1>2. DialsFromNothing' /\ ClosingIsMarked'
  BY DEF DialsFromNothing, ClosingIsMarked
<1>3. MissesOnce'
  BY DEF MissesOnce, Links
<1>4. PoolBelongsToConnection'
  BY DEF PoolBelongsToConnection
<1>5. NoLinkIsForgotten'
  BY DEF NoLinkIsForgotten
<1>6. LostLinksAreReplaced'
  BY DEF LostLinksAreReplaced
<1>7. ClosedStaysClosed'
  <2>1. CASE CloseChannels
    BY <2>1 DEF ClosedStaysClosed, DialsFromNothing, ClosingIsMarked, NoLinkIsForgotten
  <2>2. CASE CloseConnection
    BY <2>2 DEF ClosedStaysClosed, DialsFromNothing, ClosingIsMarked, NoLinkIsForgotten
  <2> QED
    BY <2>1, <2>2
<1> QED
  BY <1>1, <1>2, <1>3, <1>4, <1>5, <1>6, <1>7

\* The process exits.
LEMMA ShutdownKeeps ==
  ASSUME RabbitInv, Shutdown
  PROVE  RabbitInv'
<1> USE RabbitAssumption DEF RabbitInv, Shutdown, Exit, Links, RabbitTypeOK
<1>1. RabbitTypeOK'
  OBVIOUS
<1>2. DialsFromNothing' /\ ClosingIsMarked'
  BY DEF DialsFromNothing, ClosingIsMarked
<1>3. MissesOnce'
  BY DEF MissesOnce
<1>4. PoolBelongsToConnection'
  BY DEF PoolBelongsToConnection
<1>5. NoLinkIsForgotten'
  BY DEF NoLinkIsForgotten
<1>6. LostLinksAreReplaced' /\ ClosedStaysClosed'
  BY DEF LostLinksAreReplaced, ClosedStaysClosed
<1> QED
  BY <1>1, <1>2, <1>3, <1>4, <1>5, <1>6

\* A publisher takes the next channel: after a miss the index is inside the pool.
LEMMA GetChannelKeeps ==
  ASSUME RabbitInv, GetPublishChannel
  PROVE  RabbitInv'
<1> USE RabbitAssumption DEF RabbitInv, GetPublishChannel, Links, RabbitTypeOK
<1>0. /\ connection \in Links /\ Len(publishChannels) \in 1 .. PoolSize
      /\ currentIndex' \in 0 .. Len(publishChannels) - 1
      /\ missed' = IF currentIndex < Len(publishChannels) THEN missed
                   ELSE [missed EXCEPT ![connection] = @ + 1]
      /\ UNCHANGED <<process, connection, publishChannels, closed, connecting, timer,
                     closing, opened, dialled, gaveUp, raced>>
  <2>1. Len(publishChannels) \in 1 .. PoolSize /\ publishChannels[1] = connection
    BY DEF PoolBelongsToConnection
  <2>2. connection \in Links
    BY <2>1
  <2>3. \A i \in Nat, n \in Nat \ {0} : i % n \in 0 .. n - 1
    OBVIOUS
  <2>4. currentIndex + 1 \in Nat /\ Len(publishChannels) \in Nat \ {0}
    BY <2>1
  <2>5. currentIndex' = (currentIndex + 1) % Len(publishChannels)
    OBVIOUS
  <2>6. currentIndex' \in 0 .. Len(publishChannels) - 1
    <3>1. (currentIndex + 1) % Len(publishChannels) \in 0 .. Len(publishChannels) - 1
      BY <2>3, <2>4, Zenon
    <3> QED
      BY <2>5, <3>1, Zenon
  <2> QED
    BY <2>1, <2>2, <2>6
<1> HIDE DEF GetPublishChannel
<1>1. RabbitTypeOK'
  <2>1. missed' \in [Links -> Nat]
    BY <1>0
  <2>2. currentIndex' \in 0 .. PoolSize - 1
    BY <1>0
  <2> QED
    BY <1>0, <2>1, <2>2
<1>2. DialsFromNothing' /\ ClosingIsMarked'
  BY <1>0 DEF DialsFromNothing, ClosingIsMarked
<1>3. MissesOnce'
  BY <1>0 DEF MissesOnce
<1>4. PoolBelongsToConnection'
  <2>1. \A i \in 1 .. Len(publishChannels') : publishChannels'[i] = connection'
    BY <1>0 DEF PoolBelongsToConnection
  <2>2. ~(currentIndex < Len(publishChannels)) => missed[connection] = 0
    BY <1>0 DEF MissesOnce, ClosingIsMarked
  <2>3. \A l \in Links : missed'[l] <= 1
    BY <1>0, <2>2 DEF PoolBelongsToConnection
  <2> QED
    BY <2>1, <2>3 DEF PoolBelongsToConnection
<1>5. NoLinkIsForgotten'
  BY <1>0 DEF NoLinkIsForgotten
<1>6. LostLinksAreReplaced' /\ ClosedStaysClosed'
  BY <1>0 DEF LostLinksAreReplaced, ClosedStaysClosed
<1> QED
  BY <1>1, <1>2, <1>3, <1>4, <1>5, <1>6
-----------------------------------------------------------------------------
\* Every step keeps the invariant.
LEMMA RabbitNextKeeps == RabbitInv /\ [RabbitNext]_rabbitVars => RabbitInv'
<1> SUFFICES ASSUME RabbitInv, [RabbitNext]_rabbitVars PROVE RabbitInv'
  OBVIOUS
<1>1. CASE UNCHANGED rabbitVars
  BY <1>1 DEF rabbitVars, RabbitInv, RabbitTypeOK, DialsFromNothing, ClosingIsMarked, MissesOnce,
              PoolBelongsToConnection, NoLinkIsForgotten, LostLinksAreReplaced, ClosedStaysClosed
<1> QED
  BY <1>1, ConnectKeeps, DialledKeeps, EstablishFailsKeeps, ChannelOpenedKeeps,
     ConnectionIsLostKeeps, GetChannelKeeps, CloseKeeps, CloseStepKeeps, ShutdownKeeps
     DEF RabbitNext

\* The inductive invariant holds in every reachable state.
LEMMA RabbitInvariant == RabbitSpec => []RabbitInv
BY RabbitInitEstablishes, RabbitNextKeeps, PTL DEF RabbitSpec

\* The manager's fields stay of their types and the pool within its size
\* (connection.ts:11-18, 52-56).
THEOREM RabbitTypeCorrect == RabbitSpec => []RabbitTypeOK
<1>1. RabbitInv => RabbitTypeOK
  BY DEF RabbitInv
<1> QED
  BY <1>1, RabbitInvariant, PTL

\* For any pool size and any number of losses and reconnects, the pool belongs to
\* the one open connection, a lost one is replaced unless an attempt failed, and
\* close() is final unless it met a reconnect (connection.ts:20-99).
THEOREM ManagerKeepsHold == RabbitSpec => []ConnectionIsManaged
<1>1. RabbitInv => ConnectionIsManaged
  BY DEF RabbitInv, ConnectionIsManaged
<1> QED
  BY <1>1, RabbitInvariant, PTL
-----------------------------------------------------------------------------
(* MediaService: ObjectsMatchRows for any number of files, clients and     *)
(* requests. The two halves of the property need to know that nobody else  *)
(* works on a key until its row is written (UploadsAreAlone), that a key   *)
(* is used by nothing before it is issued (KeysAreIssued), and that a      *)
(* deletion about to drop its row leaves no object that is not accounted   *)
(* for (DeletionsClear).                                                   *)

Creating(w) == working[w] # None /\ working[w].pc \in {"put", "upload.create", "presigned.create"}

\* Until its row is written a key is its upload's alone; and the row comes last.
UploadsAreAlone ==
  \A w \in Workers : Creating(w) =>
    /\ media[working[w].key] = None /\ working[w].key \in issued
    /\ working[w].pc = "upload.create" => working[w].key \in objects
    /\ \A v \in Workers \ {w} : working[v] # None => working[v].key # working[w].key

KeysAreIssued ==
  /\ \A k \in Media \ issued : media[k] = None /\ k \notin objects \cup grants
  /\ \A w \in Workers : working[w] # None => working[w].key \in issued

DeletionsClear == \A k \in objects : Deleting(k) => k \in unremoved \cup late

MediaInv ==
  /\ MediaTypeOK /\ UploadsAreAlone /\ KeysAreIssued /\ DeletionsClear
  /\ ReadyMeansStored /\ ObjectsAreFound
-----------------------------------------------------------------------------
\* A request in progress is a record.
LEMMA WorkIsRecord ==
  ASSUME MediaTypeOK, NEW w \in Workers, working[w] # None
  PROVE  /\ working[w] \in Working /\ working[w].key \in Media /\ working[w].by \in Uploaders
         /\ working[w].image \in BOOLEAN
BY DEF MediaTypeOK, Working

\* The initial state satisfies the invariant.
LEMMA MediaInitEstablishes == MediaInit => MediaInv
BY DEF MediaInit, MediaInv, MediaTypeOK, Creating, UploadsAreAlone, KeysAreIssued,
       DeletionsClear, ReadyMeansStored, ObjectsAreFound, Deleting, WorkAt

\* What a request does next is a record again.
LEMMA GotoTypes ==
  ASSUME MediaTypeOK, NEW w \in Workers, working[w] # None,
         NEW pc \in UploadPCs \cup DeletePCs, Goto(w, pc)
  PROVE  /\ working' \in [Workers -> Working \cup {None}]
         /\ working'[w] # None /\ working'[w].pc = pc
         /\ working'[w].key = working[w].key /\ working'[w].by = working[w].by
         /\ \A v \in Workers \ {w} : working'[v] = working[v]
<1> DEFINE next == [working[w] EXCEPT !.pc = pc]
<1>1. next \in Working /\ next.pc = pc /\ next.key = working[w].key /\ next.by = working[w].by
  BY WorkIsRecord DEF Working
<1>2. working' = [working EXCEPT ![w] = next]
  BY DEF Goto
<1> HIDE DEF next
<1> QED
  BY <1>1, <1>2, MediaAssumption DEF MediaTypeOK

\* A request that ends.
LEMMA DoneTypes ==
  ASSUME MediaTypeOK, NEW w \in Workers, Done(w)
  PROVE  /\ working' \in [Workers -> Working \cup {None}] /\ working'[w] = None
         /\ \A v \in Workers \ {w} : working'[v] = working[v]
BY DEF Done, MediaTypeOK

\* A request that begins.
LEMMA BeginTypes ==
  ASSUME MediaTypeOK, NEW w \in Workers, NEW k \in Media, NEW u \in Uploaders,
         NEW image \in BOOLEAN, NEW pc \in UploadPCs \cup DeletePCs \cup {"presigned.create"},
         Begin(w, k, u, image, pc)
  PROVE  /\ working' \in [Workers -> Working \cup {None}] /\ working[w] = None
         /\ working'[w] # None /\ working'[w].key = k /\ working'[w].pc = pc
         /\ \A v \in Workers \ {w} : working'[v] = working[v]
         /\ UNCHANGED <<media, objects, grants, events, unrecorded, unremoved, late, undeleted>>
<1> DEFINE new == [key |-> k, by |-> u, image |-> image, pc |-> pc]
<1>1. new \in Working /\ new.key = k /\ new.pc = pc
  BY DEF Working
<1>2. working' = [working EXCEPT ![w] = new]
  BY DEF Begin
<1> HIDE DEF new
<1> QED
  BY <1>1, <1>2, MediaAssumption DEF MediaTypeOK, Begin

\* A row that is written.
LEMMA NewMediaTypes ==
  ASSUME MediaTypeOK, NEW w \in Workers, working[w] # None, NEW status \in MediaStatus,
         NewMedia(w, status)
  PROVE  /\ media' \in [Media -> MediaRow \cup {None}]
         /\ media'[working[w].key] # None /\ media'[working[w].key].status = status
         /\ \A k \in Media \ {working[w].key} : media'[k] = media[k]
<1> DEFINE new == [uploader |-> working[w].by, status |-> status]
<1>1. new \in MediaRow /\ new.status = status
  BY WorkIsRecord DEF MediaRow
<1>2. media' = [media EXCEPT ![working[w].key] = new]
  BY DEF NewMedia
<1> HIDE DEF new
<1> QED
  BY <1>1, <1>2, WorkIsRecord, MediaAssumption DEF MediaTypeOK
-----------------------------------------------------------------------------
\* An upload begins with a key nobody has.
LEMMA UploadKeeps ==
  ASSUME MediaInv, NEW w \in Workers, NEW k \in Media, NEW u \in Uploaders,
         NEW image \in BOOLEAN, Upload(w, k, u, image) \/ CreatePresigned(w, k, u)
  PROVE  MediaInv'
<1> USE DEF MediaInv
<1>1. PICK pc \in {"put", "presigned.create"} :
        /\ working' \in [Workers -> Working \cup {None}] /\ working[w] = None
        /\ working'[w] # None /\ working'[w].key = k /\ working'[w].pc = pc
        /\ \A v \in Workers \ {w} : working'[v] = working[v]
        /\ UNCHANGED <<media, objects, grants, events, unrecorded, unremoved, late, undeleted>>
  <2>1. CASE Upload(w, k, u, image)
    BY <2>1, BeginTypes DEF Upload, UploadPCs
  <2>2. CASE CreatePresigned(w, k, u)
    <3>1. Begin(w, k, u, FALSE, "presigned.create") /\ FALSE \in BOOLEAN
      BY <2>2 DEF CreatePresigned
    <3> QED
      BY <3>1, BeginTypes
  <2> QED
    BY <2>1, <2>2
<1>2. k \notin issued /\ issued' = issued \cup {k}
  BY DEF Upload, CreatePresigned, BuildKey
<1>3. MediaTypeOK'
  BY <1>1, <1>2 DEF MediaTypeOK
<1>4. UploadsAreAlone'
  BY <1>1, <1>2 DEF UploadsAreAlone, KeysAreIssued, Creating
<1>5. KeysAreIssued'
  BY <1>1, <1>2 DEF KeysAreIssued
<1>6. \A l \in Media : Deleting(l)' <=> Deleting(l)
  BY <1>1 DEF Deleting, WorkAt
<1>7. DeletionsClear' /\ ReadyMeansStored'
  BY <1>1, <1>6 DEF DeletionsClear, ReadyMeansStored, MediaTypeOK
<1>8. ObjectsAreFound'
  BY <1>1 DEF ObjectsAreFound, WorkAt
<1> QED
  BY <1>3, <1>4, <1>5, <1>7, <1>8

\* A deletion begins with a key that has a row.
LEMMA DeleteKeeps ==
  ASSUME MediaInv, NEW w \in Workers, NEW k \in Media, NEW u \in Uploaders, Delete(w, k, u)
  PROVE  MediaInv'
<1> USE DEF MediaInv
<1>1. /\ working' \in [Workers -> Working \cup {None}] /\ working[w] = None
      /\ working'[w] # None /\ working'[w].key = k /\ working'[w].pc = "remove"
      /\ \A v \in Workers \ {w} : working'[v] = working[v]
      /\ UNCHANGED <<media, objects, grants, events, unrecorded, unremoved, late, undeleted>>
      /\ media[k] # None /\ UNCHANGED issued
  <2>1. Begin(w, k, u, FALSE, "remove") /\ FALSE \in BOOLEAN
    BY DEF Delete
  <2> QED
    BY <2>1, BeginTypes DEF Delete, DeletePCs
<1>2. MediaTypeOK'
  BY <1>1 DEF MediaTypeOK
<1>3. UploadsAreAlone'
  BY <1>1 DEF UploadsAreAlone, Creating
<1>4. KeysAreIssued'
  BY <1>1 DEF KeysAreIssued
<1>5. \A l \in Media : Deleting(l)' <=> Deleting(l)
  BY <1>1 DEF Deleting, WorkAt
<1>6. DeletionsClear' /\ ReadyMeansStored'
  BY <1>1, <1>5 DEF DeletionsClear, ReadyMeansStored, MediaTypeOK
<1>7. ObjectsAreFound'
  BY <1>1 DEF ObjectsAreFound, WorkAt
<1> QED
  BY <1>2, <1>3, <1>4, <1>6, <1>7

\* An object is stored, and its row is written next.
LEMMA PutObjectKeeps ==
  ASSUME MediaInv, NEW w \in Workers, PutObject(w)
  PROVE  MediaInv'
<1> USE DEF MediaInv
<1> DEFINE k == working[w].key
<1>1. /\ working[w] # None /\ working[w].pc = "put" /\ objects' = objects \cup {k}
      /\ UNCHANGED <<issued, media, grants, events, unrecorded, unremoved, late, undeleted>>
  BY DEF PutObject, WorkAt
<1>2. /\ working' \in [Workers -> Working \cup {None}]
      /\ working'[w] # None /\ working'[w].pc = "upload.create" /\ working'[w].key = k
      /\ \A v \in Workers \ {w} : working'[v] = working[v]
  BY <1>1, GotoTypes DEF PutObject, UploadPCs
<1>3. k \in Media /\ media[k] = None /\ k \in issued
      /\ \A v \in Workers \ {w} : working[v] # None => working[v].key # k
  BY <1>1, WorkIsRecord DEF UploadsAreAlone, Creating
<1> HIDE DEF k
<1>4. MediaTypeOK'
  BY <1>1, <1>2, <1>3 DEF MediaTypeOK
<1>5. UploadsAreAlone'
  <2> SUFFICES ASSUME NEW v \in Workers, Creating(v)'
               PROVE  /\ media'[working'[v].key] = None /\ working'[v].key \in issued'
                      /\ working'[v].pc = "upload.create" => working'[v].key \in objects'
                      /\ \A x \in Workers \ {v} :
                           working'[x] # None => working'[x].key # working'[v].key
    BY DEF UploadsAreAlone
  <2>1. CASE v = w
    BY <2>1, <1>1, <1>2, <1>3
  <2>2. CASE v # w
    BY <2>2, <1>1, <1>2, <1>3 DEF UploadsAreAlone, Creating, k
  <2> QED
    BY <2>1, <2>2
<1>6. KeysAreIssued'
  BY <1>1, <1>2, <1>3 DEF KeysAreIssued
<1>7. \A l \in Media : Deleting(l)' <=> Deleting(l)
  BY <1>1, <1>2 DEF Deleting, WorkAt
<1>8. ~Deleting(k)
  BY <1>1, <1>3 DEF Deleting, WorkAt
<1>9. DeletionsClear' /\ ReadyMeansStored'
  BY <1>1, <1>3, <1>7, <1>8 DEF DeletionsClear, ReadyMeansStored, MediaTypeOK
<1>10. ObjectsAreFound'
  BY <1>1, <1>2, <1>3 DEF ObjectsAreFound, WorkAt
<1> QED
  BY <1>4, <1>5, <1>6, <1>9, <1>10

\* The object is stored and its answer is lost.
LEMMA PutUnansweredKeeps ==
  ASSUME MediaInv, NEW w \in Workers, PutUnanswered(w)
  PROVE  MediaInv'
<1> USE DEF MediaInv
<1> DEFINE k == working[w].key
<1>1. /\ working[w] # None /\ working[w].pc = "put" /\ objects' = objects \cup {k}
      /\ unrecorded' = unrecorded \cup {k}
      /\ UNCHANGED <<issued, media, grants, events, unremoved, late, undeleted>>
  BY DEF PutUnanswered, WorkAt
<1>2. /\ working' \in [Workers -> Working \cup {None}] /\ working'[w] = None
      /\ \A v \in Workers \ {w} : working'[v] = working[v]
  BY DoneTypes DEF PutUnanswered
<1>3. k \in Media /\ media[k] = None /\ k \in issued
      /\ \A v \in Workers \ {w} : working[v] # None => working[v].key # k
  BY <1>1, WorkIsRecord DEF UploadsAreAlone, Creating
<1> HIDE DEF k
<1>4. MediaTypeOK'
  BY <1>1, <1>2, <1>3 DEF MediaTypeOK
<1>5. UploadsAreAlone'
  BY <1>1, <1>2 DEF UploadsAreAlone, Creating
<1>6. KeysAreIssued'
  BY <1>1, <1>2, <1>3 DEF KeysAreIssued
<1>7. \A l \in Media : Deleting(l)' <=> Deleting(l)
  BY <1>1, <1>2 DEF Deleting, WorkAt
<1>8. ~Deleting(k)
  BY <1>1, <1>3 DEF Deleting, WorkAt
<1>9. DeletionsClear' /\ ReadyMeansStored'
  BY <1>1, <1>3, <1>7, <1>8 DEF DeletionsClear, ReadyMeansStored, MediaTypeOK
<1>10. ObjectsAreFound'
  BY <1>1, <1>2, <1>3 DEF ObjectsAreFound, WorkAt
<1> QED
  BY <1>4, <1>5, <1>6, <1>9, <1>10

\* The row of an upload is written: only for an object that is stored may it say
\* READY.
LEMMA CreateKeeps ==
  ASSUME MediaInv, NEW w \in Workers, CreateReady(w) \/ CreateProcessing(w)
  PROVE  MediaInv'
<1> USE DEF MediaInv
<1> DEFINE k == working[w].key
<1>1. PICK status \in MediaStatus :
        /\ Creating(w) /\ NewMedia(w, status)
        /\ status = "READY" => working[w].pc = "upload.create"
  BY DEF CreateReady, CreateProcessing, Creating, WorkAt, MediaStatus
<1>2. /\ working[w] # None /\ (Goto(w, "resize") \/ Done(w))
      /\ grants \subseteq grants' /\ grants' \subseteq grants \cup {k}
      /\ UNCHANGED <<issued, objects, events, unrecorded, unremoved, late, undeleted>>
  BY DEF CreateReady, CreateProcessing, WorkAt
<1>3. /\ working' \in [Workers -> Working \cup {None}]
      /\ working'[w] # None => working'[w].key = k /\ working'[w].pc = "resize"
      /\ \A v \in Workers \ {w} : working'[v] = working[v]
  BY <1>2, GotoTypes, DoneTypes DEF UploadPCs
<1>4. /\ media' \in [Media -> MediaRow \cup {None}] /\ media'[k] # None
      /\ media'[k].status = status /\ \A l \in Media \ {k} : media'[l] = media[l]
  BY <1>1, <1>2, NewMediaTypes
<1>5. /\ k \in Media /\ k \in issued
      /\ working[w].pc = "upload.create" => k \in objects
      /\ \A v \in Workers \ {w} : working[v] # None => working[v].key # k
  BY <1>1, <1>2, WorkIsRecord DEF UploadsAreAlone
<1> HIDE DEF k
<1>6. MediaTypeOK'
  BY <1>2, <1>3, <1>4, <1>5 DEF MediaTypeOK
<1>7. UploadsAreAlone'
  <2> SUFFICES ASSUME NEW v \in Workers, Creating(v)'
               PROVE  /\ media'[working'[v].key] = None /\ working'[v].key \in issued'
                      /\ working'[v].pc = "upload.create" => working'[v].key \in objects'
                      /\ \A x \in Workers \ {v} :
                           working'[x] # None => working'[x].key # working'[v].key
    BY DEF UploadsAreAlone
  <2>1. v # w
    BY <1>3 DEF Creating
  <2>2. Creating(v) /\ working[v].key \in Media /\ working[v].key # k
    BY <2>1, <1>3, <1>5, WorkIsRecord DEF Creating
  <2> QED
    BY <2>1, <2>2, <1>2, <1>3, <1>4, <1>5 DEF UploadsAreAlone, k
<1>8. KeysAreIssued'
  BY <1>2, <1>3, <1>4, <1>5 DEF KeysAreIssued
<1>9. \A l \in Media : Deleting(l)' <=> Deleting(l)
  BY <1>1, <1>2, <1>3 DEF Deleting, WorkAt, Creating
<1>10. DeletionsClear'
  BY <1>2, <1>9 DEF DeletionsClear, MediaTypeOK
<1>11. ReadyMeansStored'
  BY <1>1, <1>2, <1>4, <1>5, <1>9 DEF ReadyMeansStored
<1>12. ObjectsAreFound'
  <2> SUFFICES ASSUME NEW l \in objects, l # k
               PROVE  \/ media'[l] # None
                      \/ \E v \in Workers : WorkAt(v, "upload.create")' /\ working'[v].key = l
                      \/ l \in unrecorded \cup unremoved \cup late
    BY <1>2, <1>4 DEF ObjectsAreFound
  <2> QED
    BY <1>3, <1>4 DEF ObjectsAreFound, WorkAt, MediaTypeOK, k
<1> QED
  BY <1>6, <1>7, <1>8, <1>10, <1>11, <1>12

\* The events of an upload touch neither the bucket nor the table.
LEMMA PublishKeeps ==
  ASSUME MediaInv, NEW w \in Workers, PublishResize(w) \/ PublishThumbnail(w)
  PROVE  MediaInv'
<1> USE DEF MediaInv
<1>1. /\ working[w] # None /\ working[w].pc \in {"resize", "thumbnail"}
      /\ Goto(w, "thumbnail") \/ Done(w)
      /\ UNCHANGED <<issued, media, objects, grants, unrecorded, unremoved, late, undeleted>>
  BY DEF PublishResize, PublishThumbnail, WorkAt
<1>2. events' \subseteq Media \X {"resize", "thumbnail"}
  BY <1>1, WorkIsRecord DEF PublishResize, PublishThumbnail, MediaTypeOK
<1>3. /\ working' \in [Workers -> Working \cup {None}]
      /\ working'[w] # None => working'[w].key = working[w].key /\ working'[w].pc = "thumbnail"
      /\ \A v \in Workers \ {w} : working'[v] = working[v]
  BY <1>1, GotoTypes, DoneTypes DEF UploadPCs
<1>4. MediaTypeOK'
  BY <1>1, <1>2, <1>3 DEF MediaTypeOK
<1>5. UploadsAreAlone'
  BY <1>1, <1>3 DEF UploadsAreAlone, Creating
<1>6. KeysAreIssued'
  BY <1>1, <1>3 DEF KeysAreIssued
<1>7. \A l \in Media : Deleting(l)' <=> Deleting(l)
  BY <1>1, <1>3 DEF Deleting, WorkAt
<1>8. DeletionsClear' /\ ReadyMeansStored'
  BY <1>1, <1>7 DEF DeletionsClear, ReadyMeansStored, MediaTypeOK
<1>9. ObjectsAreFound'
  BY <1>1, <1>3 DEF ObjectsAreFound, WorkAt
<1> QED
  BY <1>4, <1>5, <1>6, <1>8, <1>9

\* A deletion takes the object out of the bucket, or cannot: either way it goes on
\* to the row, and the file counts as being deleted.
LEMMA RemoveKeeps ==
  ASSUME MediaInv, NEW w \in Workers, RemoveObject(w) \/ RemoveFails(w)
  PROVE  MediaInv'
<1> USE DEF MediaInv
<1>1. working[w] # None
  BY DEF RemoveObject, RemoveFails, WorkAt
<1>2. PICK k \in Media : k = working[w].key
  BY <1>1, WorkIsRecord
<1>3. /\ working[w] # None /\ working[w].pc = "remove" /\ Goto(w, "destroy")
      /\ objects' \subseteq objects /\ objects \ {k} \subseteq objects'
      /\ unremoved \subseteq unremoved' /\ unremoved' \subseteq unremoved \cup {k}
      /\ k \in objects' => k \in unremoved'
      /\ UNCHANGED <<issued, media, grants, events, unrecorded, late, undeleted>>
  BY <1>2 DEF RemoveObject, RemoveFails, WorkAt
<1>4. /\ working' \in [Workers -> Working \cup {None}]
      /\ working'[w] # None /\ working'[w].pc = "destroy" /\ working'[w].key = k
      /\ \A v \in Workers \ {w} : working'[v] = working[v]
  BY <1>2, <1>3, GotoTypes DEF DeletePCs
<1>5. \A v \in Workers : Creating(v) => v # w /\ working[v].key # k
  BY <1>2, <1>3 DEF UploadsAreAlone, Creating
<1>6. MediaTypeOK'
  BY <1>2, <1>3, <1>4 DEF MediaTypeOK
<1>7. UploadsAreAlone'
  <2> SUFFICES ASSUME NEW v \in Workers, Creating(v)'
               PROVE  /\ media'[working'[v].key] = None /\ working'[v].key \in issued'
                      /\ working'[v].pc = "upload.create" => working'[v].key \in objects'
                      /\ \A x \in Workers \ {v} :
                           working'[x] # None => working'[x].key # working'[v].key
    BY DEF UploadsAreAlone
  <2>1. v # w /\ Creating(v) /\ working[v].key # k
    BY <1>4, <1>5 DEF Creating
  <2> QED
    BY <2>1, <1>2, <1>3, <1>4 DEF UploadsAreAlone
<1>8. KeysAreIssued'
  BY <1>2, <1>3, <1>4 DEF KeysAreIssued
<1>9. Deleting(k)' /\ \A l \in Media \ {k} : Deleting(l)' => Deleting(l)
  BY <1>2, <1>3, <1>4 DEF Deleting, WorkAt
<1>10. \A l \in Media : Deleting(l) => Deleting(l)'
  BY <1>2, <1>3, <1>4 DEF Deleting, WorkAt
<1>11. DeletionsClear'
  BY <1>3, <1>9 DEF DeletionsClear, MediaTypeOK
<1>12. ReadyMeansStored'
  BY <1>3, <1>9, <1>10 DEF ReadyMeansStored
<1>13. ObjectsAreFound'
  BY <1>3, <1>4 DEF ObjectsAreFound, WorkAt
<1> QED
  BY <1>6, <1>7, <1>8, <1>11, <1>12, <1>13

\* A deletion drops its row: the object it leaves, if any, is accounted for.
LEMMA DestroyKeeps ==
  ASSUME MediaInv, NEW w \in Workers, Destroy(w)
  PROVE  MediaInv'
<1> USE DEF MediaInv
<1> DEFINE k == working[w].key
<1>1. /\ working[w] # None /\ working[w].pc = "destroy"
      /\ media' = [media EXCEPT ![k] = None]
      /\ UNCHANGED <<issued, objects, grants, events, unrecorded, unremoved, late, undeleted>>
  BY DEF Destroy, WorkAt
<1>2. /\ working' \in [Workers -> Working \cup {None}] /\ working'[w] = None
      /\ \A v \in Workers \ {w} : working'[v] = working[v]
  BY DoneTypes DEF Destroy
<1>3. k \in Media /\ Deleting(k)
  BY <1>1, WorkIsRecord DEF Deleting, WorkAt
<1> HIDE DEF k
<1>4. media'[k] = None /\ \A l \in Media \ {k} : media'[l] = media[l]
  BY <1>1, <1>3 DEF MediaTypeOK
<1>5. MediaTypeOK'
  BY <1>1, <1>2 DEF MediaTypeOK
<1>6. UploadsAreAlone'
  <2> SUFFICES ASSUME NEW v \in Workers, Creating(v)'
               PROVE  /\ media'[working'[v].key] = None /\ working'[v].key \in issued'
                      /\ working'[v].pc = "upload.create" => working'[v].key \in objects'
                      /\ \A x \in Workers \ {v} :
                           working'[x] # None => working'[x].key # working'[v].key
    BY DEF UploadsAreAlone
  <2>1. v # w /\ Creating(v) /\ working[v].key \in Media
    BY <1>2, WorkIsRecord DEF Creating
  <2> QED
    BY <2>1, <1>1, <1>2, <1>4 DEF UploadsAreAlone
<1>7. KeysAreIssued'
  BY <1>1, <1>2, <1>4 DEF KeysAreIssued
<1>8. \A l \in Media \ {k} : Deleting(l)' <=> Deleting(l)
  BY <1>1, <1>2 DEF Deleting, WorkAt, k
<1>9. \A l \in Media : Deleting(l)' => Deleting(l)
  BY <1>2 DEF Deleting, WorkAt
<1>10. DeletionsClear'
  BY <1>1, <1>9 DEF DeletionsClear, MediaTypeOK
<1>11. ReadyMeansStored'
  BY <1>1, <1>4, <1>8 DEF ReadyMeansStored
<1>12. ObjectsAreFound'
  BY <1>1, <1>2, <1>3, <1>4 DEF ObjectsAreFound, DeletionsClear, WorkAt, MediaTypeOK
<1> QED
  BY <1>5, <1>6, <1>7, <1>10, <1>11, <1>12

\* A request ends early, and what it leaves half done is accounted for.
LEMMA WorkFailsKeeps ==
  ASSUME MediaInv, NEW w \in Workers, WorkFails(w)
  PROVE  MediaInv'
<1> USE DEF MediaInv
<1> DEFINE k == working[w].key
<1>1. /\ working[w] # None
      /\ unrecorded' = IF working[w].pc = "upload.create" THEN unrecorded \cup {k} ELSE unrecorded
      /\ undeleted' = IF working[w].pc = "destroy" THEN undeleted \cup {k} ELSE undeleted
      /\ UNCHANGED <<issued, media, objects, grants, events, unremoved, late>>
  BY DEF WorkFails
<1>2. /\ working' \in [Workers -> Working \cup {None}] /\ working'[w] = None
      /\ \A v \in Workers \ {w} : working'[v] = working[v]
  BY DoneTypes DEF WorkFails
<1>3. k \in Media
  BY <1>1, WorkIsRecord
<1> HIDE DEF k
<1>4. MediaTypeOK'
  BY <1>1, <1>2, <1>3 DEF MediaTypeOK
<1>5. UploadsAreAlone'
  BY <1>1, <1>2 DEF UploadsAreAlone, Creating
<1>6. KeysAreIssued'
  BY <1>1, <1>2 DEF KeysAreIssued
<1>7. /\ \A l \in Media : Deleting(l)' => Deleting(l)
      /\ \A l \in Media : Deleting(l) => Deleting(l)' \/ l \in undeleted'
  BY <1>1, <1>2 DEF Deleting, WorkAt, k
<1>8. DeletionsClear' /\ ReadyMeansStored'
  BY <1>1, <1>7 DEF DeletionsClear, ReadyMeansStored, MediaTypeOK
<1>9. ObjectsAreFound'
  BY <1>1, <1>2 DEF ObjectsAreFound, WorkAt, k
<1> QED
  BY <1>4, <1>5, <1>6, <1>8, <1>9

\* A client uses its URL, or the URL expires.
LEMMA GrantKeeps ==
  ASSUME MediaInv, NEW k \in Media, ClientPuts(k) \/ GrantExpires(k)
  PROVE  MediaInv'
<1> USE DEF MediaInv
<1>1. /\ k \in issued /\ grants' \subseteq grants
      /\ objects \subseteq objects' /\ objects' \subseteq objects \cup {k}
      /\ late \subseteq late' /\ late' \subseteq late \cup {k}
      /\ k \in objects' \ objects /\ (media[k] = None \/ Deleting(k)) => k \in late'
      /\ UNCHANGED <<issued, media, events, working, unrecorded, unremoved, undeleted>>
  BY DEF ClientPuts, GrantExpires, KeysAreIssued, MediaTypeOK
<1>2. MediaTypeOK'
  BY <1>1 DEF MediaTypeOK
<1>3. UploadsAreAlone' /\ KeysAreIssued'
  BY <1>1 DEF UploadsAreAlone, KeysAreIssued, Creating
<1>4. \A l \in Media : Deleting(l)' <=> Deleting(l)
  BY <1>1 DEF Deleting, WorkAt
<1>5. DeletionsClear'
  BY <1>1, <1>4 DEF DeletionsClear, MediaTypeOK
<1>6. ReadyMeansStored' /\ ObjectsAreFound'
  BY <1>1, <1>4 DEF ReadyMeansStored, ObjectsAreFound, WorkAt
<1> QED
  BY <1>2, <1>3, <1>5, <1>6
-----------------------------------------------------------------------------
\* Every step keeps the invariant.
LEMMA MediaNextKeeps == MediaInv /\ [MediaNext]_mediaVars => MediaInv'
<1> SUFFICES ASSUME MediaInv, [MediaNext]_mediaVars PROVE MediaInv'
  OBVIOUS
<1>1. CASE UNCHANGED mediaVars
  BY <1>1 DEF mediaVars, MediaInv, MediaTypeOK, UploadsAreAlone, KeysAreIssued, DeletionsClear,
              ReadyMeansStored, ObjectsAreFound, Creating, Deleting, WorkAt
<1>2. ASSUME NEW w \in Workers, NEW k \in Media, NEW u \in Uploaders, NEW image \in BOOLEAN,
             Upload(w, k, u, image) \/ CreatePresigned(w, k, u) \/ Delete(w, k, u)
      PROVE  MediaInv'
  BY <1>2, UploadKeeps, DeleteKeeps
<1>3. ASSUME NEW w \in Workers,
             \/ PutObject(w) \/ PutUnanswered(w) \/ CreateReady(w)
             \/ PublishResize(w) \/ PublishThumbnail(w) \/ CreateProcessing(w)
             \/ RemoveObject(w) \/ RemoveFails(w) \/ Destroy(w) \/ WorkFails(w)
      PROVE  MediaInv'
  BY <1>3, PutObjectKeeps, PutUnansweredKeeps, CreateKeeps, PublishKeeps, RemoveKeeps,
     DestroyKeeps, WorkFailsKeeps
<1>4. ASSUME NEW k \in Media, ClientPuts(k) \/ GrantExpires(k)
      PROVE  MediaInv'
  BY <1>4, GrantKeeps
<1> QED
  BY <1>1, <1>2, <1>3, <1>4 DEF MediaNext

\* The inductive invariant holds in every reachable state.
LEMMA MediaInvariant == MediaSpec => []MediaInv
BY MediaInitEstablishes, MediaNextKeeps, PTL DEF MediaSpec

\* The media table, the bucket and every request in progress stay of their types
\* (media.service.ts, models/media.model.ts).
THEOREM MediaTypeCorrect == MediaSpec => []MediaTypeOK
<1>1. MediaInv => MediaTypeOK
  BY DEF MediaInv
<1> QED
  BY <1>1, MediaInvariant, PTL

\* A READY row has its object and an object has its row, whatever uploads,
\* presigned uploads and deletions overlap, up to the failures and the late URL
\* the history variables name (media.service.ts:30-109).
THEOREM ObjectsAgree == MediaSpec => []ObjectsMatchRows
<1>1. MediaInv => ObjectsMatchRows
  BY DEF MediaInv, ObjectsMatchRows
<1> QED
  BY <1>1, MediaInvariant, PTL
-----------------------------------------------------------------------------
(* ProfileSections: PeriodsMakeSense for any number of rows, users and     *)
(* updates and any dates.  An update carries columns that make sense by    *)
(* themselves, of the kind of the row it was loaded from (EditsFit); a key *)
(* is used once, so that the row it writes is still of that kind.  Written *)
(* into a row that is still the copy they replace it whole.                *)

Sensible(kind, columns) ==
  /\ Ordered(columns)
  /\ kind = "experience" /\ columns.current => columns.end = None

ColumnsOf(kind) == IF kind = "experience" THEN ExperienceColumns ELSE EducationColumns

Fits(edit) ==
  /\ edit.changes \in ColumnsOf(edit.copy.kind)
  /\ Sensible(edit.copy.kind, edit.changes)
  /\ section[edit.id] = None => edit.id \in erased
  /\ section[edit.id] # None => section[edit.id].kind = edit.copy.kind
EditsFit == \A e \in Editors : editing[e] # None => Fits(editing[e])

SectionInv == SectionTypeOK /\ EditsFit /\ PeriodsMakeSense

\* A row is made of its kind, its owner and the columns of its kind.
LEMMA RowsByKind ==
  /\ \A r \in SectionRow : r = [kind |-> r.kind, owner |-> r.owner, columns |-> r.columns]
                           /\ r.columns \in ColumnsOf(r.kind) /\ r.owner \in Owners
                           /\ r.kind \in {"experience", "education", "certification"}
  /\ \A kind \in {"experience", "education", "certification"}, u \in Owners :
       \A columns \in ColumnsOf(kind) :
         [kind |-> kind, owner |-> u, columns |-> columns] \in SectionRow
<1>1. ASSUME NEW r \in SectionRow
      PROVE  /\ r = [kind |-> r.kind, owner |-> r.owner, columns |-> r.columns]
             /\ r.columns \in ColumnsOf(r.kind) /\ r.owner \in Owners
             /\ r.kind \in {"experience", "education", "certification"}
  <2>1. CASE r \in [kind : {"experience"}, owner : Owners, columns : ExperienceColumns]
    BY <2>1 DEF ColumnsOf
  <2>2. CASE r \in [kind : {"education"}, owner : Owners, columns : EducationColumns]
    BY <2>2 DEF ColumnsOf
  <2>3. CASE r \in [kind : {"certification"}, owner : Owners, columns : CertificationColumns]
    <3>1. CertificationColumns = EducationColumns
      BY DEF CertificationColumns, EducationColumns
    <3>. QED BY <2>3, <3>1 DEF ColumnsOf
  <2>. QED BY <2>1, <2>2, <2>3 DEF SectionRow
<1>2. ASSUME NEW kind \in {"experience", "education", "certification"}, NEW u \in Owners,
             NEW columns \in ColumnsOf(kind)
      PROVE  [kind |-> kind, owner |-> u, columns |-> columns] \in SectionRow
  <2>1. CertificationColumns = EducationColumns
    BY DEF CertificationColumns, EducationColumns
  <2>. QED BY <2>1 DEF SectionRow, ColumnsOf
<1>. QED BY <1>1, <1>2

\* What replaces a body's end leaves columns that make sense.
LEMMA CurrentIsSensible ==
  ASSUME NEW body \in ExperienceBodies
  PROVE  Current(body) \in ExperienceColumns /\ Sensible("experience", Current(body))
BY DEF ExperienceBodies, ExperienceColumns, Current, Sensible, Ordered

\* Columns merged into a row are columns of its kind; into the row they were
\* changed from, they are the changes.
LEMMA MergedColumns ==
  ASSUME NEW kind, NEW columns \in ColumnsOf(kind), NEW copied \in ColumnsOf(kind),
         NEW changes \in ColumnsOf(kind)
  PROVE  LET merged == [c \in DOMAIN changes |-> IF changes[c] = copied[c]
                                                 THEN columns[c] ELSE changes[c]]
         IN  merged \in ColumnsOf(kind) /\ (columns = copied => merged = changes)
<1>. DEFINE merged == [c \in DOMAIN changes |-> IF changes[c] = copied[c]
                                                THEN columns[c] ELSE changes[c]]
<1>1. CASE kind = "experience"
  <2>1. DOMAIN changes = {"start", "end", "current"}
    BY <1>1 DEF ColumnsOf, ExperienceColumns
  <2>2. merged = [start |-> merged.start, end |-> merged.end, current |-> merged.current]
    BY <2>1
  <2>3. merged.start \in Dates /\ merged.end \in Dates \cup {None} /\ merged.current \in BOOLEAN
    BY <1>1, <2>1 DEF ColumnsOf, ExperienceColumns
  <2>4. columns = copied => merged = changes
    BY <1>1, <2>1 DEF ColumnsOf, ExperienceColumns
  <2>. HIDE DEF merged
  <2>5. merged \in ExperienceColumns
    BY <2>2, <2>3 DEF ExperienceColumns
  <2>. QED BY <1>1, <2>4, <2>5 DEF merged, ColumnsOf
<1>2. CASE kind # "experience"
  <2>1. DOMAIN changes = {"start", "end"}
    BY <1>2 DEF ColumnsOf, EducationColumns
  <2>2. merged = [start |-> merged.start, end |-> merged.end]
    BY <2>1
  <2>3. merged.start \in Dates /\ merged.end \in Dates \cup {None}
    BY <1>2, <2>1 DEF ColumnsOf, EducationColumns
  <2>4. columns = copied => merged = changes
    BY <1>2, <2>1 DEF ColumnsOf, EducationColumns
  <2>. HIDE DEF merged
  <2>5. merged \in EducationColumns
    BY <2>2, <2>3 DEF EducationColumns
  <2>. QED BY <1>2, <2>4, <2>5 DEF merged, ColumnsOf
<1>. QED BY <1>1, <1>2

\* A new row makes sense as its body does; nobody updates a key that is not used.
LEMMA CreateSectionKeeps ==
  ASSUME SectionInv, NEW s \in Sections, NEW u \in Owners,
         NEW kind \in {"experience", "education", "certification"},
         NEW columns \in ColumnsOf(kind), Sensible(kind, columns),
         CreateSection(s, kind, u, columns)
  PROVE  SectionInv'
<1>. DEFINE new == [kind |-> kind, owner |-> u, columns |-> columns]
<1>1. new \in SectionRow /\ new.kind = kind /\ new.columns = columns /\ new # None
  BY RowsByKind, SectionAssumption
<1>2. /\ section' = [section EXCEPT ![s] = new] /\ section[s] = None /\ s \notin erased
      /\ UNCHANGED <<editing, erased, mixed>>
  BY DEF CreateSection
<1>. HIDE DEF new
<1>3. section'[s] = new /\ \A k \in Sections : k # s => section'[k] = section[k]
  BY <1>2 DEF SectionInv, SectionTypeOK
<1>4. SectionTypeOK'
  BY <1>1, <1>2 DEF SectionInv, SectionTypeOK
<1>5. EditsFit'
  <2>. SUFFICES ASSUME NEW e \in Editors, editing[e] # None
                PROVE  Fits(editing[e])'
    BY <1>2 DEF EditsFit
  <2>1. Fits(editing[e]) /\ editing[e].id # s
    BY <1>2 DEF SectionInv, EditsFit, Fits
  <2>2. editing[e].id \in Sections
    BY DEF SectionInv, SectionTypeOK, EditState
  <2>. QED BY <1>2, <1>3, <2>1, <2>2 DEF Fits
<1>6. PeriodsMakeSense'
  BY <1>1, <1>2, <1>3 DEF SectionInv, PeriodsMakeSense, Sensible
<1>. QED BY <1>4, <1>5, <1>6 DEF SectionInv

\* An update is loaded with the kind of the row and columns that make sense.
LEMMA OwnedOrThrowKeeps ==
  ASSUME SectionInv, NEW e \in Editors, NEW s \in Sections, NEW u \in Owners,
         NEW kind \in {"experience", "education", "certification"},
         NEW changes \in ColumnsOf(kind), Sensible(kind, changes),
         OwnedOrThrow(e, s, kind, u, changes)
  PROVE  SectionInv'
<1>. DEFINE edit == [id |-> s, copy |-> section[s], changes |-> changes]
<1>1. /\ editing' = [editing EXCEPT ![e] = edit] /\ section[s] # None /\ section[s].kind = kind
      /\ UNCHANGED <<section, erased, mixed>>
  BY DEF OwnedOrThrow
<1>2. edit \in EditState
  BY <1>1 DEF SectionInv, SectionTypeOK, EditState, ColumnsOf
<1>3. SectionTypeOK'
  BY <1>1, <1>2 DEF SectionInv, SectionTypeOK
<1>4. editing'[e] = edit /\ \A d \in Editors : d # e => editing'[d] = editing[d]
  BY <1>1 DEF SectionInv, SectionTypeOK
<1>5. EditsFit'
  <2>1. /\ edit.changes \in ColumnsOf(edit.copy.kind) /\ Sensible(edit.copy.kind, edit.changes)
        /\ section[edit.id] # None /\ section[edit.id].kind = edit.copy.kind
    BY <1>1
  <2>. HIDE DEF edit
  <2>. QED BY <1>1, <1>4, <2>1 DEF SectionInv, EditsFit, Fits
<1>6. PeriodsMakeSense'
  BY <1>1 DEF SectionInv, PeriodsMakeSense
<1>. QED BY <1>3, <1>5, <1>6 DEF SectionInv

\* What an update writes makes sense, if the row was still the copy.
LEMMA UpdateSectionKeeps ==
  ASSUME SectionInv, NEW e \in Editors, UpdateSection(e)
  PROVE  SectionInv'
<1>. DEFINE s == editing[e].id
            copy == editing[e].copy
            changes == editing[e].changes
            old == section[s]
            merged == [c \in DOMAIN changes |->
                        IF changes[c] = copy.columns[c] THEN old.columns[c] ELSE changes[c]]
<1>1. editing' = [editing EXCEPT ![e] = None] /\ erased' = erased /\ editing[e] # None
  BY DEF UpdateSection
<1>2. /\ editing[e] \in EditState /\ s \in Sections /\ copy \in SectionRow
      /\ changes \in ColumnsOf(copy.kind) /\ Sensible(copy.kind, changes)
      /\ old # None => old \in SectionRow /\ old.kind = copy.kind
  BY <1>1 DEF SectionInv, SectionTypeOK, EditState, EditsFit, Fits
<1>3. \A d \in Editors : editing'[d] # None => editing'[d] = editing[d]
  BY <1>1 DEF SectionInv, SectionTypeOK
<1>4. CASE old = None
  <2>1. UNCHANGED <<section, mixed>>
    BY <1>4 DEF UpdateSection
  <2>2. SectionTypeOK' /\ PeriodsMakeSense'
    BY <1>1, <2>1 DEF SectionInv, SectionTypeOK, PeriodsMakeSense
  <2>3. EditsFit'
    BY <1>1, <1>3, <2>1 DEF SectionInv, EditsFit, Fits
  <2>. QED BY <2>2, <2>3 DEF SectionInv
<1>5. CASE old # None
  <2>. DEFINE new == [old EXCEPT !.columns = merged]
  <2>1. /\ section' = [section EXCEPT ![s].columns = merged]
        /\ mixed' = IF old = copy THEN mixed \ {s} ELSE mixed \cup {s}
    BY <1>5 DEF UpdateSection
  <2>2. /\ old.columns \in ColumnsOf(copy.kind) /\ copy.columns \in ColumnsOf(copy.kind)
        /\ old.owner \in Owners /\ old.kind \in {"experience", "education", "certification"}
        /\ old = [kind |-> old.kind, owner |-> old.owner, columns |-> old.columns]
    BY <1>2, <1>5, RowsByKind
  <2>3. merged \in ColumnsOf(copy.kind) /\ (old = copy => merged = changes)
    BY <1>2, <2>2, MergedColumns
  <2>. HIDE DEF merged
  <2>4. new = [kind |-> old.kind, owner |-> old.owner, columns |-> merged]
    BY <2>2
  <2>5. new \in SectionRow /\ new.kind = copy.kind /\ new.columns = merged /\ new # None
    BY <1>2, <1>5, <2>2, <2>3, <2>4, RowsByKind, SectionAssumption
  <2>6. section' = [section EXCEPT ![s] = new]
    BY <2>1
  <2>. HIDE DEF new, old
  <2>7. section'[s] = new /\ \A k \in Sections : k # s => section'[k] = section[k]
    BY <1>2, <2>6 DEF SectionInv, SectionTypeOK
  <2>8. SectionTypeOK'
    BY <1>1, <1>2, <2>1, <2>5, <2>6 DEF SectionInv, SectionTypeOK
  <2>9. EditsFit'
    <3>. SUFFICES ASSUME NEW d \in Editors, editing'[d] # None
                  PROVE  Fits(editing[d])'
      BY DEF EditsFit
    <3>1. editing'[d] = editing[d] /\ Fits(editing[d]) /\ editing[d].id \in Sections
      BY <1>3 DEF SectionInv, EditsFit, SectionTypeOK, EditState
    <3>2. CASE editing[d].id = s
      <4>1. old.kind = editing[d].copy.kind
        BY <1>5, <3>1, <3>2 DEF Fits, old
      <4>. QED BY <1>2, <1>5, <2>5, <2>7, <3>1, <3>2, <4>1 DEF Fits
    <3>3. CASE editing[d].id # s
      BY <1>1, <2>7, <3>1, <3>3 DEF Fits
    <3>. QED BY <3>2, <3>3
  <2>10. PeriodsMakeSense'
    <3>. SUFFICES ASSUME NEW k \in Sections \ mixed', section'[k] # None
                  PROVE  Sensible(section'[k].kind, section'[k].columns)
      BY DEF PeriodsMakeSense, Sensible
    <3>1. CASE k = s
      <4>1. old = copy
        BY <1>2, <2>1, <3>1
      <4>. QED BY <1>2, <2>3, <2>5, <2>7, <3>1, <4>1
    <3>2. CASE k # s
      BY <2>1, <2>7, <3>2 DEF SectionInv, PeriodsMakeSense, Sensible
    <3>. QED BY <3>1, <3>2
  <2>. QED BY <2>8, <2>9, <2>10 DEF SectionInv
<1>. QED BY <1>4, <1>5

\* A row that is gone stays so, and an update that fails changes nothing.
LEMMA RemoveSectionKeeps ==
  ASSUME SectionInv,
         \/ \E s \in Sections, u \in Owners : RemoveSection(s, u)
         \/ \E e \in Editors : EditFails(e)
  PROVE  SectionInv'
<1>1. ASSUME NEW s \in Sections, NEW u \in Owners, RemoveSection(s, u)
      PROVE  SectionInv'
  BY <1>1 DEF RemoveSection, SectionInv, SectionTypeOK, EditsFit, Fits, PeriodsMakeSense
<1>2. ASSUME NEW e \in Editors, EditFails(e)
      PROVE  SectionInv'
  BY <1>2 DEF EditFails, SectionInv, SectionTypeOK, EditsFit, Fits, PeriodsMakeSense
<1>. QED BY <1>1, <1>2

\* Every step of the sections keeps the invariant.
LEMMA SectionNextKeeps == SectionInv /\ [SectionNext]_sectionVars => SectionInv'
<1>. SUFFICES ASSUME SectionInv, [SectionNext]_sectionVars PROVE SectionInv'
  OBVIOUS
<1>1. CASE UNCHANGED sectionVars
  BY <1>1 DEF sectionVars, SectionInv, SectionTypeOK, EditsFit, Fits, PeriodsMakeSense
<1>2. ASSUME NEW s \in Sections, NEW u \in Owners, NEW b \in ExperienceBodies,
             CreateExperience(s, u, b) \/ \E e \in Editors : UpdateExperience(e, s, u, b)
      PROVE  SectionInv'
  BY <1>2, CurrentIsSensible, CreateSectionKeeps, OwnedOrThrowKeeps
     DEF CreateExperience, UpdateExperience, ColumnsOf
<1>3. ASSUME NEW s \in Sections, NEW u \in Owners, NEW b \in EducationBodies,
             CreateEducation(s, u, b) \/ \E e \in Editors : UpdateEducation(e, s, u, b)
      PROVE  SectionInv'
  <2>1. b \in ColumnsOf("education") /\ Sensible("education", b)
    BY DEF EducationBodies, ColumnsOf, Sensible
  <2>. QED BY <1>3, <2>1, CreateSectionKeeps, OwnedOrThrowKeeps
           DEF CreateEducation, UpdateEducation
<1>4. ASSUME NEW s \in Sections, NEW u \in Owners, NEW b \in CertificationBodies,
             CreateCertification(s, u, b)
      PROVE  SectionInv'
  <2>1. b \in ColumnsOf("certification") /\ Sensible("certification", b)
    BY DEF CertificationBodies, CertificationColumns, EducationColumns, ColumnsOf, Sensible
  <2>. QED BY <1>4, <2>1, CreateSectionKeeps DEF CreateCertification
<1>. QED BY <1>1, <1>2, <1>3, <1>4, RemoveSectionKeeps, UpdateSectionKeeps DEF SectionNext

\* The tables start empty.
LEMMA SectionInitEstablishes == SectionInit => SectionInv
BY DEF SectionInit, SectionInv, SectionTypeOK, EditsFit, PeriodsMakeSense

\* Rows and updates keep their types, each row the columns of its kind.
THEOREM SectionTypeCorrect == SectionSpec => []SectionTypeOK
<1>1. SectionInv => SectionTypeOK
  BY DEF SectionInv
<1>. QED BY <1>1, SectionInitEstablishes, SectionNextKeeps, PTL DEF SectionSpec

\* A period that is stored ends after it begins, and that of a current position
\* has no end, unless the row was last written from a stale copy.
THEOREM PeriodsAreSensible == SectionSpec => []PeriodsMakeSense
<1>1. SectionInv => PeriodsMakeSense
  BY DEF SectionInv
<1>. QED BY <1>1, SectionInitEstablishes, SectionNextKeeps, PTL DEF SectionSpec
-----------------------------------------------------------------------------
(* Pages: WalksCoverTheList for any number of rows, members, times and     *)
(* changes.  By cursor: what was shown lies behind the cursor and what is  *)
(* asked for before it, so no row comes twice; a row that stays listed is  *)
(* on its page or left over, and one left over at the cursor has the time  *)
(* of the page's last row.  By offset: a list that rests, with no two rows *)
(* of one time, has one order, and the walk has shown its top.             *)

\* What a walk has shown is there or was removed, and lies behind its cursor.
SeenIsBehind ==
  walk # None =>
    /\ walk.seen \subseteq All \cup removed
    /\ walk.list \in CursorLists =>
         /\ walk.cursor = None => walk.done \/ walk.seen = {}
         /\ walk.cursor # None =>
              \A r \in walk.seen \cap All : row[r].createdAt >= walk.cursor

SteadyIsListed == walk # None => walk.steady \subseteq Listed(walk.list)

\* Between its two calls a feed request knows enough to list what stays listed.
KnownCovers ==
  walk # None /\ walk.known # None =>
    /\ walk.list = "feed"
    /\ \/ walk.degraded
       \/ walk.steady \subseteq FeedRows(walk.known.connections, walk.known.following)
    /\ walk.changes = 0 => walk.known.connections \subseteq connected

\* By offset a list that rests, its rows of different times, is shown from the top.
TimesDiffer == \A r, s \in All : r # s => row[r].createdAt # row[s].createdAt
ShownFromTop ==
  walk # None /\ walk.list \in OffsetLists /\ walk.changes = 0 /\ TimesDiffer =>
    /\ walk.again = {}
    /\ walk.degraded \/ walk.seen \in Newest(All, (walk.page - 1) * walk.limit)
    /\ walk.degraded => walk.done
    /\ walk.done => All \subseteq walk.seen \/ walk.degraded \/ Counted < Cardinality(All)

TablesHold == PagesTypeOK /\ IsFiniteSet(All) /\ removed \cap All = {}

PagesInv ==
  /\ TablesHold /\ SeenIsBehind /\ SteadyIsListed /\ KnownCovers /\ ShownFromTop
  /\ CursorWalksCover /\ PagesRespectAccess

\* The least of a set of numbers, as Min chooses it.
LEMMA LeastNatural ==
  ASSUME NEW S \in SUBSET Nat, S # {}
  PROVE  Min(S) \in S /\ \A n \in S : Min(S) <= n
<1>1. PICK R : /\ R = OpToRel(<, Nat)
               /\ R = {t \in Nat \X Nat : t[1] < t[2]}
  BY DEF OpToRel
<1>2. IsWellFoundedOn(R, Nat)
  BY <1>1, NatLessThanWellFounded
<1>3. PICK m \in S : \A n \in S : <<n, m>> \notin R
  BY <1>2, WFMin
<1>4. \A n \in S : m <= n
  <2>. TAKE n \in S
  <2>1. ~(n < m)
    <3>. SUFFICES ASSUME n < m PROVE FALSE
      OBVIOUS
    <3>1. <<n, m>> \in R
      BY <1>1
    <3>. QED BY <1>3, <3>1
  <2>. QED BY <2>1
<1>. QED BY <1>4 DEF Min

\* The lesser and the greater of two numbers.
LEMMA LesserOfTwo ==
  ASSUME NEW a \in Int, NEW b \in Int
  PROVE  Min({a, b}) = IF a <= b THEN a ELSE b
BY DEF Min

LEMMA GreaterOfTwo ==
  ASSUME NEW a \in Int, NEW b \in Int
  PROVE  Max({a, b}) = IF a >= b THEN a ELSE b
BY DEF Max

\* A limit is between one and the greatest, whatever the query asks for.
LEMMA LimitsAreClamped ==
  ASSUME NEW limit \in Limits
  PROVE  limit \in 1 .. MaxLimit
<1>1. PICK asked \in Asked : limit = ParsedLimit(asked)
  BY DEF Limits
<1>2. PICK n \in Int : n = IF asked = 0 THEN DefaultLimit ELSE asked
  BY PagesAssumption
<1>3. PICK m \in Int : m = Max({1, n}) /\ m >= 1
  BY GreaterOfTwo
<1>4. limit = Min({MaxLimit, m})
  BY <1>1, <1>2, <1>3 DEF ParsedLimit
<1>5. MaxLimit \in Nat /\ MaxLimit >= 1
  BY PagesAssumption
<1>6. Min({MaxLimit, m}) = IF MaxLimit <= m THEN MaxLimit ELSE m
  BY <1>5, LesserOfTwo
<1>. QED BY <1>3, <1>4, <1>5, <1>6

\* The newest rows of a list: some of them, no more than asked for and as many as
\* there are, none older than one left out.
LEMMA NewestRows ==
  ASSUME IsFiniteSet(All), NEW S \in SUBSET All, NEW n \in Nat, NEW T \in Newest(S, n)
  PROVE  /\ T \subseteq S /\ IsFiniteSet(S) /\ IsFiniteSet(T)
         /\ Cardinality(S) \in Nat /\ Cardinality(T) \in Nat
         /\ Cardinality(T) = IF n <= Cardinality(S) THEN n ELSE Cardinality(S)
         /\ \A r \in T, s \in S \ T : row[r].createdAt >= row[s].createdAt
<1>1. /\ T \subseteq S /\ Cardinality(T) = Min({n, Cardinality(S)})
      /\ \A r \in T, s \in S \ T : row[r].createdAt >= row[s].createdAt
  BY DEF Newest
<1>2. IsFiniteSet(S) /\ IsFiniteSet(T)
  BY <1>1, FS_Subset
<1>3. Cardinality(S) \in Nat /\ Cardinality(T) \in Nat
  BY <1>2, FS_CardinalityType
<1>4. Min({n, Cardinality(S)}) = IF n <= Cardinality(S) THEN n ELSE Cardinality(S)
  BY <1>3, LesserOfTwo
<1>. QED BY <1>1, <1>2, <1>3, <1>4

\* A row that is there has a time and an audience.
LEMMA RowsHaveTimes ==
  ASSUME PagesTypeOK, NEW r \in All
  PROVE  /\ row[r] \in RowRecord /\ row[r].createdAt \in Times /\ row[r].createdAt \in Nat
         /\ row[r].visibility \in Visibility
<1>1. row[r] \in RowRecord
  BY DEF PagesTypeOK, All
<1>. QED BY <1>1, PagesAssumption DEF RowRecord

\* A change of the tables counts, and ends what it takes from the list.
LEMMA ChangeFields ==
  ASSUME PagesTypeOK, walk # None, NEW edited, Change(edited)
  PROVE  /\ walk' \in WalkRecord /\ ~walk.done /\ walk'.changes = walk.changes + 1
         /\ walk'.list = walk.list /\ walk'.limit = walk.limit /\ walk'.cursor = walk.cursor
         /\ walk'.page = walk.page /\ walk'.done = walk.done /\ walk'.seen = walk.seen
         /\ walk'.again = walk.again /\ walk'.beside = walk.beside
         /\ walk'.known = walk.known /\ walk'.hidden = walk.hidden
         /\ walk'.degraded = walk.degraded
         /\ walk'.steady \subseteq walk.steady
         /\ walk.known # None => walk'.steady \cap edited = {}
         /\ \A list \in {walk.list} : walk'.steady \subseteq Listed(list)'
<1>1. walk \in WalkRecord
  BY DEF PagesTypeOK
<1>2. ~walk.done /\ walk.changes < MaxChanges
  BY DEF Change
<1>3. PICK list \in {walk.list} :
        walk' = [walk EXCEPT
          !.changes = @ + 1,
          !.steady = (@ \ IF walk.known = None THEN {} ELSE edited) \cap Listed(list)']
  BY DEF Change
<1>4. PICK steady \in SUBSET Rows :
        /\ steady = (walk.steady \ IF walk.known = None THEN {} ELSE edited) \cap Listed(list)'
        /\ walk' = [walk EXCEPT !.changes = walk.changes + 1, !.steady = steady]
  BY <1>1, <1>3 DEF WalkRecord
<1>5. walk.changes + 1 \in 0 .. MaxChanges
  BY <1>1, <1>2, PagesAssumption DEF WalkRecord
<1>6. walk' \in WalkRecord
  BY <1>1, <1>4, <1>5 DEF WalkRecord
<1>7. /\ walk'.changes = walk.changes + 1 /\ walk'.steady = steady
      /\ walk'.list = walk.list /\ walk'.limit = walk.limit /\ walk'.cursor = walk.cursor
      /\ walk'.page = walk.page /\ walk'.done = walk.done /\ walk'.seen = walk.seen
      /\ walk'.again = walk.again /\ walk'.beside = walk.beside
      /\ walk'.known = walk.known /\ walk'.hidden = walk.hidden
      /\ walk'.degraded = walk.degraded
  BY <1>1, <1>4 DEF WalkRecord
<1>8. \A l \in {walk.list} : walk'.steady \subseteq Listed(l)'
  BY <1>4, <1>7
<1>9. walk'.steady \subseteq walk.steady /\ (walk.known # None => walk'.steady \cap edited = {})
  BY <1>4, <1>7
<1>. QED BY <1>2, <1>6, <1>7, <1>8, <1>9

\* What a change of the tables does to them.
TablesChange(edited) ==
  /\ TablesHold' /\ removed \subseteq removed' /\ All \subseteq All' \cup removed'
  /\ \A r \in All' : r \in All \/ r \notin removed
  /\ \A r \in All \cap All' : /\ row'[r].createdAt = row[r].createdAt
                              /\ r \notin edited => row'[r] = row[r]
  /\ Change(edited)

\* Such a change keeps the invariant.
LEMMA TableChangeKeeps ==
  ASSUME PagesInv, NEW edited, TablesChange(edited)
  PROVE  PagesInv'
<1>1. CASE walk = None
  <2>1. walk' = None
    BY <1>1 DEF TablesChange, Change
  <2>. QED BY <2>1 DEF TablesChange, PagesInv, SeenIsBehind, SteadyIsListed, KnownCovers,
                       ShownFromTop, CursorWalksCover, PagesRespectAccess
<1>2. CASE walk # None
  <2>0. PagesTypeOK /\ Change(edited)
    BY DEF PagesInv, TablesHold, TablesChange
  <2>1. /\ ~walk.done /\ walk'.changes = walk.changes + 1 /\ walk' \in WalkRecord
        /\ walk'.list = walk.list /\ walk'.limit = walk.limit /\ walk'.cursor = walk.cursor
        /\ walk'.page = walk.page /\ walk'.done = walk.done /\ walk'.seen = walk.seen
        /\ walk'.again = walk.again /\ walk'.beside = walk.beside
        /\ walk'.known = walk.known /\ walk'.hidden = walk.hidden
        /\ walk'.degraded = walk.degraded
        /\ walk'.steady \subseteq walk.steady
        /\ walk.known # None => walk'.steady \cap edited = {}
    BY <1>2, <2>0, ChangeFields
  <2>2. \A list \in {walk.list} : walk'.steady \subseteq Listed(list)'
    BY <1>2, <2>0, ChangeFields
  <2>3. walk \in WalkRecord /\ walk.changes + 1 # 0
    BY <1>2, <2>0 DEF PagesTypeOK, WalkRecord
  <2>4. SteadyIsListed'
    BY <2>1, <2>2 DEF SteadyIsListed
  <2>5. walk'.steady \subseteq All'
    <3>1. \A list : Listed(list)' \subseteq All'
      BY DEF Listed, FeedRows, HashtagRows
    <3>. QED BY <2>2, <3>1
  <2>6. walk.steady \subseteq All
    <3>1. \A list : Listed(list) \subseteq All
      BY DEF Listed, FeedRows, HashtagRows
    <3>. QED BY <1>2, <3>1 DEF PagesInv, SteadyIsListed
  <2>7. SeenIsBehind'
    <3>1. walk.seen \subseteq All \cup removed
      BY <1>2 DEF PagesInv, SeenIsBehind
    <3>2. \A r \in walk.seen \cap All' : r \in All /\ row'[r].createdAt = row[r].createdAt
      BY <3>1 DEF TablesChange
    <3>3. walk'.seen \subseteq All' \cup removed'
      BY <2>1, <3>1 DEF TablesChange
    <3>. QED BY <1>2, <2>1, <3>2, <3>3 DEF PagesInv, SeenIsBehind
  <2>8. KnownCovers'
    <3>. SUFFICES ASSUME walk.known # None
                  PROVE  /\ walk.list = "feed"
                         /\ \/ walk.degraded
                            \/ walk'.steady \subseteq
                                 FeedRows(walk.known.connections, walk.known.following)'
      BY <2>1, <2>3 DEF KnownCovers
    <3>1. /\ walk.list = "feed"
          /\ \/ walk.degraded
             \/ walk.steady \subseteq FeedRows(walk.known.connections, walk.known.following)
      BY <1>2 DEF PagesInv, KnownCovers
    <3>2. \A r \in walk'.steady : r \in walk.steady /\ r \in All' /\ row'[r] = row[r]
      BY <2>1, <2>5, <2>6 DEF TablesChange
    <3>. QED BY <2>1, <3>1, <3>2 DEF FeedRows
  <2>9. ShownFromTop' /\ PagesRespectAccess'
    BY <1>2, <2>1, <2>3 DEF PagesInv, ShownFromTop, PagesRespectAccess
  <2>10. CursorWalksCover'
    <3>1. \A r \in walk'.steady : Passed(r)' => r \in walk.steady /\ Passed(r)
      BY <2>1, <2>5, <2>6 DEF TablesChange, Passed
    <3>. QED BY <1>2, <2>1, <3>1 DEF PagesInv, CursorWalksCover
  <2>. QED BY <2>4, <2>7, <2>8, <2>9, <2>10 DEF TablesChange, PagesInv
<1>. QED BY <1>1, <1>2

\* Rows come, are edited and go, and connections with them.
LEMMA TablesKeep ==
  ASSUME PagesInv,
         \/ \E r \in Rows :
              \/ Remove(r)
              \/ \E v \in Visibility : Update(r, v) \/ \E t \in Times : Create(r, t, v)
         \/ \E m \in Members \ {Viewer} : ConnectionChanges(m)
  PROVE  PagesInv'
<1>0. PagesTypeOK /\ IsFiniteSet(All) /\ removed \cap All = {}
  BY DEF PagesInv, TablesHold
<1>00. ASSUME NEW edited, Change(edited)
       PROVE  walk' \in WalkRecord \cup {None}
  BY <1>0, <1>00, ChangeFields DEF Change, PagesTypeOK
<1>1. ASSUME NEW r \in Rows, NEW v \in Visibility, NEW t \in Times, Create(r, t, v)
      PROVE  PagesInv'
  <2>1. /\ r \notin All /\ r \notin removed /\ Change({}) /\ UNCHANGED <<removed, connected>>
        /\ row' = [row EXCEPT ![r] = [createdAt |-> t, visibility |-> v]]
    BY <1>1 DEF Create, All
  <2>2. [createdAt |-> t, visibility |-> v] \in RowRecord
    BY DEF RowRecord
  <2>3. All' = All \cup {r} /\ \A q \in All : row'[q] = row[q]
    BY <1>0, <2>1, <2>2, PageRowAssumption DEF All, PagesTypeOK
  <2>4. IsFiniteSet(All')
    BY <1>0, <2>3, FS_AddElement
  <2>5. PagesTypeOK'
    BY <1>0, <1>00, <2>1, <2>2 DEF PagesTypeOK
  <2>6. TablesChange({})
    BY <1>0, <2>1, <2>3, <2>4, <2>5 DEF TablesChange, TablesHold
  <2>. QED BY <2>6, TableChangeKeeps
<1>2. ASSUME NEW r \in Rows, NEW v \in Visibility, Update(r, v)
      PROVE  PagesInv'
  <2>1. /\ r \in All /\ Change({r}) /\ UNCHANGED <<removed, connected>>
        /\ row' = [row EXCEPT ![r].visibility = v]
    BY <1>2 DEF Update
  <2>2. row[r] \in RowRecord
    BY <1>0, <2>1, RowsHaveTimes
  <2>3. PICK edit \in RowRecord : edit = [row[r] EXCEPT !.visibility = v]
    BY <2>2 DEF RowRecord
  <2>4. row' = [row EXCEPT ![r] = edit] /\ edit.createdAt = row[r].createdAt
    BY <2>1, <2>2, <2>3 DEF RowRecord
  <2>5. All' = All /\ \A q \in All \ {r} : row'[q] = row[q]
    BY <1>0, <2>1, <2>4, PageRowAssumption DEF All, PagesTypeOK
  <2>6. PagesTypeOK'
    BY <1>0, <1>00, <2>1, <2>4 DEF PagesTypeOK
  <2>7. row'[r] = edit
    BY <1>0, <2>4 DEF PagesTypeOK
  <2>8. TablesChange({r})
    BY <1>0, <2>1, <2>4, <2>5, <2>6, <2>7 DEF TablesChange, TablesHold
  <2>. QED BY <2>8, TableChangeKeeps
<1>3. ASSUME NEW r \in Rows, Remove(r)
      PROVE  PagesInv'
  <2>1. /\ r \in All /\ Change({}) /\ UNCHANGED connected
        /\ row' = [row EXCEPT ![r] = None] /\ removed' = removed \cup {r}
    BY <1>3 DEF Remove
  <2>2. All' = All \ {r} /\ \A q \in All \ {r} : row'[q] = row[q]
    BY <1>0, <2>1 DEF All, PagesTypeOK
  <2>3. IsFiniteSet(All')
    BY <1>0, <2>2, FS_RemoveElement
  <2>4. PagesTypeOK'
    BY <1>0, <1>00, <2>1 DEF PagesTypeOK
  <2>5. TablesChange({})
    BY <1>0, <2>1, <2>2, <2>3, <2>4 DEF TablesChange, TablesHold
  <2>. QED BY <2>5, TableChangeKeeps
<1>4. ASSUME NEW m \in Members \ {Viewer}, ConnectionChanges(m)
      PROVE  PagesInv'
  <2>1. Change({}) /\ UNCHANGED <<row, removed>> /\ connected' \subseteq Members \ {Viewer}
    BY <1>0, <1>4 DEF ConnectionChanges, PagesTypeOK
  <2>2. All' = All
    BY <2>1 DEF All
  <2>3. PagesTypeOK'
    BY <1>0, <1>00, <2>1 DEF PagesTypeOK
  <2>4. TablesChange({})
    BY <1>0, <2>1, <2>2, <2>3 DEF TablesChange, TablesHold
  <2>. QED BY <2>4, TableChangeKeeps
<1>. QED BY <1>1, <1>2, <1>3, <1>4

\* The client's steps leave the tables as they are.
LEMMA TablesStay ==
  ASSUME UNCHANGED <<row, removed, connected>>
  PROVE  /\ All' = All /\ (TablesHold /\ walk' \in WalkRecord \cup {None} => TablesHold')
         /\ \A list : Listed(list)' = Listed(list)
         /\ \A S, T : FeedRows(S, T)' = FeedRows(S, T)
         /\ \A r, S : CanView(r, S)' = CanView(r, S)
         /\ \A S, n : Newest(S, n)' = Newest(S, n)
BY DEF All, TablesHold, PagesTypeOK, Listed, FeedRows, HashtagRows, CanView, Newest

\* A walk starts at the top of the list.
LEMMA StartWalkKeeps ==
  ASSUME PagesInv, NEW list \in CursorLists \cup OffsetLists, NEW limit \in Limits,
         StartWalk(list, limit)
  PROVE  PagesInv'
<1>0. TablesHold /\ IsFiniteSet(All)
  BY DEF PagesInv, TablesHold
<1>1. UNCHANGED <<row, removed, connected>>
  BY DEF StartWalk
<1>2. limit \in 1 .. MaxLimit
  BY LimitsAreClamped
<1>3. Listed(list) \subseteq All /\ All \subseteq Rows
  BY DEF Listed, FeedRows, HashtagRows, All
<1>4. PICK steady \in SUBSET Rows :
        /\ steady = Listed(list)
        /\ walk' = [list |-> list, limit |-> limit, cursor |-> None, page |-> 1,
                    done |-> FALSE, seen |-> {}, again |-> {}, beside |-> {},
                    steady |-> steady, changes |-> 0, known |-> None, hidden |-> {},
                    degraded |-> FALSE]
  BY <1>3 DEF StartWalk
<1>5. walk' \in WalkRecord
  BY <1>2, <1>4, PagesAssumption DEF WalkRecord
<1>6. /\ walk'.list = list /\ walk'.limit = limit /\ walk'.cursor = None /\ walk'.page = 1
      /\ walk'.done = FALSE /\ walk'.seen = {} /\ walk'.again = {} /\ walk'.beside = {}
      /\ walk'.steady = steady /\ walk'.changes = 0 /\ walk'.known = None
      /\ walk'.hidden = {} /\ walk'.degraded = FALSE
  BY <1>4
<1>7. TablesHold'
  BY <1>0, <1>1, <1>5, TablesStay
<1>8. SeenIsBehind' /\ KnownCovers' /\ PagesRespectAccess' /\ CursorWalksCover'
  BY <1>6 DEF SeenIsBehind, KnownCovers, PagesRespectAccess, CursorWalksCover, Passed
<1>9. SteadyIsListed'
  BY <1>1, <1>4, <1>6, TablesStay DEF SteadyIsListed
<1>10. ShownFromTop'
  <2>1. (walk'.page - 1) * walk'.limit = 0
    BY <1>2, <1>6
  <2>2. Cardinality(All) \in Nat
    BY <1>0, FS_CardinalityType
  <2>3. Min({0, Cardinality(All)}) = 0
    BY <2>2, LesserOfTwo
  <2>4. {} \in Newest(All, 0)
    BY <2>3, FS_EmptySet DEF Newest
  <2>5. \A n : n = 0 => walk'.seen \in Newest(All, n)'
    BY <1>1, <1>6, <2>4, TablesStay
  <2>. QED BY <1>6, <2>1, <2>5, TablesStay, <1>1 DEF ShownFromTop
<1>. QED BY <1>7, <1>8, <1>9, <1>10 DEF PagesInv

\* What the feed asks connection-service for covers what it is to list.
LEMMA GetIdsKeeps ==
  ASSUME PagesInv, GetIds
  PROVE  PagesInv'
<1>0. TablesHold /\ walk # None /\ walk.list = "feed" /\ walk \in WalkRecord
  BY DEF PagesInv, TablesHold, GetIds, Walking, PagesTypeOK
<1>1. UNCHANGED <<row, removed, connected>>
  BY DEF GetIds
<1>2. PICK connections \in Answers(connected), following \in Answers(Following) :
        walk' = [walk EXCEPT
          !.known = [connections |-> connections, following |-> following],
          !.degraded = @ \/ connections # connected \/ following # Following]
  BY DEF GetIds
<1>3. /\ connections \subseteq connected /\ connections \subseteq Members
      /\ following \subseteq Members
  BY <1>0, PagesAssumption DEF Answers, TablesHold, PagesTypeOK
<1>4. PICK known \in [connections : SUBSET Members, following : SUBSET Members] :
        known = [connections |-> connections, following |-> following]
  BY <1>3
<1>5. PICK degraded \in BOOLEAN :
        degraded <=> walk.degraded \/ connections # connected \/ following # Following
  OBVIOUS
<1>6. walk' = [walk EXCEPT !.known = known, !.degraded = degraded]
  BY <1>0, <1>2, <1>4, <1>5 DEF WalkRecord
<1>7. walk' \in WalkRecord
  BY <1>0, <1>6 DEF WalkRecord
<1>8. /\ walk'.list = walk.list /\ walk'.limit = walk.limit /\ walk'.cursor = walk.cursor
      /\ walk'.page = walk.page /\ walk'.done = walk.done /\ walk'.seen = walk.seen
      /\ walk'.again = walk.again /\ walk'.beside = walk.beside
      /\ walk'.steady = walk.steady /\ walk'.changes = walk.changes
      /\ walk'.known = known /\ walk'.hidden = walk.hidden
      /\ walk'.degraded = degraded
  BY <1>0, <1>6 DEF WalkRecord
<1>9. TablesHold'
  BY <1>0, <1>1, <1>7, TablesStay
<1>10. SeenIsBehind'
  BY <1>0, <1>1, <1>8, TablesStay DEF PagesInv, SeenIsBehind
<1>11. SteadyIsListed'
  BY <1>0, <1>1, <1>8, TablesStay DEF PagesInv, SteadyIsListed
<1>12. KnownCovers'
  <2>1. ~degraded => known.connections = connected /\ known.following = Following
    BY <1>4, <1>5
  <2>2. walk.steady \subseteq FeedRows(connected, Following)
    BY <1>0 DEF PagesInv, SteadyIsListed, Listed
  <2>3. degraded \/ walk.steady \subseteq FeedRows(known.connections, known.following)
    BY <2>1, <2>2
  <2>4. degraded \/ walk.steady \subseteq FeedRows(known.connections, known.following)'
    BY <1>1, <2>3, TablesStay
  <2>5. known.connections \subseteq connected'
    BY <1>1, <1>3, <1>4
  <2>. QED BY <1>0, <1>8, <2>4, <2>5 DEF KnownCovers
<1>13. ShownFromTop' /\ PagesRespectAccess'
  BY <1>0, <1>8 DEF PagesInv, ShownFromTop, PagesRespectAccess, OffsetLists
<1>14. CursorWalksCover'
  <2>1. \A r : Passed(r)' = Passed(r)
    BY <1>1, <1>8 DEF Passed
  <2>2. walk.degraded => degraded
    BY <1>5
  <2>. QED BY <1>0, <1>8, <2>1, <2>2 DEF PagesInv, CursorWalksCover
<1>. QED BY <1>9, <1>10, <1>11, <1>12, <1>13, <1>14 DEF PagesInv

\* The cursor of a page that leaves rows over is the oldest time on it: what is left
\* over is as old, or has that time.
LEMMA CursorFollowsPage ==
  ASSUME PagesTypeOK, IsFiniteSet(All), NEW S \in SUBSET All, NEW n \in Nat \ {0},
         NEW items \in Newest(S, n)
  PROVE  /\ items \subseteq S
         /\ \E next \in Times \cup {None} :
              /\ next = CursorAfter(items, S \ items)
              /\ S \ items = {} => next = None
              /\ S \ items # {} =>
                   /\ next \in Dated(items) /\ next \in Times
                   /\ \A r \in items : row[r].createdAt >= next
                   /\ \A r \in S \ items : row[r].createdAt >= next
                                             => row[r].createdAt \in Dated(items)
<1>1. /\ items \subseteq S /\ IsFiniteSet(S) /\ IsFiniteSet(items)
      /\ Cardinality(S) \in Nat
      /\ Cardinality(items) = IF n <= Cardinality(S) THEN n ELSE Cardinality(S)
      /\ \A r \in items, s \in S \ items : row[r].createdAt >= row[s].createdAt
  BY NewestRows
<1>2. CASE S \ items = {}
  BY <1>1, <1>2 DEF CursorAfter
<1>3. CASE S \ items # {}
  <2>1. items # {}
    <3>1. Cardinality(S) # 0
      BY <1>1, <1>3, FS_EmptySet
    <3>. QED BY <1>1, <3>1, FS_EmptySet
  <2>2. CursorAfter(items, S \ items) = Min(Dated(items))
    BY <1>3, <2>1 DEF CursorAfter
  <2>3. Dated(items) \subseteq Times /\ Dated(items) # {} /\ Dated(items) \subseteq Nat
    BY <1>1, <2>1, RowsHaveTimes DEF Dated
  <2>4. PICK t \in Dated(items) :
          t = CursorAfter(items, S \ items) /\ \A m \in Dated(items) : t <= m
    BY <2>2, <2>3, LeastNatural
  <2>5. t \in Times /\ t \in Nat
    BY <2>3, <2>4
  <2>6. \A r \in items : row[r].createdAt >= t
    BY <2>3, <2>4, <2>5 DEF Dated
  <2>7. PICK last \in items : row[last].createdAt = t
    BY <2>4 DEF Dated
  <2>8. ASSUME NEW r \in S \ items, row[r].createdAt >= t
        PROVE  row[r].createdAt \in Dated(items)
    <3>1. t >= row[r].createdAt /\ row[r].createdAt \in Nat
      BY <1>1, <2>7, RowsHaveTimes
    <3>. QED BY <2>5, <2>8, <3>1
  <2>. QED BY <1>1, <1>3, <2>4, <2>5, <2>6, <2>8
<1>. QED BY <1>2, <1>3

\* A page of a list by cursor, whose query finds at least what stays listed and
\* nothing its viewer must not open.
LEMMA CursorPageKeeps ==
  ASSUME PagesInv, UNCHANGED <<row, removed, connected>>, Walking(CursorLists),
         NEW rows \in SUBSET All, CursorPage(rows),
         walk.degraded \/ walk.steady \subseteq rows,
         walk.list = "hashtag" \/ (walk.list = "feed" /\ walk.changes = 0) =>
           \A r \in rows : CanView(r, connected)
  PROVE  PagesInv'
<1>0. /\ TablesHold /\ walk # None /\ walk.list \in CursorLists /\ walk \in WalkRecord
      /\ ~walk.done /\ PagesTypeOK /\ IsFiniteSet(All)
  BY DEF PagesInv, TablesHold, Walking, PagesTypeOK
<1>1. PICK S \in SUBSET All : S = Before(rows, walk.cursor)
  BY DEF Before
<1>2. PICK items \in Newest(S, walk.limit) :
        walk' = [Show(items, S \ items = {}) EXCEPT
                   !.cursor = CursorAfter(items, S \ items), !.known = None,
                   !.beside = @ \cup {r \in S \ items : row[r].createdAt \in Dated(items)},
                   !.hidden = @ \cup (items \ {r \in items : CanView(r, connected)})]
  BY <1>1 DEF CursorPage
<1>3. walk.limit \in Nat \ {0}
  BY <1>0 DEF WalkRecord
<1>4. PICK next \in Times \cup {None} :
        /\ next = CursorAfter(items, S \ items)
        /\ S \ items = {} => next = None
        /\ S \ items # {} =>
             /\ next \in Dated(items) /\ next \in Times
             /\ \A r \in items : row[r].createdAt >= next
             /\ \A r \in S \ items : row[r].createdAt >= next
                                       => row[r].createdAt \in Dated(items)
  BY <1>0, <1>3, CursorFollowsPage
<1>5. items \subseteq S /\ S \subseteq Rows
  BY <1>0, <1>3, CursorFollowsPage DEF All
<1>6. PICK done \in BOOLEAN : done <=> S \ items = {}
  OBVIOUS
<1>7. PICK seen \in SUBSET Rows, again \in SUBSET Rows, beside \in SUBSET Rows,
           hidden \in SUBSET Rows :
        /\ seen = walk.seen \cup items /\ again = walk.again \cup (walk.seen \cap items)
        /\ beside = walk.beside \cup {r \in S \ items : row[r].createdAt \in Dated(items)}
        /\ hidden = walk.hidden \cup (items \ {r \in items : CanView(r, connected)})
  BY <1>0, <1>5 DEF WalkRecord
<1>8. walk' = [walk EXCEPT !.seen = seen, !.again = again, !.done = done, !.cursor = next,
                           !.known = None, !.beside = beside, !.hidden = hidden]
  BY <1>0, <1>2, <1>4, <1>6, <1>7 DEF WalkRecord, Show
<1>9. walk' \in WalkRecord
  BY <1>0, <1>8 DEF WalkRecord
<1>10. /\ walk'.list = walk.list /\ walk'.limit = walk.limit /\ walk'.cursor = next
       /\ walk'.page = walk.page /\ walk'.done = done /\ walk'.seen = seen
       /\ walk'.again = again /\ walk'.beside = beside
       /\ walk'.steady = walk.steady /\ walk'.changes = walk.changes
       /\ walk'.known = None /\ walk'.hidden = hidden
       /\ walk'.degraded = walk.degraded
  BY <1>0, <1>8 DEF WalkRecord
<1>11. TablesHold'
  BY <1>0, <1>9, TablesStay
<1>12. /\ walk.cursor = None => walk.seen = {}
       /\ walk.cursor # None => /\ walk.cursor \in Times
                                /\ \A r \in walk.seen \cap All : row[r].createdAt >= walk.cursor
                                /\ \A r \in S : row[r].createdAt < walk.cursor
       /\ walk.seen \subseteq All \cup removed
  BY <1>0, <1>1 DEF PagesInv, SeenIsBehind, Before, WalkRecord
<1>13. walk.seen \cap items = {}
  <2>. SUFFICES ASSUME NEW r \in walk.seen \cap items PROVE FALSE
    OBVIOUS
  <2>1. r \in All /\ row[r].createdAt \in Nat /\ walk.cursor # None
    BY <1>0, <1>5, <1>12, RowsHaveTimes
  <2>2. row[r].createdAt >= walk.cursor /\ row[r].createdAt < walk.cursor /\ walk.cursor \in Nat
    BY <1>5, <1>12, <2>1, PagesAssumption
  <2>. QED BY <2>1, <2>2
<1>14. SeenIsBehind'
  <2>1. seen \subseteq All \cup removed
    BY <1>5, <1>7, <1>12
  <2>2. ASSUME next # None, NEW r \in seen \cap All
        PROVE  row[r].createdAt >= next
    <3>1. S \ items # {} /\ next \in Dated(items) /\ next \in Nat
      BY <1>4, <2>2, PagesAssumption
    <3>2. CASE r \in items
      BY <1>4, <3>1, <3>2
    <3>3. CASE r \notin items
      <4>1. r \in walk.seen \cap All /\ walk.cursor # None
        BY <1>7, <1>12, <2>2, <3>3
      <4>2. row[r].createdAt >= walk.cursor /\ walk.cursor \in Nat /\ row[r].createdAt \in Nat
        BY <1>0, <1>12, <4>1, PagesAssumption, RowsHaveTimes
      <4>3. next < walk.cursor
        BY <1>5, <1>12, <3>1, <4>1 DEF Dated
      <4>. QED BY <3>1, <4>2, <4>3
    <3>. QED BY <3>2, <3>3
  <2>3. next = None => done
    BY <1>4, <1>6, PagesAssumption
  <2>. QED BY <1>10, <2>1, <2>2, <2>3, TablesStay DEF SeenIsBehind
<1>15. SteadyIsListed' /\ KnownCovers' /\ ShownFromTop'
  BY <1>0, <1>10, TablesStay
     DEF PagesInv, SteadyIsListed, KnownCovers, ShownFromTop, CursorLists, OffsetLists
<1>16. PagesRespectAccess'
  <2>1. walk.list = "hashtag" \/ (walk.list = "feed" /\ walk.changes = 0) => hidden = walk.hidden
    BY <1>1, <1>5, <1>7 DEF Before
  <2>. QED BY <1>0, <1>10, <2>1 DEF PagesInv, PagesRespectAccess
<1>17. CursorWalksCover'
  <2>1. again = {}
    BY <1>0, <1>7, <1>13 DEF PagesInv, CursorWalksCover
  <2>2. ASSUME NEW r \in walk.steady, done \/ (next # None /\ row[r].createdAt >= next)
        PROVE  r \in seen \cup beside \/ walk.degraded
    <3>. SUFFICES ASSUME ~walk.degraded PROVE r \in seen \cup beside
      OBVIOUS
    <3>1. r \in rows
      OBVIOUS
    <3>2. CASE r \in S
      <4>1. CASE r \in items
        BY <1>7, <4>1
      <4>2. CASE r \notin items
        <5>1. ~done /\ S \ items # {}
          BY <1>6, <3>2, <4>2
        <5>2. row[r].createdAt \in Dated(items)
          BY <1>4, <2>2, <3>2, <4>2, <5>1
        <5>. QED BY <1>7, <3>2, <4>2, <5>2
      <4>. QED BY <4>1, <4>2
    <3>3. CASE r \notin S
      <4>1. walk.cursor # None /\ ~(row[r].createdAt < walk.cursor)
        BY <1>1, <3>1, <3>3 DEF Before
      <4>2. row[r].createdAt >= walk.cursor
        <5>1. row[r].createdAt \in Nat
          BY <1>0, <3>1, RowsHaveTimes
        <5>2. walk.cursor \in Nat
          BY <1>12, <4>1, PagesAssumption
        <5>. QED BY <4>1, <5>1, <5>2
      <4>3. Passed(r)
        BY <4>1, <4>2 DEF Passed
      <4>. QED BY <1>0, <1>7, <4>3 DEF PagesInv, CursorWalksCover
    <3>. QED BY <3>2, <3>3
  <2>. QED BY <1>10, <2>1, <2>2 DEF CursorWalksCover, Passed
<1>. QED BY <1>11, <1>14, <1>15, <1>16, <1>17 DEF PagesInv

\* Rows of different times have one order: the newest n of them are one set.
LEMMA OneTop ==
  ASSUME TablesHold, TimesDiffer, NEW n \in Nat, NEW S \in Newest(All, n), NEW T \in Newest(All, n)
  PROVE  S = T
<1>0. PagesTypeOK /\ IsFiniteSet(All)
  BY DEF TablesHold
<1>1. /\ S \subseteq All /\ IsFiniteSet(S)
      /\ Cardinality(S) = IF n <= Cardinality(All) THEN n ELSE Cardinality(All)
      /\ \A r \in S, s \in All \ S : row[r].createdAt >= row[s].createdAt
  BY <1>0, NewestRows
<1>2. /\ T \subseteq All /\ IsFiniteSet(T)
      /\ Cardinality(T) = IF n <= Cardinality(All) THEN n ELSE Cardinality(All)
      /\ \A r \in T, s \in All \ T : row[r].createdAt >= row[s].createdAt
  BY <1>0, NewestRows
<1>3. S \subseteq T \/ T \subseteq S
  <2>. SUFFICES ASSUME NEW r \in S \ T, NEW s \in T \ S PROVE FALSE
    OBVIOUS
  <2>1. row[r].createdAt >= row[s].createdAt /\ row[s].createdAt >= row[r].createdAt
    BY <1>1, <1>2
  <2>2. row[r].createdAt \in Nat /\ row[s].createdAt \in Nat
    BY <1>0, <1>1, <1>2, RowsHaveTimes
  <2>3. row[r].createdAt = row[s].createdAt /\ r # s /\ r \in All /\ s \in All
    BY <1>1, <1>2, <2>1, <2>2
  <2>. QED BY <2>3 DEF TimesDiffer
<1>4. Cardinality(S) = Cardinality(T)
  BY <1>1, <1>2
<1>5. CASE S \subseteq T
  BY <1>2, <1>4, <1>5, FS_Subset
<1>6. CASE T \subseteq S
  BY <1>1, <1>4, <1>6, FS_Subset
<1>. QED BY <1>3, <1>5, <1>6

\* The newest n of a list and the newest m of the rest are the newest n + m.
LEMMA NextPage ==
  ASSUME PagesTypeOK, IsFiniteSet(All), NEW n \in Nat, NEW m \in Nat,
         NEW top \in Newest(All, n), NEW items \in Newest(All \ top, m)
  PROVE  /\ top \cup items \in Newest(All, n + m) /\ top \cap items = {}
         /\ ~(n + m < Cardinality(All)) => All \subseteq top \cup items
<1>1. /\ top \subseteq All /\ IsFiniteSet(top)
      /\ Cardinality(All) \in Nat /\ Cardinality(top) \in Nat
      /\ Cardinality(top) = IF n <= Cardinality(All) THEN n ELSE Cardinality(All)
      /\ \A r \in top, s \in All \ top : row[r].createdAt >= row[s].createdAt
  BY NewestRows
<1>2. /\ items \subseteq All \ top /\ IsFiniteSet(items) /\ IsFiniteSet(All \ top)
      /\ Cardinality(All \ top) \in Nat /\ Cardinality(items) \in Nat
      /\ Cardinality(items) = IF m <= Cardinality(All \ top) THEN m ELSE Cardinality(All \ top)
      /\ \A r \in items, s \in (All \ top) \ items : row[r].createdAt >= row[s].createdAt
  <2>1. \A S \in SUBSET All : \A T \in Newest(S, m) :
          /\ T \subseteq S /\ IsFiniteSet(T) /\ IsFiniteSet(S)
          /\ Cardinality(S) \in Nat /\ Cardinality(T) \in Nat
          /\ Cardinality(T) = IF m <= Cardinality(S) THEN m ELSE Cardinality(S)
          /\ \A r \in T, s \in S \ T : row[r].createdAt >= row[s].createdAt
    BY NewestRows
  <2>2. All \ top \in SUBSET All
    OBVIOUS
  <2>. QED BY <2>1, <2>2
<1>3. top \cap items = {}
  BY <1>2
<1>4. Cardinality(All \ top) = Cardinality(All) - Cardinality(top)
  <2>1. \A T : Cardinality(All \ T) = Cardinality(All) - Cardinality(All \cap T)
    BY FS_Difference
  <2>2. All \cap top = top
    BY <1>1
  <2>. QED BY <2>1, <2>2
<1>5. /\ IsFiniteSet(top \cup items)
      /\ Cardinality(top \cup items) = Cardinality(top) + Cardinality(items)
  <2>1. Cardinality(top \cup items) =
          Cardinality(top) + Cardinality(items) - Cardinality(top \cap items)
    BY <1>1, <1>2, FS_Union
  <2>2. Cardinality(top \cap items) = 0
    BY <1>3, FS_EmptySet
  <2>3. IsFiniteSet(top \cup items)
    BY <1>1, <1>2, FS_Union
  <2>. QED BY <1>1, <1>2, <2>1, <2>2, <2>3
<1>6. Cardinality(top \cup items) =
        IF n + m <= Cardinality(All) THEN n + m ELSE Cardinality(All)
  <2>1. CASE n <= Cardinality(All)
    BY <1>1, <1>2, <1>4, <1>5, <2>1
  <2>2. CASE ~(n <= Cardinality(All))
    BY <1>1, <1>2, <1>4, <1>5, <2>2
  <2>. QED BY <2>1, <2>2
<1>7. Cardinality(top \cup items) = Min({n + m, Cardinality(All)})
  <2>1. Min({n + m, Cardinality(All)}) =
          IF n + m <= Cardinality(All) THEN n + m ELSE Cardinality(All)
    BY <1>1, LesserOfTwo
  <2>. QED BY <1>6, <2>1
<1>8. \A r \in top \cup items, s \in All \ (top \cup items) :
        row[r].createdAt >= row[s].createdAt
  BY <1>1, <1>2
<1>9. top \cup items \in Newest(All, n + m)
  BY <1>1, <1>2, <1>7, <1>8 DEF Newest
<1>10. ASSUME ~(n + m < Cardinality(All)) PROVE All \subseteq top \cup items
  <2>1. Cardinality(top \cup items) = Cardinality(All)
    BY <1>1, <1>6, <1>10
  <2>2. top \cup items \subseteq All
    BY <1>1, <1>2
  <2>. QED BY <2>1, <2>2, FS_Subset
<1>. QED BY <1>3, <1>9, <1>10

\* A page of a list by offset.
LEMMA OffsetPageKeeps ==
  ASSUME PagesInv, UNCHANGED <<row, removed, connected>>, Walking(OffsetLists), OffsetPage
  PROVE  PagesInv'
<1>0. /\ TablesHold /\ walk # None /\ walk.list \in OffsetLists /\ walk \in WalkRecord
      /\ ~walk.done /\ PagesTypeOK /\ IsFiniteSet(All)
  BY DEF PagesInv, TablesHold, Walking, PagesTypeOK
<1>1. walk.limit \in Nat \ {0} /\ walk.page \in Nat \ {0}
  BY <1>0 DEF WalkRecord
<1>2. PICK n \in Nat : n = (walk.page - 1) * walk.limit
  BY <1>1
<1>3. walk.page * walk.limit = n + walk.limit
  <2>1. \A p, l \in Nat : p * l = (p - 1) * l + l
    OBVIOUS
  <2>. QED BY <1>1, <1>2, <2>1
<1>3a. PICK total \in Nat : total = Counted /\ total <= Cardinality(All)
  <2>1. Cardinality(All) \in Nat /\ ResultWindow \in Nat
    BY <1>0, FS_CardinalityType, PagesAssumption
  <2>2. Min({Cardinality(All), ResultWindow}) =
          IF Cardinality(All) <= ResultWindow THEN Cardinality(All) ELSE ResultWindow
    BY <2>1, LesserOfTwo
  <2>. QED BY <2>1, <2>2 DEF Counted
<1>4. PICK skipped \in Newest(All, n) : \E rows \in Newest(All \ skipped, walk.limit) :
        walk' = [Show(rows, ~HasMorePages(total, walk.page, walk.limit)) EXCEPT
                   !.page = @ + 1]
  BY <1>2, <1>3a DEF OffsetPage
<1>5. PICK items \in Newest(All \ skipped, walk.limit) :
        walk' = [Show(items, ~HasMorePages(total, walk.page, walk.limit)) EXCEPT
                   !.page = @ + 1]
  BY <1>4
<1>6. PICK done \in BOOLEAN : done <=> ~(n + walk.limit < total)
  OBVIOUS
<1>7. items \subseteq All /\ All \subseteq Rows
  BY DEF Newest, All
<1>8. PICK seen \in SUBSET Rows, again \in SUBSET Rows :
        seen = walk.seen \cup items /\ again = walk.again \cup (walk.seen \cap items)
  BY <1>0, <1>7 DEF WalkRecord
<1>9. PICK page \in Nat \ {0} : page = walk.page + 1
  BY <1>1
<1>10. walk' = [walk EXCEPT !.seen = seen, !.again = again, !.done = done, !.page = page]
  BY <1>0, <1>3, <1>5, <1>6, <1>8, <1>9 DEF WalkRecord, Show, HasMorePages
<1>11. walk' \in WalkRecord
  BY <1>0, <1>10 DEF WalkRecord
<1>12. /\ walk'.list = walk.list /\ walk'.limit = walk.limit /\ walk'.cursor = walk.cursor
       /\ walk'.page = page /\ walk'.done = done /\ walk'.seen = seen
       /\ walk'.again = again /\ walk'.beside = walk.beside
       /\ walk'.steady = walk.steady /\ walk'.changes = walk.changes
       /\ walk'.known = walk.known /\ walk'.hidden = walk.hidden
       /\ walk'.degraded = walk.degraded
  BY <1>0, <1>10 DEF WalkRecord
<1>13. TablesHold'
  BY <1>0, <1>11, TablesStay
<1>14. SeenIsBehind'
  <2>1. seen \subseteq All \cup removed
    BY <1>0, <1>7, <1>8 DEF PagesInv, SeenIsBehind
  <2>. QED BY <1>0, <1>12, <2>1, TablesStay DEF SeenIsBehind, CursorLists, OffsetLists
<1>15. SteadyIsListed'
  BY <1>0, <1>12, TablesStay DEF PagesInv, SteadyIsListed
<1>16. KnownCovers' /\ CursorWalksCover' /\ PagesRespectAccess'
  BY <1>0, <1>12 DEF PagesInv, KnownCovers, CursorWalksCover, PagesRespectAccess,
                     CursorLists, OffsetLists
<1>17. ShownFromTop'
  <2>. SUFFICES ASSUME walk.changes = 0, TimesDiffer
                PROVE  /\ again = {} /\ ~walk.degraded
                       /\ seen \in Newest(All, n + walk.limit)
                       /\ done => All \subseteq seen \/ total < Cardinality(All)
    <3>1. TimesDiffer' => TimesDiffer
      BY TablesStay DEF TimesDiffer
    <3>2. (page - 1) * walk.limit = n + walk.limit
      BY <1>1, <1>3, <1>9
    <3>3. \A m : Newest(All, m)' = Newest(All, m)
      BY DEF Newest, All
    <3>4. Counted' = total /\ Cardinality(All)' = Cardinality(All)
      BY <1>12, <1>3a DEF Counted, All
    <3>. QED BY <1>0, <1>12, <3>1, <3>2, <3>3, <3>4, TablesStay DEF ShownFromTop
  <2>1. walk.again = {} /\ ~walk.degraded /\ walk.seen \in Newest(All, n)
    BY <1>0, <1>2 DEF PagesInv, ShownFromTop
  <2>2. walk.seen = skipped
    BY <1>0, <2>1, OneTop
  <2>3. /\ skipped \cup items \in Newest(All, n + walk.limit) /\ skipped \cap items = {}
        /\ ~(n + walk.limit < Cardinality(All)) => All \subseteq skipped \cup items
    BY <1>0, <1>1, NextPage
  <2>4. Cardinality(All) \in Nat
    BY <1>0, FS_CardinalityType
  <2>. QED BY <1>6, <1>8, <1>3a, <2>1, <2>2, <2>3, <2>4
<1>. QED BY <1>13, <1>14, <1>15, <1>16, <1>17 DEF PagesInv

\* A page that is refused ends the walk, and shows nothing.
LEMMA RefusedKeeps ==
  ASSUME PagesInv, UNCHANGED <<row, removed, connected>>,
         Walking(CursorLists \cup OffsetLists), Refused
  PROVE  PagesInv'
<1>0. /\ TablesHold /\ walk # None /\ walk \in WalkRecord
      /\ walk' = [walk EXCEPT !.done = TRUE, !.degraded = TRUE]
  BY DEF PagesInv, TablesHold, Walking, PagesTypeOK, Refused
<1>1. walk' \in WalkRecord
  BY <1>0 DEF WalkRecord
<1>2. /\ walk'.list = walk.list /\ walk'.limit = walk.limit /\ walk'.cursor = walk.cursor
      /\ walk'.page = walk.page /\ walk'.done = TRUE /\ walk'.seen = walk.seen
      /\ walk'.again = walk.again /\ walk'.beside = walk.beside
      /\ walk'.steady = walk.steady /\ walk'.changes = walk.changes
      /\ walk'.known = walk.known /\ walk'.hidden = walk.hidden
      /\ walk'.degraded = TRUE
  BY <1>0 DEF WalkRecord
<1>3. TablesHold'
  BY <1>0, <1>1, TablesStay
<1>4. SeenIsBehind'
  BY <1>0, <1>2, TablesStay DEF PagesInv, SeenIsBehind
<1>5. SteadyIsListed'
  BY <1>0, <1>2, TablesStay DEF PagesInv, SteadyIsListed
<1>6. KnownCovers' /\ CursorWalksCover' /\ PagesRespectAccess'
  BY <1>0, <1>2 DEF PagesInv, KnownCovers, CursorWalksCover, PagesRespectAccess
<1>7. ShownFromTop'
  <2>1. TimesDiffer' => TimesDiffer
    BY TablesStay DEF TimesDiffer
  <2>. QED BY <1>0, <1>2, <2>1 DEF PagesInv, ShownFromTop
<1>. QED BY <1>3, <1>4, <1>5, <1>6, <1>7 DEF PagesInv

\* The pages of the feed, of a hashtag, of comments, messages and notifications are
\* pages by cursor.
LEMMA ListsKeep ==
  ASSUME PagesInv,
         GetFeed \/ PostsByHashtag \/ ListComments \/ ListThread \/ ListForRecipient
  PROVE  PagesInv'
<1>0. walk # None /\ UNCHANGED <<row, removed, connected>>
  BY DEF GetFeed, PostsByHashtag, ListComments, ListThread, ListForRecipient, Walking
<1>1. CASE GetFeed
  <2>1. /\ Walking({"feed"}) /\ Walking(CursorLists) /\ walk.known # None /\ walk.list = "feed"
        /\ CursorPage(FeedRows(walk.known.connections, walk.known.following))
    BY <1>1 DEF GetFeed, Walking, CursorLists
  <2>2. PICK rows \in SUBSET All :
          rows = FeedRows(walk.known.connections, walk.known.following)
    BY DEF FeedRows
  <2>3. walk.degraded \/ walk.steady \subseteq rows
    BY <1>0, <2>1, <2>2 DEF PagesInv, KnownCovers
  <2>4. ASSUME walk.changes = 0 PROVE \A r \in rows : CanView(r, connected)
    <3>1. walk.known.connections \subseteq connected
      BY <1>0, <2>1, <2>4 DEF PagesInv, KnownCovers
    <3>. QED BY <2>2, <3>1 DEF FeedRows, CanView
  <2>. QED BY <1>0, <2>1, <2>2, <2>3, <2>4, CursorPageKeeps
<1>2. CASE PostsByHashtag
  <2>1. Walking(CursorLists) /\ walk.list = "hashtag" /\ CursorPage(HashtagRows)
    BY <1>2 DEF PostsByHashtag, Walking, CursorLists
  <2>2. HashtagRows \in SUBSET All /\ \A r \in HashtagRows : CanView(r, connected)
    BY DEF HashtagRows, CanView
  <2>3. walk.steady \subseteq HashtagRows
    BY <1>0, <2>1 DEF PagesInv, SteadyIsListed, Listed
  <2>. QED BY <1>0, <2>1, <2>2, <2>3, CursorPageKeeps
<1>3. CASE ListComments \/ ListThread \/ ListForRecipient
  <2>1. /\ Walking(CursorLists) /\ walk.list \in {"comments", "thread", "notifications"}
        /\ CursorPage(All) \/ Refused
    BY <1>3 DEF ListComments, ListThread, ListForRecipient, Walking, CursorLists
  <2>2. walk.steady \subseteq All
    BY <1>0, <2>1 DEF PagesInv, SteadyIsListed, Listed
  <2>3. Walking(CursorLists \cup OffsetLists)
    BY <2>1 DEF Walking
  <2>. QED BY <1>0, <2>1, <2>2, <2>3, CursorPageKeeps, RefusedKeeps
<1>. QED BY <1>1, <1>2, <1>3

\* Every step of the lists and of their client keeps the invariant.
LEMMA PagesNextKeeps == PagesInv /\ [PagesNext]_pageVars => PagesInv'
<1>. SUFFICES ASSUME PagesInv, [PagesNext]_pageVars PROVE PagesInv'
  OBVIOUS
<1>1. CASE UNCHANGED pageVars
  <2>1. UNCHANGED <<row, removed, connected>> /\ walk' = walk
    BY <1>1 DEF pageVars
  <2>2. walk \in WalkRecord \cup {None}
    BY DEF PagesInv, TablesHold, PagesTypeOK
  <2>3. TablesHold'
    BY <2>1, <2>2, TablesStay DEF PagesInv
  <2>4. SeenIsBehind' /\ SteadyIsListed' /\ KnownCovers'
    BY <2>1, TablesStay DEF PagesInv, SeenIsBehind, SteadyIsListed, KnownCovers
  <2>5. ShownFromTop'
    BY <2>1 DEF PagesInv, ShownFromTop, TimesDiffer, All, Newest, Counted
  <2>6. CursorWalksCover' /\ PagesRespectAccess'
    BY <2>1 DEF PagesInv, CursorWalksCover, PagesRespectAccess, Passed
  <2>. QED BY <2>3, <2>4, <2>5, <2>6 DEF PagesInv
<1>2. CASE ListJobs \/ ListCompanies
  <2>1. UNCHANGED <<row, removed, connected>> /\ Walking(OffsetLists) /\ OffsetPage
    BY <1>2 DEF ListJobs, ListCompanies, Walking, OffsetLists
  <2>. QED BY <2>1, OffsetPageKeeps
<1>3. CASE Search
  <2>1. /\ UNCHANGED <<row, removed, connected>> /\ Walking(OffsetLists)
        /\ OffsetPage \/ Refused
    BY <1>3 DEF Search, Walking, OffsetLists
  <2>2. Walking(CursorLists \cup OffsetLists)
    BY <2>1 DEF Walking
  <2>. QED BY <2>1, <2>2, OffsetPageKeeps, RefusedKeeps
<1>. QED BY <1>1, <1>2, <1>3, TablesKeep, StartWalkKeeps, GetIdsKeeps, ListsKeep DEF PagesNext

\* The tables start empty and nobody asks.
LEMMA PagesInitEstablishes == PagesInit => PagesInv
<1>. SUFFICES ASSUME PagesInit PROVE PagesInv
  OBVIOUS
<1>1. All = {} /\ walk = None
  BY DEF PagesInit, All
<1>2. PagesTypeOK
  BY DEF PagesInit, PagesTypeOK
<1>3. TablesHold
  BY <1>1, <1>2, FS_EmptySet DEF TablesHold
<1>. QED BY <1>1, <1>3 DEF PagesInv, SeenIsBehind, SteadyIsListed, KnownCovers, ShownFromTop,
                           CursorWalksCover, PagesRespectAccess

\* Rows and walks keep their types, each limit within its bounds.
THEOREM PagesTypeCorrect == PagesSpec => []PagesTypeOK
<1>1. PagesInv => PagesTypeOK
  BY DEF PagesInv, TablesHold
<1>. QED BY <1>1, PagesInitEstablishes, PagesNextKeeps, PTL DEF PagesSpec

\* Who pages through a list is shown what stays in it, once, in the cases and up to
\* the exceptions WalksCoverTheList names, however many rows come, change and go.
THEOREM WalksAreComplete == PagesSpec => []WalksCoverTheList
<1>1. PagesInv => WalksCoverTheList
  <2>1. ASSUME PagesInv PROVE OffsetWalksCover
    BY <2>1 DEF PagesInv, ShownFromTop, TimesDiffer, OffsetWalksCover
  <2>. QED BY <2>1 DEF PagesInv, WalksCoverTheList
<1>. QED BY <1>1, PagesInitEstablishes, PagesNextKeeps, PTL DEF PagesSpec
-----------------------------------------------------------------------------
(* Side by side, as MCShared runs them. *)

\* A step of one component is a step or a stutter of each.
LEMMA ComponentsStep ==
  ASSUME [SharedNext]_sharedVars
  PROVE  /\ [LimiterNext]_limiterVars /\ [RabbitNext]_rabbitVars /\ [MediaNext]_mediaVars
         /\ [PagesNext]_pageVars /\ [SectionNext]_sectionVars
BY DEF SharedNext, sharedVars

\* What all services share keeps its types, each part by the invariant of its own.
THEOREM SharedTypesCorrect == SharedSpec => []SharedTypes
<1>. DEFINE Inv == LimiterInv /\ RabbitInv /\ MediaInv /\ PagesInv /\ SectionInv
<1>1. SharedInit => Inv
  BY LimiterInitEstablishes, RabbitInitEstablishes, MediaInitEstablishes,
     PagesInitEstablishes, SectionInitEstablishes DEF SharedInit
<1>2. Inv /\ [SharedNext]_sharedVars => Inv'
  BY ComponentsStep, LimiterNextKeeps, RabbitNextKeeps, MediaNextKeeps, PagesNextKeeps,
     SectionNextKeeps
<1>3. Inv => SharedTypes
  BY DEF LimiterInv, RabbitInv, MediaInv, PagesInv, TablesHold, SectionInv, SharedTypes
<1>. QED BY <1>1, <1>2, <1>3, PTL DEF SharedSpec
=============================================================================
