------------------------------ MODULE RateLimiter ------------------------------
(***************************************************************************)
(* The fixed-window rate limiter of the gateway: INCR, EXPIRE after the    *)
(* first INCR of a window, TTL, in Redis calls that may fail before or     *)
(* after Redis acted.  A call that fails lets the request through; so does *)
(* the gateway's death let the limiter forget what it was about to do.     *)
(***************************************************************************)
EXTENDS Absent, Integers, FiniteSets

CONSTANTS Counters,    \* keys: prefix, client and path
          Calls,       \* requests in the middleware
          Budget,      \* options.max
          MaxWindows,  \* bound: windows of a key
          MaxHits      \* bound: requests counted in a window

CallRecord == [key : Counters, pc : {"expire", "ttl"}, count : 1 .. MaxHits,
               window : 1 .. MaxWindows]

ASSUME LimiterAssumption ==
  /\ Budget \in Nat \ {0} /\ MaxWindows \in Nat \ {0} /\ MaxHits \in Nat
  /\ None \notin CallRecord

VARIABLES hits,      \* the counter of each key in Redis, 0 for no key
          expiring,  \* keys that have a time to live
          call,      \* requests in the middleware
          window,    \* history: the number of the key's window
          passed,    \* history: the counts let through, by key and window
          endless    \* history: keys counted for the first time by a request
                     \* whose INCR or EXPIRE failed, or which died

limiterVars == <<hits, expiring, call, window, passed, endless>>
-----------------------------------------------------------------------------
LimiterTypeOK ==
  /\ hits \in [Counters -> 0 .. MaxHits]
  /\ expiring \subseteq Counters
  /\ call \in [Calls -> CallRecord \cup {None}]
  /\ window \in [Counters -> 1 .. MaxWindows]
  /\ passed \in [Counters -> [1 .. MaxWindows -> SUBSET (1 .. MaxHits)]]
  /\ endless \subseteq Counters

CallAt(c, pc) == call[c] # None /\ call[c].pc = pc

LimiterInit ==
  /\ hits = [k \in Counters |-> 0] /\ expiring = {}
  /\ call = [c \in Calls |-> None]
  /\ window = [k \in Counters |-> 1]
  /\ passed = [k \in Counters |-> [w \in 1 .. MaxWindows |-> {}]]
  /\ endless = {}
-----------------------------------------------------------------------------
Hit(k) == hits[k] < MaxHits /\ hits' = [hits EXCEPT ![k] = @ + 1]

\* Mutant of Incr: the expiry set by the second request of a window.
IncrOffByOne(c, k) ==
  /\ call[c] = None /\ Hit(k)
  /\ call' = [call EXCEPT ![c] =
       [key |-> k, pc |-> IF hits[k] = 1 THEN "expire" ELSE "ttl",
        count |-> hits[k] + 1, window |-> window[k]]]
  /\ UNCHANGED <<expiring, window, passed, endless>>

\* A request is counted; the first of a window has the key expire.
Incr(c, k) ==
  /\ call[c] = None /\ Hit(k)
  /\ call' = [call EXCEPT ![c] =
       [key |-> k, pc |-> IF hits[k] = 0 THEN "expire" ELSE "ttl",
        count |-> hits[k] + 1, window |-> window[k]]]
  /\ UNCHANGED <<expiring, window, passed, endless>>

\* Redis counted, and the reply was lost: the request goes through uncounted.
IncrUnanswered(k) ==
  /\ Hit(k)
  /\ endless' = IF hits[k] = 0 THEN endless \cup {k} ELSE endless
  /\ UNCHANGED <<expiring, call, window, passed>>

Expire(c) ==
  /\ CallAt(c, "expire")
  /\ expiring' = expiring \cup {call[c].key}
  /\ call' = [call EXCEPT ![c].pc = "ttl"]
  /\ UNCHANGED <<hits, window, passed, endless>>

\* Redis set the expiry, and the reply was lost: the request goes through.
ExpireUnanswered(c) ==
  /\ CallAt(c, "expire")
  /\ expiring' = expiring \cup {call[c].key}
  /\ call' = [call EXCEPT ![c] = None]
  /\ UNCHANGED <<hits, window, passed, endless>>

\* The time to live is only told to the client; within the budget the request
\* goes on, beyond it it is refused.
Admit(c) ==
  /\ CallAt(c, "ttl")
  /\ passed' = IF call[c].count > Budget THEN passed
               ELSE [passed EXCEPT ![call[c].key][call[c].window] = @ \cup {call[c].count}]
  /\ call' = [call EXCEPT ![c] = None]
  /\ UNCHANGED <<hits, expiring, window, endless>>

\* EXPIRE or TTL fails, or the gateway dies with the request in it.
CallFails(c) ==
  /\ call[c] # None
  /\ endless' = IF call[c].pc = "expire" THEN endless \cup {call[c].key} ELSE endless
  /\ call' = [call EXCEPT ![c] = None]
  /\ UNCHANGED <<hits, expiring, window, passed>>

WindowEnds(k) ==
  /\ k \in expiring /\ window[k] < MaxWindows
  /\ hits' = [hits EXCEPT ![k] = 0] /\ expiring' = expiring \ {k}
  /\ window' = [window EXCEPT ![k] = @ + 1]
  /\ UNCHANGED <<call, passed, endless>>

LimiterNext ==
  \/ \E c \in Calls : \/ Expire(c) \/ ExpireUnanswered(c) \/ Admit(c) \/ CallFails(c)
                      \/ \E k \in Counters : Incr(c, k)
  \/ \E k \in Counters : IncrUnanswered(k) \/ WindowEnds(k)

LimiterSpec == LimiterInit /\ [][LimiterNext]_limiterVars
-----------------------------------------------------------------------------
\* Requests counted in one window take different places in its budget, also
\* one that is decided only after the window ended.
PlacesAreTakenOnce ==
  /\ \A k \in Counters, w \in 1 .. MaxWindows : passed[k][w] \subseteq 1 .. Budget
  /\ \A c \in Calls : call[c] # None =>
       /\ call[c].count \notin passed[call[c].key][call[c].window]
       /\ \A d \in Calls \ {c} : call[d] # None =>
            ~(/\ call[d].key = call[c].key /\ call[d].window = call[c].window
              /\ call[d].count = call[c].count)

\* A key that counts will expire, unless the one request that had to see to it
\* failed in between: that key, and only that, counts for ever.
CountersExpire ==
  /\ \A k \in Counters : hits[k] > 0 =>
       \/ k \in expiring \/ k \in endless
       \/ \E c \in Calls : CallAt(c, "expire") /\ call[c].key = k
  /\ expiring \cap endless = {}

\* The limiter lets at most the budget through per key and window by its count,
\* whenever windows end and Redis fails, and refuses a client for longer than a
\* window only when setting the expiry failed (rateLimiter.ts:35-38).
LimiterKeepsItsWindows == PlacesAreTakenOnce /\ CountersExpire
=============================================================================
