----------------------------- MODULE RateLimit ------------------------------
(***************************************************************************)
(* internal/api/middleware/ratelimit.go: a fixed-window limiter, one       *)
(* counter per client address, one mutex.  allow() runs under the mutex    *)
(* and reads the monotonic clock inside it, so a request is one step.      *)
(* Time is counted in ticks finer than the seconds of Retry-After.         *)
(***************************************************************************)
EXTENDS Integers, Sequences

CONSTANTS
  Client,     \* the addresses requests come from
  Limit,      \* requests a client may make in a window
  Window,     \* the length of a window, in ticks
  Second,     \* ticks in a second, the unit of Retry-After
  MaxNow,     \* bound: the clock stops here
  MaxRefused  \* bound: refusals of one client in a window

ASSUME RateAssumption ==
  /\ Limit \in Nat \ {0} /\ Window \in Nat \ {0} /\ Second \in Nat \ {0}
  /\ MaxNow \in Nat /\ MaxRefused \in Nat

VARIABLES
  now,       \* time.Now()
  resetAt,   \* end of the current window
  known,     \* the clients counts has an entry for
  counts,    \* the entries; 0 for a client that has none
  passed,    \* history: when each client's requests were let through
  asked,     \* history: when each client last asked, allowed or not
  backoff    \* history: when a refused client was told to come back; 0 for none

vars == <<now, resetAt, known, counts, passed, asked, backoff>>

Init ==
  /\ now = 0
  /\ resetAt = Window
  /\ known = {}
  /\ counts  = [c \in Client |-> 0]
  /\ passed  = [c \in Client |-> <<>>]
  /\ asked   = [c \in Client |-> -1]
  /\ backoff = [c \in Client |-> 0]

Tick ==
  /\ now < MaxNow
  /\ now' = now + 1
  /\ UNCHANGED <<resetAt, known, counts, passed, asked, backoff>>

\* now.After(resetAt): the instant resetAt itself is still the old window.
RolledOver == now > resetAt

\* Variant for a mutant: the next window starts where the last one ended.
WindowEndChained == IF RolledOver THEN resetAt + Window ELSE resetAt

WindowEnd == IF RolledOver THEN now + Window ELSE resetAt

\* The entry of c once the sweep, if there is one, has emptied the map.
Before(c) == IF RolledOver THEN 0 ELSE counts[c]

\* Variant for a mutant: only the entry at hand is reset, the others stay.
RecordKeeping(c) ==
  /\ resetAt' = WindowEnd
  /\ known'   = known \cup {c}
  /\ counts'  = [counts EXCEPT ![c] = Before(c) + 1]
  /\ asked'   = [asked EXCEPT ![c] = now]

\* The sweep drops the whole map; then counts[key]++.
Record(c) ==
  /\ resetAt' = WindowEnd
  /\ known'   = (IF RolledOver THEN {} ELSE known) \cup {c}
  /\ counts'  = [d \in Client |->
                   IF d = c THEN Before(c) + 1 ELSE Before(d)]
  /\ asked'   = [asked EXCEPT ![c] = now]

Allow(c) ==
  /\ Before(c) < Limit
  /\ Record(c)
  /\ passed'  = [passed EXCEPT ![c] = Append(@, now)]
  /\ backoff' = [backoff EXCEPT ![c] = 0]
  /\ UNCHANGED now

\* Variant for a mutant: Retry-After rounded down.
RetryAfterFloor(left) == (left \div Second) * Second

\* int(seconds) + 1, back in ticks.
RetryAfter(left) == (left \div Second + 1) * Second

\* 429 with Retry-After; a refused request is counted like any other.
Refuse(c) ==
  /\ Limit <= Before(c) /\ Before(c) < Limit + MaxRefused
  /\ Record(c)
  /\ backoff' = [backoff EXCEPT ![c] = now + RetryAfter(WindowEnd - now)]
  /\ UNCHANGED <<now, passed>>

Next == Tick \/ \E c \in Client : Allow(c) \/ Refuse(c)

Spec == Init /\ [][Next]_vars

-----------------------------------------------------------------------------

TypeOK ==
  /\ now \in Nat /\ resetAt \in Nat
  /\ known \subseteq Client
  /\ counts  \in [Client -> Nat]
  /\ passed  \in [Client -> Seq(Nat)]
  /\ asked   \in [Client -> Nat \cup {-1}]
  /\ backoff \in [Client -> Nat]

\* "A fixed window lets a caller send 2N requests across a window boundary" and
\* never more: of any 2N + 1 that pass, the first and last are over a window apart.
AtMostTwiceTheLimit ==
  \A c \in Client : \A i \in DOMAIN passed[c] :
    i + 2 * Limit \in DOMAIN passed[c] =>
      passed[c][i + 2 * Limit] - passed[c][i] > Window

\* "Memory is proportional to clients seen in one window": every client in the
\* map asked since the current window opened, however long the process runs.
OnlyThisWindow ==
  \A c \in known : resetAt - Window <= asked[c] /\ asked[c] <= resetAt

\* A client that waits as long as Retry-After says, then asks, is let through,
\* whatever other clients did to the window in between.
BackingOffWorks ==
  [][\A c \in Client :
       counts'[c] # counts[c] /\ counts'[c] > Limit =>
         backoff[c] = 0 \/ now < backoff[c]]_vars

=============================================================================
