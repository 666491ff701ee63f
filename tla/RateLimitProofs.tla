-------------------------- MODULE RateLimitProofs ---------------------------
(***************************************************************************)
(* Proofs about RateLimit, for any limit, window, set of clients and       *)
(* resolution of the clock, and for a process that runs forever.           *)
(*                                                                         *)
(* The bound of twice the limit is not inductive: it compares a request    *)
(* with one 2 * Limit earlier, and what keeps them apart is the window     *)
(* each of the requests between them was counted in.                       *)
(***************************************************************************)
EXTENDS RateLimit, TLAPS

\* Requests of c let through in the current window.
InWindow(c) == IF counts[c] <= Limit THEN counts[c] ELSE Limit

\* When the requests of c passed: those counted in earlier windows before this
\* one opened, and those a full limit earlier a whole window before that.
History(c) ==
  /\ \A i \in 1..Len(passed[c]) :
       /\ passed[c][i] <= resetAt
       /\ i <= Len(passed[c]) - InWindow(c) => passed[c][i] < resetAt - Window
       /\ i <= Len(passed[c]) - InWindow(c) - Limit =>
            passed[c][i] + Window < resetAt - Window
  /\ \A i \in 1..Len(passed[c]) :
       i + 2 * Limit <= Len(passed[c]) =>
         passed[c][i + 2 * Limit] - passed[c][i] > Window

\* A client told when to come back has been told a time after this window, or
\* has not asked since it opened.
Advice(c) == backoff[c] # 0 => resetAt < backoff[c] \/ counts[c] = 0

Inv ==
  /\ TypeOK
  /\ resetAt - Window <= now
  /\ OnlyThisWindow
  /\ \A c \in Client : History(c) /\ Advice(c)

\* The constants as the arithmetic below needs them.
LEMMA Rate ==
  /\ Limit \in Nat /\ Window \in Nat /\ Second \in Nat
  /\ Limit > 0 /\ Window > 0 /\ Second > 0
  BY RateAssumption

\* A request counted in a window that has ended is older than the next one.
LEMMA Older ==
  ASSUME NEW t \in Nat, NEW r \in Nat, NEW next \in Nat, next > r + Window
  PROVE  /\ t <= r => t < next - Window
         /\ t < r - Window => t + Window < next - Window
  BY Rate

\* A request a whole window before the window of the one at hand.
LEMMA Apart ==
  ASSUME NEW t \in Nat, NEW r \in Nat, NEW when \in Nat,
         t + Window < r - Window, r - Window <= when
  PROVE  when - t > Window
  BY Rate

\* Retry-After, rounded up from the seconds left, is longer than what is left.
LEMMA RetryAfterEnough ==
  ASSUME NEW left \in Nat
  PROVE  RetryAfter(left) \in Nat /\ left < RetryAfter(left)
  <1> DEFINE s == left \div Second
             m == left % Second
  <1>1. s \in Nat /\ m \in Nat /\ m < Second /\ left = s * Second + m
    BY Rate
  <1>2. (s + 1) * Second = s * Second + Second
    BY <1>1, Rate
  <1>3. s * Second \in Nat
    BY <1>1, Rate
  <1> HIDE DEF s, m
  <1>4. left < (s + 1) * Second /\ (s + 1) * Second \in Nat
    BY <1>1, <1>2, <1>3, Rate
  <1> QED
    BY <1>4 DEF RetryAfter, s

\* An empty map and a first window from the start of the process.
LEMMA InitInv == Init => Inv
  BY Rate
  DEF Init, Inv, TypeOK, OnlyThisWindow, History, Advice, InWindow

\* What counting a request does to the window, the map and the asker's entry,
\* whether or not the window rolls over.
LEMMA Recorded ==
  ASSUME Inv, NEW c \in Client, Record(c), now' = now
  PROVE  /\ resetAt' \in Nat /\ resetAt' - Window <= now /\ now <= resetAt'
         /\ known' \subseteq Client
         /\ counts' \in [Client -> Nat] /\ counts'[c] = Before(c) + 1
         /\ asked' \in [Client -> Nat \cup {-1}]
         /\ OnlyThisWindow'
         /\ \/ RolledOver /\ resetAt' = now + Window /\ resetAt < now
               /\ Before(c) = 0 /\ \A d \in Client \ {c} : counts'[d] = 0
            \/ ~ RolledOver /\ resetAt' = resetAt /\ Before(c) = counts[c]
               /\ \A d \in Client \ {c} : counts'[d] = counts[d]
  <1> USE Rate
  <1>1. now \in Nat /\ resetAt \in Nat /\ resetAt - Window <= now
    BY DEF Inv, TypeOK
  <1>2. /\ resetAt' \in Nat /\ resetAt' - Window <= now /\ now <= resetAt'
        /\ RolledOver => resetAt' = now + Window /\ resetAt < now
        /\ ~ RolledOver => resetAt' = resetAt
    BY <1>1 DEF Record, WindowEnd, RolledOver
  <1>3. /\ counts' \in [Client -> Nat] /\ counts'[c] = Before(c) + 1
        /\ \A d \in Client \ {c} : counts'[d] = Before(d)
    BY DEF Record, Before, Inv, TypeOK
  <1>4. /\ known' \subseteq Client
        /\ asked' \in [Client -> Nat \cup {-1}] /\ asked'[c] = now
        /\ \A d \in Client \ {c} : asked'[d] = asked[d]
    BY DEF Record, Inv, TypeOK
  <1>5. OnlyThisWindow'
    <2> SUFFICES ASSUME NEW d \in known'
                 PROVE  resetAt' - Window <= asked'[d] /\ asked'[d] <= resetAt'
      BY DEF OnlyThisWindow
    <2>1. CASE d = c
      BY <2>1, <1>2, <1>4
    <2>2. CASE d # c
      <3>1. ~ RolledOver /\ d \in known
        BY <2>2 DEF Record
      <3> QED
        BY <2>2, <3>1, <1>2, <1>4 DEF Inv, TypeOK, OnlyThisWindow
    <2> QED BY <2>1, <2>2
  <1> QED
    BY <1>2, <1>3, <1>4, <1>5 DEF Before

\* A client whose requests did not pass in a step keeps its history: what a
\* window that rolls over leaves behind is older than the new one.
LEMMA HistoryKept ==
  ASSUME Inv, NEW d \in Client, passed'[d] = passed[d],
         resetAt' \in Nat, counts'[d] \in Nat,
         \/ resetAt' > resetAt + Window /\ counts'[d] = 0
         \/ resetAt' = resetAt /\ InWindow(d)' = InWindow(d)
  PROVE  History(d)'
  <1> USE Rate
  <1>1. /\ resetAt \in Nat /\ counts[d] \in Nat /\ passed[d] \in Seq(Nat)
        /\ History(d)
    BY DEF Inv, TypeOK
  <1>2. InWindow(d) \in Nat /\ InWindow(d) <= Limit
    BY <1>1 DEF InWindow
  <1>3. CASE resetAt' = resetAt /\ InWindow(d)' = InWindow(d)
    BY <1>1, <1>3 DEF History
  <1>4. CASE resetAt' > resetAt + Window /\ counts'[d] = 0
    <2>1. InWindow(d)' = 0
      BY <1>4 DEF InWindow
    <2>2. ASSUME NEW i \in 1..Len(passed[d])
          PROVE  /\ passed[d][i] < resetAt' - Window
                 /\ i <= Len(passed[d]) - Limit =>
                      passed[d][i] + Window < resetAt' - Window
      <3>1. passed[d][i] \in Nat /\ Len(passed[d]) \in Nat
        BY <1>1
      <3>2. passed[d][i] <= resetAt
        BY <1>1 DEF History
      <3>3. i <= Len(passed[d]) - Limit => passed[d][i] < resetAt - Window
        BY <1>1, <1>2, <3>1 DEF History
      <3> QED BY <1>1, <1>4, <3>1, <3>2, <3>3, Older
    <2>3. ASSUME NEW i \in 1..Len(passed[d]) PROVE passed[d][i] \in Nat
      BY <1>1
    <2> QED
      BY <1>1, <2>1, <2>2, <2>3 DEF History
  <1> QED
    BY <1>3, <1>4

\* The request just let through: 2 * Limit requests ago is more than a window.
LEMMA HistoryExtended ==
  ASSUME Inv, NEW c \in Client, Allow(c)
  PROVE  History(c)'
  <1> USE Rate
  <1> DEFINE s == passed[c]
             n == Len(passed[c])
             k == InWindow(c)
  <1>1. /\ now \in Nat /\ resetAt \in Nat /\ counts[c] \in Nat
        /\ s \in Seq(Nat) /\ n \in Nat /\ History(c)
        /\ \A i \in 1..n : s[i] \in Nat
    BY DEF Inv, TypeOK
  <1>2. k \in Nat /\ k <= Limit
    BY <1>1 DEF InWindow
  <1>9. \A i \in 1..n : i + 2 * Limit <= n => s[i + 2 * Limit] - s[i] > Window
    BY <1>1 DEF History
  <1>3. /\ passed'[c] = Append(s, now) /\ Len(passed'[c]) = n + 1
        /\ passed'[c][n + 1] = now /\ \A i \in 1..n : passed'[c][i] = s[i]
    BY <1>1 DEF Allow, Inv, TypeOK
  <1>4. /\ Record(c) /\ now' = now /\ Before(c) < Limit
        /\ resetAt' \in Nat /\ resetAt' - Window <= now /\ now <= resetAt'
        /\ counts'[c] = Before(c) + 1
    BY Recorded DEF Allow
  <1>5. InWindow(c)' = Before(c) + 1 /\ Before(c) \in Nat
    BY <1>1, <1>4 DEF InWindow, Before
  \* What was said of the history before, said of the window as it is now.
  <1>6. ASSUME NEW i \in 1..n
        PROVE  /\ s[i] <= resetAt'
               /\ i <= n - Before(c) => s[i] < resetAt' - Window
               /\ i <= n - Before(c) - Limit => s[i] + Window < resetAt' - Window
    <2>1. /\ s[i] <= resetAt
          /\ i <= n - k => s[i] < resetAt - Window
          /\ i <= n - k - Limit => s[i] + Window < resetAt - Window
      BY <1>1 DEF History
    <2>2. CASE RolledOver
      <3>1. resetAt' = now + Window /\ resetAt < now /\ Before(c) = 0
        BY <2>2, <1>4, Recorded
      <3>2. i <= n - Limit => i <= n - k
        BY <1>1, <1>2
      <3> QED BY <1>1, <2>1, <3>1, <3>2
    <2>3. CASE ~ RolledOver
      <3>1. resetAt' = resetAt /\ Before(c) = counts[c]
        BY <2>3, <1>4, Recorded
      <3>2. k = Before(c)
        BY <1>1, <1>4, <3>1 DEF InWindow
      <3> QED BY <2>1, <3>1, <3>2
    <2> QED BY <2>2, <2>3
  <1> HIDE DEF s, n, k
  <1>7. ASSUME NEW i \in 1..(n + 1)
        PROVE  /\ passed'[c][i] <= resetAt'
               /\ i <= (n + 1) - InWindow(c)' => passed'[c][i] < resetAt' - Window
               /\ i <= (n + 1) - InWindow(c)' - Limit =>
                    passed'[c][i] + Window < resetAt' - Window
    <2>1. CASE i = n + 1
      BY <2>1, <1>1, <1>3, <1>4, <1>5
    <2>2. CASE i \in 1..n
      <3>1. passed'[c][i] = s[i]
        BY <2>2, <1>3
      <3>2. /\ i <= (n + 1) - InWindow(c)' => i <= n - Before(c)
            /\ i <= (n + 1) - InWindow(c)' - Limit => i <= n - Before(c) - Limit
        BY <2>2, <1>1, <1>5
      <3> QED BY <2>2, <3>1, <3>2, <1>6
    <2> QED BY <1>1, <2>1, <2>2
  <1>8. ASSUME NEW i \in 1..(n + 1), i + 2 * Limit <= n + 1
        PROVE  passed'[c][i + 2 * Limit] - passed'[c][i] > Window
    <2>1. CASE i + 2 * Limit = n + 1
      <3>1. i \in 1..n /\ i <= n - Before(c) - Limit
        BY <2>1, <1>1, <1>4, <1>5
      <3>2. s[i] + Window < resetAt' - Window
        BY <3>1, <1>6
      <3>3. passed'[c][i + 2 * Limit] = now /\ passed'[c][i] = s[i] /\ s[i] \in Nat
        BY <2>1, <3>1, <1>1, <1>3
      <3>4. \A t \in Nat : t + Window < resetAt' - Window => now - t > Window
        BY <1>1, <1>4, Apart
      <3> QED BY <3>2, <3>3, <3>4
    <2>2. CASE i + 2 * Limit <= n
      <3>1. i \in 1..n /\ i + 2 * Limit \in 1..n
        BY <2>2, <1>1
      <3>2. s[i + 2 * Limit] - s[i] > Window
        BY <2>2, <3>1, <1>9
      <3>3. passed'[c][i] = s[i] /\ passed'[c][i + 2 * Limit] = s[i + 2 * Limit]
        BY <3>1, <1>3
      <3> QED BY <3>2, <3>3
    <2>3. i + 2 * Limit = n + 1 \/ i + 2 * Limit <= n
      BY <1>1, <1>8
    <2> QED BY <2>1, <2>2, <2>3
  <1> QED
    BY <1>3, <1>7, <1>8 DEF History

\* Time passes, and every request, let through or refused, keeps the invariant.
LEMMA StepInv == Inv /\ [Next]_vars => Inv'
  <1> SUFFICES ASSUME Inv, [Next]_vars PROVE Inv'
    OBVIOUS
  <1> USE Rate
  <1>1. CASE Tick
    BY <1>1 DEF Tick, Inv, TypeOK, OnlyThisWindow, History, Advice, InWindow
  <1>2. ASSUME NEW c \in Client, Allow(c) PROVE Inv'
    <2>1. Record(c) /\ now' = now /\ now \in Nat
      BY <1>2 DEF Allow, Inv, TypeOK
    <2>2. /\ passed' \in [Client -> Seq(Nat)] /\ backoff' \in [Client -> Nat]
          /\ backoff'[c] = 0
          /\ \A d \in Client \ {c} : passed'[d] = passed[d] /\ backoff'[d] = backoff[d]
      BY <1>2 DEF Allow, Inv, TypeOK
    <2>3. TypeOK' /\ (resetAt - Window <= now)' /\ OnlyThisWindow'
      BY <2>1, <2>2, Recorded DEF TypeOK
    <2>4. ASSUME NEW d \in Client \ {c} PROVE History(d)'
      <3>1. resetAt \in Nat /\ resetAt' \in Nat /\ counts'[d] \in Nat
        BY <2>1, Recorded DEF Inv, TypeOK
      <3>2. \/ resetAt' > resetAt + Window /\ counts'[d] = 0
            \/ resetAt' = resetAt /\ InWindow(d)' = InWindow(d)
        <4>1. CASE RolledOver
          <5>1. /\ resetAt' = now + Window /\ resetAt < now
                /\ \A e \in Client \ {c} : counts'[e] = 0
            BY <4>1, <2>1, Recorded
          <5> QED BY <5>1, <2>1, <3>1
        <4>2. CASE ~ RolledOver
          BY <4>2, <2>1, Recorded DEF InWindow
        <4> QED BY <4>1, <4>2
      <3> QED BY <2>2, <3>1, <3>2, HistoryKept
    <2>5. ASSUME NEW d \in Client PROVE Advice(d)'
      <3>1. CASE d = c
        BY <3>1, <2>2 DEF Advice
      <3>2. CASE d # c
        BY <3>2, <2>1, <2>2, Recorded DEF Inv, Advice
      <3> QED BY <3>1, <3>2
    <2> QED
      BY <1>2, <2>3, <2>4, <2>5, HistoryExtended DEF Inv
  <1>3. ASSUME NEW c \in Client, Refuse(c) PROVE Inv'
    <2>1. Record(c) /\ now' = now /\ now \in Nat /\ passed' = passed
          /\ counts[c] \in Nat /\ resetAt \in Nat
      BY <1>3 DEF Refuse, Inv, TypeOK
    <2>2. ~ RolledOver /\ Limit <= counts[c] /\ resetAt' = resetAt
          /\ counts'[c] = counts[c] + 1
      BY <1>3, <2>1, Recorded DEF Refuse
    <2>3. now <= resetAt /\ WindowEnd = resetAt
      BY <2>1, <2>2, Recorded DEF WindowEnd
    <2>4. RetryAfter(WindowEnd - now) \in Nat
          /\ resetAt - now < RetryAfter(WindowEnd - now)
      BY <2>1, <2>3, RetryAfterEnough
    <2>5. /\ backoff' \in [Client -> Nat]
          /\ backoff'[c] = now + RetryAfter(WindowEnd - now)
          /\ \A d \in Client \ {c} : backoff'[d] = backoff[d]
      BY <1>3, <2>1, <2>4 DEF Refuse, Inv, TypeOK
    <2>6. TypeOK' /\ (resetAt - Window <= now)' /\ OnlyThisWindow'
      BY <2>1, <2>5, Recorded DEF Inv, TypeOK
    <2>7. ASSUME NEW d \in Client PROVE History(d)'
      <3>1. resetAt' \in Nat /\ counts'[d] \in Nat /\ passed'[d] = passed[d]
        BY <2>1, Recorded
      <3>2. InWindow(d)' = InWindow(d)
        BY <2>1, <2>2, Recorded DEF InWindow
      <3> QED BY <2>2, <3>1, <3>2, HistoryKept
    <2>8. ASSUME NEW d \in Client PROVE Advice(d)'
      <3>1. CASE d = c
        BY <3>1, <2>1, <2>2, <2>4, <2>5 DEF Advice
      <3>2. CASE d # c
        BY <3>2, <2>1, <2>2, <2>5, Recorded DEF Inv, Advice
      <3> QED BY <3>1, <3>2
    <2> QED
      BY <2>6, <2>7, <2>8 DEF Inv
  <1>4. CASE UNCHANGED vars
    BY <1>4 DEF vars, Inv, TypeOK, OnlyThisWindow, History, Advice, InWindow
  <1> QED
    BY <1>1, <1>2, <1>3, <1>4 DEF Next

\* The invariant holds as long as the process runs.
THEOREM InvHolds == Spec => []Inv
  BY InitInv, StepInv, PTL DEF Spec

\* Counters and instants are natural numbers, of known clients.
THEOREM TypesHold == Spec => []TypeOK
  <1>1. Inv => TypeOK
    BY DEF Inv
  <1> QED
    BY <1>1, InvHolds, PTL

\* "A fixed window lets a caller send 2N requests across a window boundary":
\* 2N is a bound, for any span of time as long as a window.
THEOREM AtMostTwiceTheLimitHolds == Spec => []AtMostTwiceTheLimit
  <1>1. Inv => AtMostTwiceTheLimit
    <2> SUFFICES ASSUME Inv, NEW c \in Client, NEW i \in DOMAIN passed[c],
                        i + 2 * Limit \in DOMAIN passed[c]
                 PROVE  passed[c][i + 2 * Limit] - passed[c][i] > Window
      BY DEF AtMostTwiceTheLimit
    <2>1. DOMAIN passed[c] = 1..Len(passed[c]) /\ Len(passed[c]) \in Nat
      BY DEF Inv, TypeOK
    <2>2. i \in 1..Len(passed[c]) /\ i + 2 * Limit <= Len(passed[c])
      BY <2>1, Rate
    <2> QED
      BY <2>2 DEF Inv, History
  <1> QED
    BY <1>1, InvHolds, PTL

\* The map holds clients of one window only, so it does not grow with time.
THEOREM OnlyThisWindowHolds == Spec => []OnlyThisWindow
  <1>1. Inv => OnlyThisWindow
    BY DEF Inv
  <1> QED
    BY <1>1, InvHolds, PTL

\* A client that waits as long as Retry-After says is let through next time.
THEOREM BackingOffWorksHolds == Spec => BackingOffWorks
  <1> DEFINE Served == \A c \in Client :
                         counts'[c] # counts[c] /\ counts'[c] > Limit =>
                           backoff[c] = 0 \/ now < backoff[c]
  <1>1. Inv /\ [Next]_vars => [Served]_vars
    <2> SUFFICES ASSUME Inv, Next, NEW c \in Client,
                        counts'[c] # counts[c], counts'[c] > Limit
                 PROVE  backoff[c] = 0 \/ now < backoff[c]
      OBVIOUS
    <2> USE Rate
    <2>1. now \in Nat /\ resetAt \in Nat /\ counts[c] \in Nat /\ backoff[c] \in Nat
      BY DEF Inv, TypeOK
    <2>2. CASE Tick
      BY <2>2 DEF Tick
    <2>3. ASSUME NEW d \in Client, Allow(d) \/ Refuse(d)
          PROVE  ~ RolledOver /\ counts[c] # 0
      <3>1. Record(d) /\ now' = now
        BY <2>3 DEF Allow, Refuse
      <3>2. CASE d = c
        BY <3>1, <3>2, <2>1, Recorded
      <3>3. CASE d # c
        BY <3>1, <3>3, <2>1, Recorded
      <3> QED BY <3>2, <3>3
    <2> QED
      BY <2>1, <2>2, <2>3 DEF Next, Inv, Advice, RolledOver
  <1> QED
    BY <1>1, InvHolds, PTL DEF Spec, BackingOffWorks

=============================================================================
