------------------------- MODULE DailySummaryProofs -------------------------
(* Proofs about DailySummary for every length of the day, the second, the    *)
(* least wait and a publish that ClockAssumption allows.                     *)
EXTENDS DailySummary, TLAPS

-----------------------------------------------------------------------------
(* The arithmetic of days and whole seconds.                                 *)

LEMMA Rounding ==
  ASSUME NEW n \in Nat, NEW d \in Nat \ {0}
  PROVE  /\ n \div d \in Nat
         /\ d * (n \div d) <= n /\ n < d * (n \div d) + d
OBVIOUS

LEMMA Whole ==
  ASSUME NEW k \in Nat, NEW d \in Nat \ {0}
  PROVE  (k * d) \div d = k /\ (k * d) % d = 0
OBVIOUS

LEMMA Multiple ==
  ASSUME NEW n \in Nat, NEW d \in Nat \ {0}, n % d = 0
  PROVE  n = (n \div d) * d /\ n \div d \in Nat
OBVIOUS

LEMMA OneLess ==
  ASSUME NEW n \in Nat, n <= 2, n # 2
  PROVE  n <= 1
OBVIOUS

LEMMA Monotone ==
  ASSUME NEW a \in Nat, NEW b \in Nat, a <= b, NEW d \in Nat
  PROVE  a * d <= b * d
OBVIOUS

LEMMA Between ==
  ASSUME NEW a \in Nat, NEW b \in Nat, NEW d \in Nat \ {0}, a * d < b * d + d
  PROVE  a <= b
<1>1. SUFFICES ASSUME b + 1 <= a
               PROVE  FALSE
  OBVIOUS
<1>2. (b + 1) * d <= a * d
  BY <1>1, Monotone
<1> QED
  BY <1>2

LEMMA Constants ==
  /\ Day \in Nat \ {0} /\ Second \in Nat \ {0} /\ MinWait \in Nat \ {0}
  /\ Latency \in Nat \ {0} /\ MaxPublish \in Nat \ {0} /\ Days \in Nat \ {0}
  /\ MaxMessages \in Nat \ {0}
  /\ Latency <= Second /\ Second <= MinWait
  /\ MinWait + 2 * Latency + MaxPublish < Day
<1>1. Second <= MinWait
  <2>1. MinWait % Second = 0 /\ MinWait \in Nat \ {0} /\ Second \in Nat \ {0}
    BY ClockAssumption
  <2>2. SUFFICES ASSUME MinWait < Second
                 PROVE  FALSE
    BY <2>1
  <2>3. MinWait % Second = MinWait
    BY <2>1, <2>2
  <2> QED
    BY <2>1, <2>3
<1> QED
  BY <1>1, ClockAssumption

LEMMA DayOfNow ==
  ASSUME now \in 0..(Days * Day)
  PROVE  /\ Today \in 0..Days
         /\ Midnight = (Today + 1) * Day
         /\ Midnight \in Nat /\ now < Midnight /\ Midnight <= now + Day
<1>1. /\ Today \in Nat /\ Day * Today <= now /\ now < Day * Today + Day
      /\ now \in Nat /\ Days * Day \in Nat
  BY Rounding, Constants DEF Today
<1>2. Today <= Days
  <2>1. SUFFICES ASSUME Days + 1 <= Today
                 PROVE  FALSE
    BY <1>1, Constants
  <2>2. (Days + 1) * Day <= Today * Day
    BY <2>1, <1>1, Monotone, Constants
  <2> QED
    BY <2>2, <1>1, Constants
<1> QED
  BY <1>1, <1>2, Constants DEF Midnight

LEMMA WaitBounds ==
  ASSUME now \in 0..(Days * Day)
  PROVE  /\ Wait(Midnight) \in Nat /\ Wait(Midnight) >= MinWait
         /\ now + Wait(Midnight) > Midnight - Second
         /\ now + Wait(Midnight) <= Midnight + MinWait
<1> DEFINE left == Midnight - now
           whole == Second * (left \div Second)
<1>1. left \in Nat /\ now \in Nat /\ Midnight \in Nat
  BY DayOfNow, Constants
<1>2. whole \in Nat /\ whole <= left /\ left < whole + Second
  BY <1>1, Rounding, Constants
<1>3. Wait(Midnight) = MaxOf(MinWait, whole)
  BY DEF Wait
<1> HIDE DEF left, whole
<1>4. /\ Wait(Midnight) \in Nat /\ Wait(Midnight) >= whole /\ Wait(Midnight) >= MinWait
      /\ Wait(Midnight) = whole \/ Wait(Midnight) = MinWait
  BY <1>2, <1>3, Constants DEF MaxOf
<1> USE DEF left
<1> QED
  BY <1>1, <1>2, <1>4, DayOfNow, Constants

-----------------------------------------------------------------------------
(* The inductive invariant.                                                  *)

\* A sleeping loop waits for its midnight from less than a second before it to
\* the least wait after it, and is resumed in time.
Awaits ==
  /\ loop = "sleeping" =>
       next_tick - Second < due /\ due <= next_tick + MinWait
  /\ loop # "none" => Day <= next_tick /\ now <= due + Latency

\* Between the payload's reading and the reset only what arrived in between is
\* in the counters and not in the payload.
Accounted ==
  /\ counters \cap told = {} /\ counters \cap unsent = {} /\ told \cap unsent = {}
  /\ (1..received) \ (overlapped \cup unsent) \subseteq counters \cup told
  /\ loop = "publishing" => counters \ payload \subseteq overlapped

\* The day of the summary the loop is at is the last that may have one: at most
\* one while it sleeps, and then the sleep lasts past midnight.
Turns ==
  /\ \A d \in Date : Len(published[d]) <= 2
  /\ loop # "none" =>
       \A d \in Date : /\ ForDate < d => published[d] = <<>>
                       /\ since <= d /\ d < ForDate => published[d] # <<>>
  /\ loop = "sleeping" =>
       \A d \in Date : d = ForDate =>
         Len(published[d]) <= 1 /\ (published[d] # <<>> => next_tick <= due)
  /\ loop = "publishing" =>
       /\ next_tick - Second < now
       /\ due <= next_tick + MinWait + Latency + MaxPublish
       /\ ForDate \in Date /\ published[ForDate] # <<>>
       /\ Len(published[ForDate]) = 2 => next_tick <= now

SummaryInv == TypeOK /\ Awaits /\ Accounted /\ Turns /\ SummaryOnTime

LEMMA SummaryInit == Init => SummaryInv
<1> SUFFICES ASSUME Init
             PROVE  SummaryInv
  OBVIOUS
<1>1. /\ 0 \in 0..(Days * Day) /\ 0 \in 0..((Days + 1) * Day)
      /\ 0 \in 0..((Days + 2) * Day) /\ 0 % Day = 0
      /\ 0 \in 0..Days /\ 0 \in 0..MaxMessages
  <2>1. 0 <= Days * Day /\ 0 <= (Days + 1) * Day /\ 0 <= (Days + 2) * Day
    BY Constants
  <2> QED
    BY <2>1, Constants
<1>2. <<>> \in Seq(0..(Days * Day))
  OBVIOUS
<1>3. TypeOK
  <2>1. published \in [Date -> Seq(0..(Days * Day))]
    BY <1>2 DEF Init
  <2> HIDE DEF Date
  <2> QED
    BY <1>1, <2>1 DEF Init, TypeOK
<1>4. Awaits /\ Accounted
  BY DEF Init, Awaits, Accounted
<1>5. Turns /\ SummaryOnTime
  BY DEF Init, Turns, SummaryOnTime
<1> QED
  BY <1>3, <1>4, <1>5 DEF SummaryInv

LEMMA TurnSound ==
  ASSUME TypeOK, TurnBegins
  PROVE  /\ loop' = "sleeping"
         /\ next_tick' \in 0..((Days + 1) * Day) /\ next_tick' % Day = 0
         /\ due' \in 0..((Days + 2) * Day) /\ Day <= next_tick'
         /\ next_tick' - Second < due' /\ due' <= next_tick' + MinWait
         /\ now <= due' + Latency
<1>1. /\ now \in 0..(Days * Day) /\ now \in Nat
      /\ loop' = "sleeping" /\ next_tick' = Midnight /\ due' = now + Wait(Midnight)
  BY Constants DEF TypeOK, TurnBegins
<1>2. /\ Today \in 0..Days /\ Midnight = (Today + 1) * Day /\ Midnight \in Nat
      /\ Wait(Midnight) \in Nat
      /\ now + Wait(Midnight) > Midnight - Second
      /\ now + Wait(Midnight) <= Midnight + MinWait
  BY <1>1, DayOfNow, WaitBounds
<1>3. Midnight % Day = 0
  BY <1>2, Whole, Constants
<1>4. /\ (Today + 1) * Day <= (Days + 1) * Day /\ 1 * Day <= (Today + 1) * Day
      /\ (Days + 2) * Day = (Days + 1) * Day + Day
      /\ (Days + 1) * Day \in Nat
  <2>1. Today + 1 \in Nat /\ Days + 1 \in Nat /\ Today + 1 <= Days + 1 /\ 1 <= Today + 1
    BY <1>2, Constants
  <2>2. (Today + 1) * Day <= (Days + 1) * Day /\ 1 * Day <= (Today + 1) * Day
    BY <2>1, Monotone, Constants
  <2> QED
    BY <2>2, Constants
<1> QED
  BY <1>1, <1>2, <1>3, <1>4, Constants

LEMMA CompletedSound ==
  ASSUME NEW summary, summary \subseteq counters, TypeOK, Accounted, Completed(summary),
         counters \ summary \subseteq overlapped, overlapped' = overlapped,
         received' = received
  PROVE  Accounted' /\ counters' = {} /\ payload' = {}
         /\ told' \cup unsent' \subseteq 1..received
<1>1. loop' = "sleeping"
  BY TurnSound DEF Completed
<1> QED
  BY <1>1 DEF Completed, Reported, Reset, Accounted, TypeOK

LEMMA CompletedTypes ==
  ASSUME TypeOK, TurnBegins, running, counters' = {}, payload' = {},
         told' \cup unsent' \subseteq 1..received,
         published' \in [Date -> Seq(0..(Days * Day))],
         UNCHANGED <<now, running, received, overlapped, since>>
  PROVE  TypeOK' /\ Awaits'
<1>1. /\ loop' = "sleeping"
      /\ next_tick' \in 0..((Days + 1) * Day) /\ next_tick' % Day = 0
      /\ due' \in 0..((Days + 2) * Day) /\ Day <= next_tick'
      /\ next_tick' - Second < due' /\ due' <= next_tick' + MinWait
      /\ now <= due' + Latency
  BY TurnSound
<1>2. Awaits'
  BY <1>1 DEF Awaits
<1> HIDE DEF Date
<1>3. TypeOK'
  BY <1>1 DEF TypeOK
<1> QED
  BY <1>2, <1>3

\* A turn after a summary of its day: the same midnight again when the loop woke
\* before it, otherwise the next one.
LEMMA TurnAfter ==
  ASSUME TypeOK, TurnBegins, Day <= next_tick,
         next_tick - Second < now, now <= next_tick + MinWait + MaxPublish + 2 * Latency
  PROVE  \/ /\ now < next_tick /\ ForDate' = ForDate /\ next_tick' = next_tick
            /\ next_tick' <= due'
         \/ next_tick <= now /\ ForDate' = ForDate + 1
<1> DEFINE k == next_tick \div Day
           m == Today + 1
<1>1. /\ now \in Nat /\ next_tick \in Nat /\ (Days + 1) * Day \in Nat
      /\ next_tick' = Midnight /\ due' = now + Wait(Midnight) /\ next_tick % Day = 0
      /\ now \in 0..(Days * Day)
  BY Constants DEF TypeOK, TurnBegins
<1>2. k \in Nat /\ next_tick = k * Day
  BY <1>1, Constants
<1>3. /\ m \in Nat \ {0} /\ Midnight = m * Day
      /\ m * Day \in Nat /\ now < m * Day /\ m * Day <= now + Day
  BY <1>1, DayOfNow, Constants
<1>4. (m * Day) \div Day = m
  BY <1>3, Whole, Constants
<1>5. ForDate = k - 1 /\ ForDate' = m - 1
  BY <1>1, <1>3, <1>4 DEF ForDate
<1>6. Wait(Midnight) \in Nat /\ Wait(Midnight) >= MinWait
  BY <1>1, WaitBounds
<1> HIDE DEF k, m
<1>7. CASE now < next_tick
  <2>1. m * Day < k * Day + Day /\ k * Day < m * Day + Day
    BY <1>1, <1>2, <1>3, <1>7, Constants
  <2>2. m = k
    BY <2>1, <1>2, <1>3, Between, Constants
  <2> QED
    BY <2>2, <1>1, <1>2, <1>3, <1>5, <1>6, <1>7, Constants
<1>8. CASE next_tick <= now
  <2>1. (k + 1) * Day = k * Day + Day /\ (k + 1) * Day \in Nat
    BY <1>2, Constants
  <2>2. m * Day < (k + 1) * Day + Day /\ (k + 1) * Day < m * Day + Day
    BY <2>1, <1>1, <1>2, <1>3, <1>8, Constants
  <2>3. m = k + 1
    BY <2>2, <1>2, <1>3, Between, Constants
  <2> QED
    BY <2>3, <1>2, <1>5, <1>8
<1> QED
  BY <1>1, <1>7, <1>8

\* The turn after a completed summary keeps what is said of the summaries.
LEMMA CompletedTurns ==
  ASSUME TypeOK, TurnBegins, Day <= next_tick, ForDate \in Date,
         next_tick - Second < now, now <= next_tick + MinWait + MaxPublish + 2 * Latency,
         published' \in [Date -> Seq(0..(Days * Day))], since' = since,
         published'[ForDate] # <<>>,
         Len(published'[ForDate]) = 2 => next_tick <= now,
         \A d \in Date : /\ Len(published'[d]) <= 2
                         /\ ForDate < d => published'[d] = <<>>
                         /\ since <= d /\ d < ForDate => published'[d] # <<>>
  PROVE  Turns'
<1>1. loop' = "sleeping"
  BY DEF TurnBegins
<1>2. Date \subseteq Int /\ ForDate \in Int /\ since \in Int /\ now \in Int /\ next_tick \in Int
  BY Constants DEF Date, TypeOK
<1>3. /\ \A d \in Date : Len(published'[d]) \in Nat
      /\ \A d \in Date : Len(published'[d]) = 0 <=> published'[d] = <<>>
  OBVIOUS
<1> HIDE DEF Date
<1>4. CASE /\ now < next_tick /\ ForDate' = ForDate /\ next_tick' = next_tick
           /\ next_tick' <= due'
  <2>1. Len(published'[ForDate]) <= 1
    <3>1. /\ Len(published'[ForDate]) \in Nat /\ Len(published'[ForDate]) <= 2
          /\ Len(published'[ForDate]) # 2
      BY <1>2, <1>3, <1>4
    <3> QED
      BY <3>1, OneLess
  <2> QED
    BY <2>1, <1>1, <1>2, <1>4 DEF Turns
<1>5. CASE next_tick <= now /\ ForDate' = ForDate + 1
  <2>1. ASSUME NEW d \in Date
        PROVE  /\ ForDate' < d => published'[d] = <<>>
               /\ since' <= d /\ d < ForDate' => published'[d] # <<>>
               /\ d = ForDate' => published'[d] = <<>>
    BY <1>2, <1>5
  <2>2. Len(<<>>) = 0
    OBVIOUS
  <2>3. \A d \in Date : d = ForDate' => Len(published'[d]) <= 1
    BY <2>1, <2>2
  <2> QED
    BY <2>1, <2>3, <1>1 DEF Turns
<1> QED
  BY <1>4, <1>5, TurnAfter

\* The summary that goes out when the sleep is over is its day's second only
\* after midnight, and on time.
LEMMA PublishedSound ==
  ASSUME SummaryInv, loop = "sleeping", due <= now, ForDate \in Date,
         published' = [published EXCEPT ![ForDate] = Append(@, now)], since' = since
  PROVE  /\ published' \in [Date -> Seq(0..(Days * Day))]
         /\ published'[ForDate] # <<>>
         /\ Len(published'[ForDate]) = 2 => next_tick <= now
         /\ \A d \in Date : /\ Len(published'[d]) <= 2
                            /\ ForDate < d => published'[d] = <<>>
                            /\ since <= d /\ d < ForDate => published'[d] # <<>>
         /\ next_tick - Second < now /\ now <= next_tick + MinWait + Latency
         /\ SummaryOnTime'
<1> USE DEF SummaryInv
<1>1. /\ published \in [Date -> Seq(0..(Days * Day))] /\ now \in 0..(Days * Day)
      /\ now \in Int /\ due \in Int /\ next_tick \in Nat /\ next_tick % Day = 0
  BY Constants DEF TypeOK
<1>2. /\ next_tick - Second < now /\ now <= next_tick + MinWait + Latency
      /\ Day <= next_tick
  BY <1>1, Constants DEF Awaits
<1>3. (ForDate + 1) * Day = next_tick
  <2>1. next_tick = (next_tick \div Day) * Day /\ next_tick \div Day \in Nat
    BY <1>1, Multiple, Constants
  <2> QED
    BY <2>1, Constants DEF ForDate
<1> DEFINE log == published[ForDate]
<1>4. /\ log \in Seq(0..(Days * Day)) /\ Len(log) \in Nat /\ Len(log) <= 1
      /\ log # <<>> => next_tick <= due
      /\ published'[ForDate] = Append(log, now)
      /\ \A d \in Date : d # ForDate => published'[d] = published[d]
  <2> HIDE DEF Date
  <2> QED
    BY <1>1 DEF Turns
<1>5. /\ Append(log, now) \in Seq(0..(Days * Day)) /\ Append(log, now) # <<>>
      /\ Len(Append(log, now)) = Len(log) + 1
      /\ \A i \in DOMAIN Append(log, now) :
           (i \in DOMAIN log /\ Append(log, now)[i] = log[i]) \/ Append(log, now)[i] = now
      /\ Len(log) = 1 => log # <<>>
  BY <1>1, <1>4
<1>6. published' \in [Date -> Seq(0..(Days * Day))]
  <2> HIDE DEF Date
  <2> QED
    BY <1>1, <1>4, <1>5
<1>7. \A d \in Date : d \in Int /\ ForDate \in Int
  BY Constants DEF Date
<1> HIDE DEF log, Date
<1>8. Len(published'[ForDate]) = 2 => next_tick <= now
  BY <1>1, <1>4, <1>5
<1>9. ASSUME NEW d \in Date
      PROVE  /\ Len(published'[d]) <= 2
             /\ ForDate < d => published'[d] = <<>>
             /\ since <= d /\ d < ForDate => published'[d] # <<>>
  <2>1. CASE d = ForDate
    BY <2>1, <1>4, <1>5, <1>7
  <2>2. CASE d # ForDate
    BY <2>2, <1>4 DEF Turns
  <2> QED
    BY <2>1, <2>2
<1>10. SummaryOnTime'
  <2> SUFFICES ASSUME NEW d \in Date, NEW i \in DOMAIN published'[d]
               PROVE  /\ published'[d][i] > (d + 1) * Day - Second
                      /\ published'[d][i] <= (d + 1) * Day + MinWait + Latency
    BY DEF SummaryOnTime
  <2>1. CASE d = ForDate /\ published'[d][i] = now
    BY <2>1, <1>2, <1>3
  <2>2. CASE i \in DOMAIN published[d] /\ published'[d][i] = published[d][i]
    BY <2>2 DEF SummaryOnTime
  <2> QED
    <3>1. CASE d = ForDate
      BY <3>1, <2>1, <2>2, <1>4, <1>5 DEF log
    <3>2. CASE d # ForDate
      BY <3>2, <2>2, <1>4
    <3> QED
      BY <3>1, <3>2
<1> QED
  BY <1>2, <1>4, <1>5, <1>6, <1>8, <1>9, <1>10

LEMMA SummaryStep == SummaryInv /\ [Next]_vars => SummaryInv'
<1> SUFFICES ASSUME SummaryInv, [Next]_vars
             PROVE  SummaryInv'
  OBVIOUS
<1> USE DEF SummaryInv
<1>1. CASE Start
  <2>1. /\ TurnBegins /\ ~running /\ running' = TRUE /\ since' = Today
        /\ published' = [d \in Date |-> <<>>]
        /\ UNCHANGED <<now, payload, counters, received, overlapped, told, unsent>>
    BY <1>1 DEF Start, history
  <2>2. /\ loop = "none" /\ now \in 0..(Days * Day) /\ loop' = "sleeping"
        /\ next_tick' = Midnight
    BY <2>1 DEF TypeOK, TurnBegins
  <2>3. /\ next_tick' \in 0..((Days + 1) * Day) /\ next_tick' % Day = 0
        /\ due' \in 0..((Days + 2) * Day) /\ Day <= next_tick'
        /\ next_tick' - Second < due' /\ due' <= next_tick' + MinWait
        /\ now <= due' + Latency
    BY <2>1, TurnSound
  <2>4. Today \in 0..Days /\ ForDate' = Today
    <3>1. Today \in 0..Days /\ next_tick' = (Today + 1) * Day
      BY <2>2, DayOfNow
    <3>2. ((Today + 1) * Day) \div Day = Today + 1
      BY <3>1, Whole, Constants
    <3> QED
      BY <3>1, <3>2, Constants DEF ForDate
  <2>5. \A d \in Date : published'[d] = <<>>
    BY <2>1
  <2>6. TypeOK'
    <3>1. published' \in [Date -> Seq(0..(Days * Day))]
      BY <2>1
    <3> HIDE DEF Date
    <3> QED
      BY <3>1, <2>1, <2>2, <2>3, <2>4 DEF TypeOK
  <2>7. Awaits' /\ Accounted'
    BY <2>1, <2>2, <2>3 DEF Awaits, Accounted
  <2>8. Turns'
    <3>1. \A d \in Date : ~(since' <= d /\ d < ForDate')
      BY <2>1, <2>4, Constants DEF Date
    <3> QED
      BY <3>1, <2>2, <2>5 DEF Turns
  <2>9. SummaryOnTime'
    BY <2>5 DEF SummaryOnTime
  <2> QED
    BY <2>6, <2>7, <2>8, <2>9
<1>2. CASE Stop
  <2>1. /\ running' = FALSE /\ loop' = "none" /\ payload' = {}
        /\ UNCHANGED <<now, next_tick, due, counters, received, overlapped, told,
                      unsent, since, published>>
    BY <1>2 DEF Stop, history, summaries
  <2>2. TypeOK'
    BY <2>1 DEF TypeOK
  <2>3. Awaits' /\ Accounted' /\ Turns' /\ SummaryOnTime'
    BY <2>1 DEF Awaits, Accounted, Turns, SummaryOnTime
  <2> QED
    BY <2>2, <2>3
<1>3. CASE NoteMessage
  <2>1. /\ received < MaxMessages /\ received' = received + 1
        /\ counters' = counters \cup {received + 1}
        /\ overlapped' = IF loop = "publishing" THEN overlapped \cup {received + 1}
                                                ELSE overlapped
        /\ UNCHANGED <<now, running, loop, next_tick, due, payload, told, unsent, since, published>>
    BY <1>3 DEF NoteMessage, summaries
  <2>2. received \in 0..MaxMessages /\ told \cup unsent \subseteq 1..received
    BY DEF TypeOK
  <2>3. /\ received' \in 0..MaxMessages /\ 1..received' = (1..received) \cup {received + 1}
        /\ received + 1 \notin told /\ received + 1 \notin unsent
    BY <2>1, <2>2, Constants
  <2>4. TypeOK'
    BY <2>1, <2>3 DEF TypeOK
  <2>5. Accounted'
    BY <2>1, <2>3 DEF Accounted
  <2>6. Awaits' /\ Turns' /\ SummaryOnTime'
    BY <2>1 DEF Awaits, Turns, SummaryOnTime, ForDate
  <2> QED
    BY <2>4, <2>5, <2>6
<1>4. CASE SleepEnds
  <2>1. /\ loop = "sleeping" /\ due <= now /\ ForDate \in Date
        /\ published' = [published EXCEPT ![ForDate] = Append(@, now)]
        /\ UNCHANGED <<now, running, received, overlapped, since>>
    BY <1>4, Constants DEF SleepEnds, TypeOK
  <2>2. /\ published' \in [Date -> Seq(0..(Days * Day))]
        /\ published'[ForDate] # <<>>
        /\ Len(published'[ForDate]) = 2 => next_tick <= now
        /\ \A d \in Date : /\ Len(published'[d]) <= 2
                           /\ ForDate < d => published'[d] = <<>>
                           /\ since <= d /\ d < ForDate => published'[d] # <<>>
        /\ next_tick - Second < now /\ now <= next_tick + MinWait + Latency
        /\ SummaryOnTime'
    BY <2>1, PublishedSound
  <2>3. now \in Nat /\ next_tick \in Nat /\ Day <= next_tick
    BY <2>1, Constants DEF TypeOK, Awaits
  <2>4. CASE Completed(counters)
    <3>1. TurnBegins
      BY <2>4 DEF Completed
    <3>2. Turns'
      BY <3>1, <2>1, <2>2, <2>3, CompletedTurns, Constants
    <3>3. Accounted' /\ counters' = {} /\ payload' = {} /\ told' \cup unsent' \subseteq 1..received
      BY <2>1, <2>4, CompletedSound
    <3>4. TypeOK' /\ Awaits'
      BY <3>1, <3>3, <2>1, <2>2, CompletedTypes DEF TypeOK
    <3> QED
      BY <3>2, <3>3, <3>4, <2>2
  <2>5. CASE /\ loop' = "publishing" /\ payload' = counters /\ due' = now + MaxPublish
             /\ UNCHANGED <<counters, told, unsent, next_tick>>
    <3>1. due' \in 0..((Days + 2) * Day)
      <4>1. /\ now <= Days * Day /\ (Days + 2) * Day = Days * Day + 2 * Day
            /\ Days * Day \in Nat
        BY Constants DEF TypeOK
      <4> QED
        BY <4>1, <2>3, <2>5, Constants
    <3>2. TypeOK'
      <4> HIDE DEF Date
      <4> QED
        BY <3>1, <2>1, <2>2, <2>5 DEF TypeOK
    <3>3. Awaits' /\ Accounted'
      BY <2>1, <2>3, <2>5, Constants DEF Awaits, Accounted
    <3>4. Turns'
      BY <2>1, <2>2, <2>3, <2>5, Constants DEF Turns, ForDate
    <3> QED
      BY <3>2, <3>3, <3>4, <2>2
  <2> QED
    BY <1>4, <2>4, <2>5 DEF SleepEnds
<1>5. CASE PublishEnds
  <2>1. /\ loop = "publishing" /\ Completed(payload) /\ TurnBegins
        /\ UNCHANGED <<now, running, received, overlapped, since, published>>
    BY <1>5 DEF PublishEnds, Completed, summaries
  <2>2. /\ now \in Nat /\ next_tick \in Nat /\ due \in Int /\ Day <= next_tick
        /\ now <= due + Latency
    BY <2>1, Constants DEF TypeOK, Awaits
  <2>3. /\ next_tick - Second < now
        /\ due <= next_tick + MinWait + Latency + MaxPublish
        /\ ForDate \in Date /\ published[ForDate] # <<>>
        /\ Len(published[ForDate]) = 2 => next_tick <= now
        /\ \A d \in Date : /\ Len(published[d]) <= 2
                           /\ ForDate < d => published[d] = <<>>
                           /\ since <= d /\ d < ForDate => published[d] # <<>>
    BY <2>1 DEF Turns
  <2>4. now <= next_tick + MinWait + MaxPublish + 2 * Latency
    BY <2>2, <2>3, Constants
  <2>5. published' \in [Date -> Seq(0..(Days * Day))]
    BY <2>1 DEF TypeOK
  <2>6. Turns'
    BY <2>1, <2>2, <2>3, <2>4, <2>5, CompletedTurns
  <2>7. Accounted' /\ counters' = {} /\ payload' = {} /\ told' \cup unsent' \subseteq 1..received
    BY <2>1, CompletedSound DEF TypeOK, Accounted
  <2>8. TypeOK' /\ Awaits'
    BY <2>1, <2>5, <2>7, CompletedTypes DEF TypeOK
  <2>9. SummaryOnTime'
    BY <2>1 DEF SummaryOnTime
  <2> QED
    BY <2>6, <2>7, <2>8, <2>9
<1>6. CASE Tick
  <2>1. /\ now < Days * Day /\ now' = now + 1
        /\ loop # "none" => now < due + Latency
        /\ UNCHANGED <<running, loop, next_tick, due, payload, counters, received,
                      overlapped, told, unsent, since, published>>
    BY <1>6 DEF Tick, history, summaries
  <2>2. now \in Nat /\ due \in Int /\ next_tick \in Int /\ Days * Day \in Nat
    BY Constants DEF TypeOK
  <2>3. now' \in 0..(Days * Day)
    BY <2>1, <2>2
  <2>4. TypeOK'
    BY <2>1, <2>3 DEF TypeOK
  <2>5. Awaits' /\ Accounted'
    BY <2>1, <2>2, Constants DEF Awaits, Accounted
  <2>6. Turns'
    BY <2>1, <2>2, Constants DEF Turns, ForDate
  <2>7. SummaryOnTime'
    BY <2>1 DEF SummaryOnTime
  <2> QED
    BY <2>4, <2>5, <2>6, <2>7
<1>7. CASE UNCHANGED vars
  <2>1. TypeOK' /\ Awaits'
    BY <1>7 DEF vars, history, summaries, TypeOK, Awaits
  <2>2. Accounted' /\ Turns' /\ SummaryOnTime'
    BY <1>7 DEF vars, history, summaries, Accounted, Turns, SummaryOnTime, ForDate
  <2> QED
    BY <2>1, <2>2
<1> QED
  BY <1>1, <1>2, <1>3, <1>4, <1>5, <1>6, <1>7 DEF Next

\* The invariant the theorems below rest on: at every point of its loop and its
\* publish, _daily_summary_loop() waits for the midnight next_tick names, has had a
\* publish for each of the days before it, and accounts for every message received.
THEOREM SummaryInvariant == Spec => []SummaryInv
BY SummaryInit, SummaryStep, PTL DEF Spec

-----------------------------------------------------------------------------
(* What follows from it.                                                     *)

\* The loop's deadlines stay around the midnight it waits for, and the counters
\* it reports are among those it keeps.
THEOREM TypeCorrect == Spec => []TypeOK
BY SummaryInvariant, PTL DEF SummaryInv

\* A day's summary goes out less than a second before its midnight at the
\* earliest, and at the latest the least wait and a late resumption after it.
THEOREM SummaryOnTimeHolds == Spec => []SummaryOnTime
BY SummaryInvariant, PTL DEF SummaryInv

\* No day is summarised a third time by one session, however short the loop's
\* waits come out.
THEOREM AtMostTwiceHolds == Spec => []AtMostTwice
<1>1. SummaryInv => AtMostTwice
  BY DEF SummaryInv, Turns, AtMostTwice
<1> QED
  BY <1>1, SummaryInvariant, PTL

\* A running session has tried to publish a summary of every day of its own
\* before the one its loop is at, and the loop keeps up with the clock.
THEOREM NoDayMissedHolds == Spec => []NoDayMissed
<1>1. SummaryInv => NoDayMissed
  <2> SUFFICES ASSUME SummaryInv, running
               PROVE  NoDayMissed
    BY DEF NoDayMissed
  <2>1. /\ loop \in {"sleeping", "publishing"} /\ now \in Int /\ due \in Int
        /\ next_tick \in Int
    BY Constants DEF SummaryInv, TypeOK
  <2>2. now <= next_tick + MinWait + MaxPublish + 2 * Latency
    BY <2>1, Constants DEF SummaryInv, Awaits, Turns
  <2> QED
    BY <2>1, <2>2 DEF SummaryInv, Turns, NoDayMissed
<1> QED
  BY <1>1, SummaryInvariant, PTL

\* Whatever is received, at whatever point of a summary's publish, a message is
\* counted once; it is neither in the counters nor in a published summary only
\* if its summary's publish failed, or if it arrived during one.
THEOREM EachCountedOnceHolds == Spec => []EachCountedOnce
<1>1. SummaryInv => EachCountedOnce
  BY DEF SummaryInv, Accounted, EachCountedOnce
<1> QED
  BY <1>1, SummaryInvariant, PTL
=============================================================================
