--------------------------- MODULE RateWindowsProofs ---------------------------
(***************************************************************************)
(* Proofs about RateWindows: for any sockets, limits and window lengths.   *)
(***************************************************************************)
EXTENDS RateWindows, TLAPS

Typed(m) == /\ window[m] \in RateWindow(m) \union {None}
            /\ admitted[m] \in Seq(Nat)

Burst(m) ==
  \A i \in 1 .. Len(admitted[m]) :
    LET j == i + 2 * Limit(m) - 1
    IN j <= Len(admitted[m]) => admitted[m][j] - admitted[m][i] >= Length(m)

Begun(m) == /\ window[m] # None => m[2] \in connected
            /\ m[2] \in connected /\ window[m] = None => admitted[m] = <<>>

\* What WindowInv says of one window, its type apart.
MeterInv(m) == Begun(m) /\ History(m) /\ WindowMatches(m) /\ Burst(m)

LEMMA SeqElement == ASSUME NEW s \in Seq(Nat), NEW i \in 1 .. Len(s) PROVE s[i] \in Nat
OBVIOUS

\* The limit and the length of a window are positive.
LEMMA Positive ==
  ASSUME NEW m \in Meters
  PROVE  Limit(m) \in Nat \ {0} /\ Length(m) \in Nat \ {0}
<1>1. m[1] \in Kinds
  BY DEF Meters
<1> QED
  BY <1>1, RateAssumption DEF Limit, Length

\* The invariant is the conjunction of what it says of each window.
LEMMA ByMeter ==
  WindowInv <=> TypeOK /\ \A m \in Meters : MeterInv(m)
BY DEF WindowInv, MeterInv, Begun, Burst, BurstBounded, NoWindowLeft, NothingBefore

LEMMA ByMeterNext ==
  WindowInv' <=> TypeOK' /\ \A m \in Meters : MeterInv(m)'
BY DEF WindowInv, MeterInv, Begun, Burst, BurstBounded, NoWindowLeft, NothingBefore

LEMMA TypedMeter ==
  ASSUME TypeOK, NEW m \in Meters
  PROVE  Typed(m) /\ now \in Nat
BY DEF TypeOK, Typed

\* A window without a message of its own keeps its part of the invariant.
LEMMA MeterFrame ==
  ASSUME NEW m \in Meters, MeterInv(m), Typed(m), now \in Nat, now' \in Nat,
         now' >= now, m[2] \in connected' <=> m[2] \in connected,
         window'[m] = window[m], admitted'[m] = admitted[m]
  PROVE  MeterInv(m)'
<1>2. History(m)'
  BY DEF MeterInv, History, Typed
<1>3. WindowMatches(m)'
  BY DEF MeterInv, WindowMatches, Opened, Accepted, Limit, Length
<1>4. Burst(m)' /\ Begun(m)'
  BY DEF MeterInv, Burst, Begun, Limit, Length
<1> QED
  BY <1>2, <1>3, <1>4 DEF MeterInv

LEMMA InitWindowInv == Init => WindowInv
<1> SUFFICES ASSUME Init PROVE TypeOK /\ \A m \in Meters : MeterInv(m)
  BY ByMeter
<1>1. TypeOK
  BY DEF Init, TypeOK
<1>2. ASSUME NEW m \in Meters PROVE MeterInv(m)
  <2>1. admitted[m] = <<>> /\ window[m] = None
    BY DEF Init
  <2>2. Begun(m) /\ WindowMatches(m)
    BY <2>1 DEF Begun, WindowMatches
  <2>3. History(m) /\ Burst(m)
    BY <2>1 DEF History, Burst
  <2> QED
    BY <2>2, <2>3 DEF MeterInv
<1> QED
  BY <1>1, <1>2

-------------------------------------------------------------------------------
(* A message *)

\* The history stays sorted when a later time is appended.
LEMMA SortedAppend ==
  ASSUME NEW h \in Seq(Nat), NEW t \in Nat,
         \A i \in 1 .. Len(h) : h[i] <= t,
         \A i, j \in 1 .. Len(h) : i <= j => h[i] <= h[j]
  PROVE  LET g == Append(h, t)
         IN /\ \A i \in 1 .. Len(g) : g[i] <= t
            /\ \A i, j \in 1 .. Len(g) : i <= j => g[i] <= g[j]
<1> DEFINE g == Append(h, t)
<1>1. /\ Len(h) \in Nat /\ Len(g) = Len(h) + 1 /\ g[Len(h) + 1] = t
      /\ \A i \in 1 .. Len(h) : g[i] = h[i] /\ h[i] \in Nat
  OBVIOUS
<1> HIDE DEF g
<1>2. \A i \in 1 .. Len(h) + 1 : i \in 1 .. Len(h) \/ i = Len(h) + 1
  BY <1>1
<1>3. \A i \in 1 .. Len(g) : g[i] <= t
  BY <1>1, <1>2
<1>4. \A i, j \in 1 .. Len(g) : i <= j => g[i] <= g[j]
  BY <1>1, <1>2, <1>3
<1> QED
  BY <1>3, <1>4 DEF g

\* Twice the limit still takes a window if it does so with the time appended.
LEMMA BurstAppend ==
  ASSUME NEW h \in Seq(Nat), NEW t \in Nat,
         NEW L \in Nat \ {0}, NEW W \in Nat \ {0},
         \A i \in 1 .. Len(h) : i + 2 * L - 1 <= Len(h) => h[i + 2 * L - 1] - h[i] >= W,
         \A i \in 1 .. Len(h) : i + 2 * L - 1 = Len(h) + 1 => h[i] <= t - W
  PROVE  LET g == Append(h, t)
         IN \A i \in 1 .. Len(g) : i + 2 * L - 1 <= Len(g) => g[i + 2 * L - 1] - g[i] >= W
<1> DEFINE g == Append(h, t)
<1>1. /\ Len(h) \in Nat /\ Len(g) = Len(h) + 1 /\ g[Len(h) + 1] = t
      /\ \A i \in 1 .. Len(h) : g[i] = h[i] /\ h[i] \in Nat
  OBVIOUS
<1> HIDE DEF g
<1> SUFFICES ASSUME NEW i \in 1 .. Len(g), i + 2 * L - 1 <= Len(g)
             PROVE  g[i + 2 * L - 1] - g[i] >= W
  BY DEF g
<1>2. i \in 1 .. Len(h) /\ i + 2 * L - 1 \in 1 .. Len(h) + 1
  BY <1>1
<1>3. g[i] = h[i] /\ h[i] \in Nat
  BY <1>1, <1>2
<1>4. CASE i + 2 * L - 1 = Len(h) + 1
  <2>1. h[i] <= t - W
    BY <1>2, <1>4
  <2>2. g[i + 2 * L - 1] = t
    BY <1>1, <1>4
  <2> QED
    BY <2>1, <2>2, <1>3
<1>5. CASE i + 2 * L - 1 # Len(h) + 1
  <2>1. i + 2 * L - 1 \in 1 .. Len(h)
    BY <1>1, <1>2, <1>5
  <2>2. h[i + 2 * L - 1] - h[i] >= W
    BY <1>2, <2>1
  <2>3. g[i + 2 * L - 1] = h[i + 2 * L - 1]
    BY <1>1, <2>1
  <2> QED
    BY <2>2, <2>3, <1>3
<1> QED
  BY <1>4, <1>5

\* Where the window's first message stands in the history.
LEMMA Place ==
  ASSUME NEW m, admitted[m] \in Seq(Nat), Limit(m) \in Nat \ {0},
         window[m].count \in Nat \ {0}
  PROVE  /\ Opened(m) \in Len(admitted[m]) + 1 - Limit(m) .. Len(admitted[m])
         /\ window[m].count < Limit(m) =>
              Opened(m) = Len(admitted[m]) + 1 - window[m].count
         /\ window[m].count >= Limit(m) =>
              Opened(m) = Len(admitted[m]) + 1 - Limit(m)
<1>1. Opened(m) \in Len(admitted[m]) + 1 - Limit(m) .. Len(admitted[m])
  BY DEF Opened, Accepted, AtMost
<1>2. ASSUME window[m].count < Limit(m)
      PROVE  Opened(m) = Len(admitted[m]) + 1 - window[m].count
  BY <1>2 DEF Opened, Accepted, AtMost
<1>3. ASSUME window[m].count >= Limit(m)
      PROVE  Opened(m) = Len(admitted[m]) + 1 - Limit(m)
  <2>1. Accepted(m) = Limit(m)
    BY <1>3 DEF Accepted, AtMost
  <2>2. Len(admitted[m]) \in Nat
    OBVIOUS
  <2> QED
    BY <2>1, <2>2 DEF Opened
<1> QED
  BY <1>1, <1>2, <1>3

\* A window that is opened: whatever came a limit ago is a window old.
LEMMA MessageOpens ==
  ASSUME NEW m \in Meters, MeterInv(m), Typed(m), now \in Nat,
         m[2] \in connected, connected' = connected, now' = now, Over(m),
         window'[m] = [startedAt |-> now, count |-> 1],
         admitted'[m] = Append(admitted[m], now)
  PROVE  MeterInv(m)'
<1>1. Limit(m) \in Nat \ {0} /\ Length(m) \in Nat \ {0}
  BY Positive
<1>2. admitted[m] \in Seq(Nat)
  BY DEF Typed
<1>3. Limit(m)' = Limit(m) /\ Length(m)' = Length(m)
  BY DEF Limit, Length
<1>4. History(m)'
  BY <1>2, SortedAppend DEF MeterInv, History
<1>5. \A i \in 1 .. Len(admitted[m]) + 1 - Limit(m) : admitted[m][i] <= now - Length(m)
  <2>1. CASE window[m] = None
    <3>1. Len(admitted[m]) = 0
      BY <2>1 DEF MeterInv, Begun
    <3> QED
      BY <3>1, <1>1
  <2>2. CASE window[m] # None
    <3>1. window[m].startedAt \in Nat /\ window[m].count \in Nat \ {0}
      BY <2>2, <1>1 DEF Typed, RateWindow
    <3>2. now - window[m].startedAt >= Length(m)
      BY <2>2 DEF Over
    <3>3. Opened(m) >= 1 /\ admitted[m][Opened(m)] = window[m].startedAt
      BY <2>2 DEF MeterInv, WindowMatches
    <3>4. Opened(m) \in Len(admitted[m]) + 1 - Limit(m) .. Len(admitted[m])
      BY <3>1, <1>1, <1>2, Place
    <3>5. PICK o \in Int : o = Opened(m)
      BY <3>4
    <3>6. PICK n \in Nat : n = Len(admitted[m])
      BY <1>2
    <3>7. PICK L \in Nat \ {0} : L = Limit(m)
      BY <1>1
    <3> SUFFICES ASSUME NEW i \in 1 .. n + 1 - L
                 PROVE  admitted[m][i] <= now - Length(m)
      BY <3>6, <3>7
    <3>8. i \in 1 .. n /\ o \in 1 .. n /\ i <= o
      BY <3>3, <3>4, <3>5, <3>6, <3>7
    <3>9. admitted[m][i] <= admitted[m][o]
      BY <3>6, <3>8 DEF MeterInv, History
    <3>10. admitted[m][i] \in Nat
      BY <1>2, <3>6, <3>8, SeqElement
    <3> QED
      BY <3>1, <3>2, <3>3, <3>5, <3>9, <3>10, <1>1
  <2> QED
    BY <2>1, <2>2
<1>6. PICK n \in Nat : n = Len(admitted[m])
  BY <1>2
<1>7. /\ Len(admitted'[m]) = n + 1 /\ admitted'[m][n + 1] = now
      /\ \A i \in 1 .. n : admitted'[m][i] = admitted[m][i]
  BY <1>2, <1>6
<1>8. Opened(m)' = n + 1
  <2>1. Accepted(m)' = 1
    BY <1>1, <1>3 DEF Accepted, AtMost
  <2> QED
    BY <2>1, <1>7 DEF Opened
<1>9. WindowMatches(m)'
  <2>1. PICK L \in Nat \ {0} : L = Limit(m)
    BY <1>1
  <2>2. \A i \in 1 .. n + 1 - L : i \in 1 .. n
    OBVIOUS
  <2>3. \A i \in 1 .. n + 1 - L : admitted'[m][i] <= now - Length(m)
    BY <1>5, <1>6, <1>7, <2>1, <2>2
  <2>4. window'[m].startedAt = now
    OBVIOUS
  <2> QED
    BY <1>3, <1>7, <1>8, <2>1, <2>3, <2>4 DEF WindowMatches
<1>10. Burst(m)'
  <2>1. ASSUME NEW i \in 1 .. Len(admitted[m]),
               i + 2 * Limit(m) - 1 = Len(admitted[m]) + 1
        PROVE  admitted[m][i] <= now - Length(m)
    <3>1. PICK L \in Nat \ {0} : L = Limit(m)
      BY <1>1
    <3>2. i \in 1 .. n + 1 - L
      BY <2>1, <1>6, <3>1
    <3> QED
      BY <3>1, <3>2, <1>5, <1>6
  <2> QED
    BY <2>1, <1>1, <1>2, <1>3, BurstAppend DEF MeterInv, Burst
<1>11. Begun(m)'
  BY RateAssumption DEF Begun
<1> QED
  BY <1>4, <1>9, <1>10, <1>11 DEF MeterInv

\* A message counted in a window that is open, and let through.
LEMMA MessageCounted ==
  ASSUME NEW m \in Meters, MeterInv(m), Typed(m), now \in Nat,
         m[2] \in connected, connected' = connected, now' = now, ~Over(m),
         window'[m].startedAt = window[m].startedAt,
         window'[m].count = window[m].count + 1, window'[m] # None,
         window[m].count < Limit(m),
         admitted'[m] = Append(admitted[m], now)
  PROVE  MeterInv(m)'
<1>1. Limit(m) \in Nat \ {0} /\ Length(m) \in Nat \ {0}
  BY Positive
<1>2. admitted[m] \in Seq(Nat) /\ admitted'[m] \in Seq(Nat)
  BY DEF Typed
<1>3. Limit(m)' = Limit(m) /\ Length(m)' = Length(m)
  BY DEF Limit, Length
<1>4. History(m)'
  BY <1>2, SortedAppend DEF MeterInv, History
<1>5. /\ window[m] # None
      /\ window[m].startedAt \in Nat
      /\ window[m].count \in Nat \ {0}
  BY <1>1 DEF Typed, RateWindow, Over
<1>6. /\ Opened(m) >= 1
      /\ admitted[m][Opened(m)] = window[m].startedAt
      /\ \A i \in 1 .. Opened(m) - Limit(m) :
           admitted[m][i] <= window[m].startedAt - Length(m)
  BY <1>5 DEF MeterInv, WindowMatches
<1>7. PICK n \in Nat : n = Len(admitted[m])
  BY <1>2
<1>8. PICK L \in Nat \ {0} : L = Limit(m)
  BY <1>1
<1>9. PICK c \in Nat \ {0} : c = window[m].count
  BY <1>5
<1>10. Opened(m) = n + 1 - c
  BY <1>1, <1>2, <1>5, <1>7, <1>9, Place
<1>11. /\ Len(admitted'[m]) = n + 1
       /\ \A i \in 1 .. n : admitted'[m][i] = admitted[m][i]
  BY <1>2, <1>7
<1>12. Opened(m)' = n + 1 - c
  <2>1. Accepted(m)' = c + 1
    BY <1>3, <1>8, <1>9 DEF Accepted, AtMost
  <2> QED
    BY <2>1, <1>11 DEF Opened
<1>13. n + 1 - c \in 1 .. n /\ c < L
  BY <1>6, <1>8, <1>9, <1>10
<1>14. WindowMatches(m)'
  <2>1. \A i \in 1 .. n + 1 - c - L : i \in 1 .. n
    OBVIOUS
  <2>2. \A i \in 1 .. n + 1 - c - L : admitted'[m][i] <= window[m].startedAt - Length(m)
    BY <1>6, <1>8, <1>10, <1>11, <2>1
  <2>3. admitted'[m][n + 1 - c] = window'[m].startedAt
    BY <1>6, <1>10, <1>11, <1>13
  <2>4. n + 1 - c >= 1 /\ window'[m].startedAt = window[m].startedAt
    BY <1>13
  <2>5. /\ Opened(m)' >= 1
        /\ admitted'[m][Opened(m)'] = window'[m].startedAt
    BY <1>12, <2>3, <2>4
  <2>6. \A i \in 1 .. Opened(m)' - Limit(m)' :
          admitted'[m][i] <= window'[m].startedAt - Length(m)'
    <3>1. Opened(m)' - Limit(m)' = n + 1 - c - L
      BY <1>3, <1>8, <1>12
    <3> QED
      BY <3>1, <1>3, <2>2, <2>4
  <2> QED
    BY <2>5, <2>6 DEF WindowMatches
<1>15. Burst(m)'
  <2>1. window[m].startedAt <= now
    BY <1>6, <1>7, <1>10, <1>13 DEF MeterInv, History
  <2>2. ASSUME NEW i \in 1 .. Len(admitted[m]),
               i + 2 * Limit(m) - 1 = Len(admitted[m]) + 1
        PROVE  admitted[m][i] <= now - Length(m)
    <3>1. i \in 1 .. n + 1 - c - L /\ i \in 1 .. n
      BY <2>2, <1>7, <1>8, <1>13
    <3>2. i \in 1 .. Opened(m) - Limit(m)
      BY <3>1, <1>8, <1>10
    <3>3. admitted[m][i] <= window[m].startedAt - Length(m)
      BY <3>2, <1>6
    <3>4. admitted[m][i] \in Nat
      BY <1>2, SeqElement
    <3>5. PICK x, s, W \in Int :
            x = admitted[m][i] /\ s = window[m].startedAt /\ W = Length(m)
      BY <3>4, <1>1, <1>5
    <3> QED
      BY <3>3, <3>5, <2>1
  <2> QED
    BY <2>2, <1>1, <1>2, <1>3, BurstAppend DEF MeterInv, Burst
<1>16. Begun(m)'
  BY DEF Begun
<1> QED
  BY <1>4, <1>14, <1>15, <1>16 DEF MeterInv

\* A message that is refused changes nothing but a count beyond the limit.
LEMMA MessageRefused ==
  ASSUME NEW m \in Meters, MeterInv(m), Typed(m), now \in Nat,
         m[2] \in connected, connected' = connected, now' = now, ~Over(m),
         window'[m].startedAt = window[m].startedAt,
         window'[m].count >= Limit(m), window'[m].count \in Nat,
         window[m].count >= Limit(m), window'[m] # None,
         admitted'[m] = admitted[m]
  PROVE  MeterInv(m)'
<1>1. Limit(m) \in Nat \ {0}
  BY Positive
<1>2. window[m] # None /\ window[m].count \in Nat
  BY <1>1 DEF Typed, RateWindow, Over
<1>3. Accepted(m) = Limit(m) /\ Accepted(m)' = Limit(m)
  BY <1>1, <1>2 DEF Accepted, AtMost, Limit
<1>4. WindowMatches(m)'
  BY <1>2, <1>3 DEF MeterInv, WindowMatches, Opened, Limit, Length
<1> QED
  BY <1>4 DEF MeterInv, History, Burst, Begun, Limit, Length

LEMMA RateStep ==
  ASSUME WindowInv, NEW m \in Meters, assertRate(m)
  PROVE  WindowInv'
<1>1. TypeOK /\ MeterInv(m) /\ Typed(m) /\ now \in Nat
  BY ByMeter, TypedMeter
<1>2. Limit(m) \in Nat \ {0} /\ Length(m) \in Nat \ {0}
  BY Positive
<1>3. m \in DOMAIN window /\ m \in DOMAIN admitted
  BY <1>1 DEF TypeOK
<1>4. /\ window'[m] = Counted(m)
      /\ admitted'[m] = IF Refuses(m) THEN admitted[m] ELSE Append(admitted[m], now)
      /\ m[2] \in connected /\ connected' = connected /\ now' = now
  BY <1>3 DEF assertRate
<1>5. MeterInv(m)' /\ Counted(m) \in RateWindow(m)
  <2>1. CASE Over(m)
    <3>1. Counted(m) = [startedAt |-> now, count |-> 1]
      BY <2>1 DEF Counted
    <3>2. ~Refuses(m) /\ Counted(m) \in RateWindow(m)
      BY <3>1, <1>1, <1>2 DEF Refuses, RateWindow
    <3> QED
      BY <3>1, <3>2, <2>1, <1>1, <1>4, MessageOpens
  <2>2. CASE ~Over(m)
    <3>1. window[m] \in RateWindow(m)
      BY <2>2, <1>1 DEF Over, Typed
    <3>2. Counted(m) = [window[m] EXCEPT !.count = AtMost(@ + 1, Limit(m) + 1)]
      BY <2>2 DEF Counted
    <3>3. /\ Counted(m).startedAt = window[m].startedAt
          /\ Counted(m).count = AtMost(window[m].count + 1, Limit(m) + 1)
          /\ Counted(m) \in RateWindow(m)
      BY <3>1, <3>2, <1>2 DEF RateWindow, AtMost
    <3>4. Counted(m) # None
      BY <3>3, RateAssumption, <1>2 DEF RateWindow
    <3>5. window[m].count \in Nat
      BY <3>1, <1>2 DEF RateWindow
    <3>6. CASE window[m].count < Limit(m)
      <4>1. Counted(m).count = window[m].count + 1 /\ ~Refuses(m)
        BY <3>3, <3>5, <3>6, <1>2 DEF AtMost, Refuses
      <4> QED
        BY <4>1, <3>3, <3>4, <3>6, <2>2, <1>1, <1>4, MessageCounted
    <3>7. CASE window[m].count >= Limit(m)
      <4>1. Counted(m).count = Limit(m) + 1 /\ Refuses(m)
        BY <3>3, <3>5, <3>7, <1>2 DEF AtMost, Refuses
      <4>2. Counted(m).count >= Limit(m) /\ Counted(m).count \in Nat
        BY <4>1, <1>2
      <4> QED
        BY <4>1, <4>2, <3>3, <3>4, <3>7, <2>2, <1>1, <1>4, MessageRefused
    <3> QED
      BY <3>3, <3>5, <3>6, <3>7, <1>2
  <2> QED
    BY <2>1, <2>2
<1>6. ASSUME NEW k \in Meters, k # m PROVE MeterInv(k)'
  <2>1. MeterInv(k) /\ Typed(k)
    BY <1>1, ByMeter, TypedMeter
  <2>2. window'[k] = window[k] /\ admitted'[k] = admitted[k]
    BY <1>6, <1>1 DEF assertRate, TypeOK
  <2> QED
    BY <1>1, <1>4, <2>1, <2>2, MeterFrame
<1>7. TypeOK'
  <2>1. admitted' \in [Meters -> Seq(Nat)]
    <3>1. Append(admitted[m], now) \in Seq(Nat)
      BY <1>1 DEF Typed
    <3> QED
      BY <3>1, <1>1 DEF assertRate, TypeOK
  <2>2. DOMAIN window' = Meters
    BY <1>1 DEF assertRate, TypeOK
  <2>3. ASSUME NEW k \in Meters PROVE (window[k] \in RateWindow(k) \union {None})'
    BY <1>1, <1>4, <1>5 DEF assertRate, TypeOK, RateWindow, Limit
  <2> QED
    BY <2>1, <2>2, <2>3, <1>1, <1>4 DEF TypeOK
<1> QED
  BY <1>5, <1>6, <1>7, ByMeterNext

-------------------------------------------------------------------------------
(* The other steps *)

LEMMA DisconnectStep ==
  ASSUME WindowInv, NEW s \in Sockets, handleDisconnect(s)
  PROVE  WindowInv'
<1>1. TypeOK
  BY ByMeter
<1>2. TypeOK'
  BY <1>1 DEF handleDisconnect, Closed, TypeOK, RateWindow, Limit
<1>3. ASSUME NEW m \in Meters PROVE MeterInv(m)'
  <2>1. MeterInv(m) /\ Typed(m) /\ now \in Nat
    BY <1>1, ByMeter, TypedMeter
  <2>2. admitted'[m] = admitted[m] /\ now' = now
    BY DEF handleDisconnect
  <2>3. CASE m[2] = s
    <3>1. window'[m] = None /\ m[2] \notin connected'
      BY <2>3 DEF handleDisconnect, Closed
    <3> QED
      BY <3>1, <2>1, <2>2
      DEF MeterInv, Begun, History, WindowMatches, Burst, Limit, Length
  <2>4. CASE m[2] # s
    <3>1. window'[m] = window[m] /\ (m[2] \in connected' <=> m[2] \in connected)
      BY <2>4 DEF handleDisconnect, Closed
    <3> QED
      BY <3>1, <2>1, <2>2, MeterFrame
  <2> QED
    BY <2>3, <2>4
<1> QED
  BY <1>2, <1>3, ByMeterNext

LEMMA TickStep ==
  ASSUME WindowInv, Tick
  PROVE  WindowInv'
<1>1. TypeOK
  BY ByMeter
<1>2. TypeOK'
  BY <1>1 DEF Tick, TypeOK, RateWindow, Limit
<1>3. ASSUME NEW m \in Meters PROVE MeterInv(m)'
  <2>1. MeterInv(m) /\ Typed(m) /\ now \in Nat
    BY <1>1, ByMeter, TypedMeter
  <2>2. /\ now' \in Nat /\ now' >= now /\ connected' = connected
        /\ window' = window /\ admitted' = admitted
    BY <2>1 DEF Tick
  <2> QED
    BY <2>1, <2>2, MeterFrame
<1> QED
  BY <1>2, <1>3, ByMeterNext

LEMMA WindowInvStep ==
  ASSUME WindowInv, [Next]_vars
  PROVE  WindowInv'
<1>1. CASE UNCHANGED vars
  BY <1>1 DEF vars, WindowInv, TypeOK, RateWindow, NoWindowLeft, NothingBefore,
     History, WindowMatches, BurstBounded, Opened, Accepted, Limit, Length
<1>2. ASSUME NEW s \in Sockets, relayInput(s) PROVE WindowInv'
  BY <1>2, RateStep DEF relayInput, Meters, Kinds
<1>3. ASSUME NEW s \in Sockets, roomOperation(s) PROVE WindowInv'
  BY <1>3, RateStep DEF roomOperation, Meters, Kinds
<1> QED
  BY <1>1, <1>2, <1>3, DisconnectStep, TickStep DEF Next

\* The windows count what the history holds, whatever the clients send: the
\* inductive invariant of assertRateLimit and handleDisconnect.
THEOREM WindowInvCorrect == Spec => []WindowInv
BY InitWindowInv, WindowInvStep, PTL DEF Spec

\* In any stretch of the length of a window, fewer than twice the limit of a
\* socket's messages get past the check.
THEOREM BurstBoundedCorrect == Spec => []BurstBounded
<1>1. WindowInv => BurstBounded
  BY DEF WindowInv
<1> QED
  BY <1>1, WindowInvCorrect, PTL

\* A message is refused only if a full limit was admitted within the length of
\* a window before it.
THEOREM RefusedOnlyAtLimitCorrect == Spec => []RefusedOnlyAtLimit
<1>1. WindowInv => RefusedOnlyAtLimit
  <2> SUFFICES ASSUME WindowInv, NEW m \in Meters, Refuses(m)
               PROVE  LET first == Len(admitted[m]) + 1 - Limit(m)
                      IN first >= 1 /\ now - admitted[m][first] < Length(m)
    BY DEF RefusedOnlyAtLimit
  <2>1. MeterInv(m) /\ Typed(m) /\ now \in Nat
    BY ByMeter, TypedMeter
  <2>2. Limit(m) \in Nat \ {0} /\ Length(m) \in Nat \ {0}
    BY Positive
  <2>3. ~Over(m)
    BY <2>2 DEF Refuses, Counted
  <2>4. window[m] \in RateWindow(m) /\ now - window[m].startedAt < Length(m)
    BY <2>1, <2>2, <2>3 DEF Over, Typed, RateWindow
  <2>5. window[m].count \in Nat /\ window[m].count >= Limit(m)
    <3>1. Counted(m).count = AtMost(window[m].count + 1, Limit(m) + 1)
      BY <2>3, <2>4 DEF Counted, RateWindow
    <3>2. window[m].count \in Nat
      BY <2>2, <2>4 DEF RateWindow
    <3> QED
      BY <3>1, <3>2, <2>2 DEF Refuses, AtMost
  <2>6. window[m] # None
    BY <2>3 DEF Over
  <2>7. Opened(m) = Len(admitted[m]) + 1 - Limit(m)
    BY <2>1, <2>2, <2>5, Place DEF Typed
  <2>8. Opened(m) >= 1 /\ admitted[m][Opened(m)] = window[m].startedAt
    BY <2>1, <2>6 DEF MeterInv, WindowMatches
  <2> QED
    BY <2>4, <2>7, <2>8
<1> QED
  BY <1>1, WindowInvCorrect, PTL
================================================================================
