--------------------------- MODULE ShortConvProofs ---------------------------
(***************************************************************************)
(* Theorems about ShortConv, for every number of rows, slots, drafts and   *)
(* tokens, both history lengths, all operands and both transports.         *)
(*                                                                         *)
(* WindowTypes            windows hold inputs issued so far                *)
(* ZeroRoundsAreUndone    a round that accepted nothing leaves no trace    *)
(* HistoriesAreExact      every convolution reads the last inputs          *)
(*                                                                         *)
(* RoundInv says whose window a round may have changed: a row convolved,   *)
(* which snapshot and stamp will undo if nothing of it is accepted.  It    *)
(* asks nothing of histories.  HistoryInv says where in a window the last  *)
(* H inputs of its request are: `prev - 1` entries on, of the window as    *)
(* the round found it while the round is open, and of the window itself    *)
(* otherwise.  A prefill reads at offset zero, so HistoryInv needs that    *)
(* prefills follow rounds that accepted one input (~AnyPrefill).           *)
(***************************************************************************)
EXTENDS ShortConv, SequenceTheorems, TLAPS

-----------------------------------------------------------------------------
(***************************************************************************)
(* The inductive invariants.                                               *)
(***************************************************************************)

Errors(kind) == [r \in Row |-> ConvError(kind, rows, r)]
TransportErrors(kind) == [r \in Row |-> TransportError(kind, rows, r)]

\* Rows of the round whose window is saved, overwritten and put back.
Captured == Transported(rows, TransportErrors("snapshot"))
Convolved == Admitted(rows, Errors("verify"))
Undone == {r \in Transported(rows, TransportErrors("restore")) : count[r] = 0}

InRound == phase \in {"capture", "verify", "accepted", "restore"}
Accepted == phase \in {"accepted", "restore"}

KernelInv ==
    /\ phase # "idle" => rows \in Rows /\ SlotsOwned(rows) /\ issued + Tokens <= MaxInputs
    /\ phase \in {"idle", "accepted"} => todo = {}
    /\ phase = "capture" => errors = TransportErrors("snapshot") /\ todo \subseteq Captured
    /\ phase = "verify" => errors = Errors("verify") /\ todo \subseteq Convolved
    /\ phase = "restore" => errors = TransportErrors("restore") /\ todo \subseteq Undone
    /\ phase = "prefill" => errors = Errors("prefill") /\ todo \subseteq Admitted(rows, errors)

SnapshotInv ==
    InRound => \A r \in Row :
        /\ r \in Captured /\ ~(phase = "capture" /\ r \in todo) =>
             snapshot[r] = found[rows.slots[r]] /\ stamps[r] = rows.slots[r]
        /\ r \notin Captured => stamps[r] = IF Legacy THEN 0 ELSE -1

FoundInv ==
    /\ phase = "capture" => window = found
    /\ phase = "verify" => \A r \in Row :
         r \notin Convolved \/ r \in todo => window[Own(r)] = found[Own(r)]
    /\ Accepted => \A r \in Row : r \notin Convolved => window[Own(r)] = found[Own(r)]
    /\ phase = "restore" => \A r \in Row :
         count[r] = 0 /\ r \notin todo => window[Own(r)] = found[Own(r)]
    /\ Accepted => \A r \in Row :
         count[r] > 0 => r \in Convolved /\ count[r] <= LengthOf(rows, r)

RoundInv == TypeOK /\ KernelInv /\ SnapshotInv /\ FoundInv

\* The H entries of a window behind the first `shift`.
Skip(w, shift) == SubSeq(w, shift + 1, shift + H)
\* The window w of row r holds the history its next convolution reads.
Ready(r, w) == ~fresh[r] => Skip(w, prev[r] - 1) = Recent(stream[r])
\* Row r has been convolved and nothing of it accepted yet.
Open(r) == window[Own(r)] = Encoded(Recent(stream[r]), Inputs(r))

HistoryInv ==
    /\ \A r \in Row : fresh[r] /\ (Accepted => count[r] = 0) => stream[r] = <<>>
    /\ phase = "idle" => \A r \in Row : Ready(r, window[Own(r)])
    /\ phase \in {"capture", "verify"} => \A r \in Row : Ready(r, found[Own(r)])
    /\ phase = "verify" => \A r \in Convolved \ todo : Open(r)
    /\ Accepted => \A r \in Row :
         IF count[r] = 0 THEN Ready(r, found[Own(r)])
         ELSE Skip(window[Own(r)], count[r] - 1) = Recent(stream[r])
    /\ phase = "prefill" => \A r \in Row :
         IF r \in Admitted(rows, errors) \ todo THEN Open(r)
         ELSE /\ Ready(r, window[Own(r)])
              /\ r \in todo => fresh[r] \/ prev[r] = 1

-----------------------------------------------------------------------------
(***************************************************************************)
(* Windows as sequences.                                                   *)
(***************************************************************************)

LEMMA Sizes ==
    /\ Requests \in Nat /\ Slots \in Nat /\ H \in Nat /\ H > 0 /\ Drafts \in Nat
    /\ Tokens \in Nat /\ MaxInputs \in Nat /\ FirstSlot \in Nat
    /\ \A r \in Row : r \in Nat /\ r \in 0..Requests /\ r + 1 \in 0..Requests
    /\ \A r \in Row : Own(r) \in Slot /\ Own(r) >= 0 /\ (Legacy => Own(r) > 0)
    /\ \A r, o \in Row : Own(r) = Own(o) => r = o
  BY WindowAssumption DEF Row, Own, Slot

LEMMA ZerosAre ==
    ASSUME NEW S, 0 \in S, NEW n \in Nat
    PROVE  Zeros(n) \in Seq(S) /\ Len(Zeros(n)) = n /\ \A i \in 1..n : Zeros(n)[i] = 0
  BY DEF Zeros

LEMMA Slice ==
    ASSUME NEW S, NEW w \in Seq(S), NEW k \in Nat, NEW n \in Nat, k + n <= Len(w)
    PROVE  /\ SubSeq(w, k + 1, k + n) \in Seq(S) /\ Len(SubSeq(w, k + 1, k + n)) = n
           /\ \A i \in 1..n : SubSeq(w, k + 1, k + n)[i] = w[k + i]
  OBVIOUS

LEMMA Joined ==
    ASSUME NEW S, NEW a \in Seq(S), NEW b \in Seq(S)
    PROVE  /\ a \o b \in Seq(S) /\ Len(a \o b) = Len(a) + Len(b)
           /\ Len(a) \in Nat /\ Len(b) \in Nat
           /\ \A i \in 1..Len(a) : (a \o b)[i] = a[i]
           /\ \A i \in 1..Len(b) : (a \o b)[Len(a) + i] = b[i]
           /\ \A i \in (Len(a) + 1)..(Len(a) + Len(b)) : (a \o b)[i] = b[i - Len(a)]
  OBVIOUS

LEMMA JoinedAt ==
    \A S, n, m : \A a, b \in Seq(S) : Len(a) = n /\ Len(b) = m =>
        /\ a \o b \in Seq(S) /\ Len(a \o b) = n + m
        /\ \A i \in 1..n : (a \o b)[i] = a[i]
        /\ \A i \in 1..m : (a \o b)[n + i] = b[i]
        /\ \A i \in (n + 1)..(n + m) : (a \o b)[i] = b[i - n]
  OBVIOUS

LEMMA RecentIs ==
    ASSUME NEW S, 0 \in S, NEW q \in Seq(S)
    PROVE  /\ Recent(q) \in Seq(S) /\ Len(Recent(q)) = H
           /\ \A i \in 1..H : Recent(q)[i] = IF Len(q) + i <= H THEN 0 ELSE q[Len(q) + i - H]
  <1> DEFINE z == Zeros(H) \o q
  <1>1. Zeros(H) \in Seq(S) /\ Len(Zeros(H)) = H /\ \A i \in 1..H : Zeros(H)[i] = 0
    BY ZerosAre, Sizes
  <1>2. /\ z \in Seq(S) /\ Len(z) = H + Len(q) /\ Len(q) \in Nat
        /\ \A i \in 1..H : z[i] = 0
        /\ \A i \in (H + 1)..(H + Len(q)) : z[i] = q[i - H]
    <2> DEFINE a == Zeros(H)
    <2>1. a \in Seq(S) /\ Len(a) = H /\ \A i \in 1..H : a[i] = 0
      BY <1>1
    <2> HIDE DEF a
    <2>2. /\ a \o q \in Seq(S) /\ Len(a \o q) = H + Len(q) /\ Len(q) \in Nat
          /\ \A i \in 1..H : (a \o q)[i] = a[i]
          /\ \A i \in (H + 1)..(H + Len(q)) : (a \o q)[i] = q[i - H]
      <3>1. /\ a \o q \in Seq(S) /\ Len(a \o q) = Len(a) + Len(q) /\ Len(q) \in Nat
            /\ \A i \in 1..Len(a) : (a \o q)[i] = a[i]
            /\ \A i \in (Len(a) + 1)..(Len(a) + Len(q)) : (a \o q)[i] = q[i - Len(a)]
        BY <2>1, Joined
      <3> QED
        BY <2>1, <3>1
    <2> QED
      BY <2>1, <2>2 DEF a
  <1> HIDE DEF z
  <1> DEFINE s == SubSeq(z, Len(q) + 1, Len(q) + H)
  <1>4. /\ s \in Seq(S) /\ Len(s) = H /\ \A i \in 1..H : s[i] = z[Len(q) + i]
    BY <1>2, Sizes, Slice
  <1>5. Recent(q) = s
    BY DEF Recent, z
  <1> HIDE DEF s
  <1>7. ASSUME NEW i \in 1..H
        PROVE  s[i] = IF Len(q) + i <= H THEN 0 ELSE q[Len(q) + i - H]
    <2>1. s[i] = z[Len(q) + i]
      BY <1>4
    <2>2. CASE Len(q) + i <= H
      BY <1>2, <2>1, <2>2, Sizes
    <2>3. CASE ~(Len(q) + i <= H)
      BY <1>2, <2>1, <2>3, Sizes
    <2> QED
      BY <2>2, <2>3
  <1> QED
    BY <1>4, <1>5, <1>7

\* The last H inputs, from any window of the last H inputs before.
LEMMA RecentAppend ==
    ASSUME NEW S, 0 \in S, NEW q \in Seq(S), NEW x \in Seq(S)
    PROVE  Recent(q \o x) = SubSeq(Recent(q) \o x, Len(x) + 1, Len(x) + H)
  <1> DEFINE y == Recent(q) \o x
             s == SubSeq(y, Len(x) + 1, Len(x) + H)
  <1>1. /\ q \o x \in Seq(S) /\ Len(q \o x) = Len(q) + Len(x)
        /\ \A i \in 1..(Len(q) + Len(x)) : (q \o x)[i] = IF i <= Len(q) THEN q[i] ELSE x[i - Len(q)]
        /\ Len(q) \in Nat /\ Len(x) \in Nat
    BY ConcatProperties, LenProperties
  <1>2. /\ Recent(q) \in Seq(S) /\ Len(Recent(q)) = H
        /\ \A i \in 1..H : Recent(q)[i] = IF Len(q) + i <= H THEN 0 ELSE q[Len(q) + i - H]
    BY RecentIs
  <1>3. /\ y \in Seq(S) /\ Len(y) = H + Len(x)
        /\ \A i \in 1..(H + Len(x)) : y[i] = IF i <= H THEN Recent(q)[i] ELSE x[i - H]
    BY <1>2, ConcatProperties
  <1> HIDE DEF y
  <1>4. /\ s \in Seq(S) /\ Len(s) = H
        /\ \A i \in 1..H : s[i] = y[Len(x) + i]
    BY <1>1, <1>3, Sizes, Slice
  <1> DEFINE t == Recent(q \o x)
  <1>5. /\ t \in Seq(S) /\ Len(t) = H
        /\ \A i \in 1..H : t[i] = IF Len(q) + Len(x) + i <= H THEN 0
                                  ELSE (q \o x)[Len(q) + Len(x) + i - H]
    BY <1>1, RecentIs
  <1> HIDE DEF s, t
  <1>6. ASSUME NEW i \in 1..H PROVE t[i] = s[i]
    <2>1. i \in Int /\ Len(x) + i \in 1..(H + Len(x))
      BY <1>1, Sizes
    <2>2. CASE Len(x) + i <= H
      <3>1. s[i] = Recent(q)[Len(x) + i]
        BY <1>3, <1>4, <2>1, <2>2
      <3>2. s[i] = IF Len(q) + (Len(x) + i) <= H THEN 0 ELSE q[Len(q) + (Len(x) + i) - H]
        BY <1>1, <1>2, <2>1, <2>2, <3>1
      <3>3. CASE Len(q) + Len(x) + i <= H
        BY <1>1, <1>5, <2>1, <3>2, <3>3, Sizes
      <3>4. CASE ~(Len(q) + Len(x) + i <= H)
        <4>1. Len(q) + Len(x) + i - H \in 1..Len(q)
          BY <1>1, <2>1, <2>2, <3>4, Sizes
        <4> QED
          BY <1>1, <1>5, <2>1, <3>2, <3>4, <4>1, Sizes
      <3> QED
        BY <3>3, <3>4
    <2>3. CASE ~(Len(x) + i <= H)
      <3>1. s[i] = x[Len(x) + i - H]
        BY <1>1, <1>3, <1>4, <2>1, <2>3, Sizes
      <3>2. /\ Len(q) + Len(x) + i - H \in 1..(Len(q) + Len(x))
            /\ ~(Len(q) + Len(x) + i - H <= Len(q))
            /\ Len(q) + Len(x) + i - H - Len(q) = Len(x) + i - H
            /\ ~(Len(q) + Len(x) + i <= H)
        BY <1>1, <2>1, <2>3, Sizes
      <3> QED
        BY <1>1, <1>5, <3>1, <3>2
    <2> QED
      BY <2>2, <2>3
  <1>7. s = t
    BY <1>4, <1>5, <1>6, SeqEqual
  <1> QED
    BY <1>7 DEF s, t, y

Entry == 0..MaxInputs
Window == [1..(H + Drafts) -> Entry]

LEMMA WindowIsSeq ==
    ASSUME NEW w \in Window
    PROVE  w \in Seq(Entry) /\ Len(w) = H + Drafts
  BY Sizes DEF Window

LEMMA SeqIsWindow ==
    ASSUME NEW w \in Seq(Entry), Len(w) = H + Drafts
    PROVE  w \in Window
  BY Sizes DEF Window

\* The entries a convolution leaves.
LEMMA EncodedIs ==
    ASSUME NEW h \in Seq(Entry), Len(h) = H, NEW x \in Seq(Entry), Len(x) > 0,
           phase \in {"verify", "prefill"}, phase = "verify" => Len(x) <= Drafts + 1,
           NEW k \in Nat, k = IF phase = "prefill" THEN Len(x) ELSE 1
    PROVE  /\ Encoded(h, x) \in Window
           /\ \A i \in 1..H : Encoded(h, x)[i] = (h \o x)[k + i]
           /\ phase = "verify" => \A i \in 2..Len(x) : Encoded(h, x)[H + i - 1] = x[i]
  <1>1. 0 \in Entry /\ Len(x) \in Nat
    BY Sizes DEF Entry
  <1> DEFINE y == IF phase = "verify" THEN Tail(x) ELSE <<>>
             b == Padded(y, Drafts)
             a == SubSeq(h \o x, k + 1, k + H)
  <1>2. y \in Seq(Entry) /\ Len(y) = (IF phase = "verify" THEN Len(x) - 1 ELSE 0)
        /\ (phase = "verify" => \A i \in 1..(Len(x) - 1) : y[i] = x[i + 1])
    BY <1>1
  <1> HIDE DEF y
  <1>3. b \in Seq(Entry) /\ Len(b) = Drafts
        /\ (phase = "verify" => \A i \in 1..(Len(x) - 1) : b[i] = x[i + 1])
    <2>1. \A i \in 1..Len(y) : y[i] \in Entry
      BY <1>2
    <2>2. b = [i \in 1..Drafts |-> IF i <= Len(y) THEN y[i] ELSE 0]
      BY DEF Padded
    <2>3. \A i \in 1..Drafts : (IF i <= Len(y) THEN y[i] ELSE 0) \in Entry
      BY <1>1, <1>2, <2>1, Sizes
    <2>4. b \in Seq(Entry) /\ Len(b) = Drafts
      BY <2>2, <2>3, Sizes
    <2> HIDE DEF b
    <2>5. ASSUME phase = "verify", NEW i \in 1..(Len(x) - 1) PROVE b[i] = x[i + 1]
      BY <1>1, <1>2, <2>2, <2>5, Sizes
    <2> QED
      BY <2>4, <2>5
  <1>4. h \o x \in Seq(Entry) /\ Len(h \o x) = H + Len(x)
    BY Joined
  <1>5. a \in Seq(Entry) /\ Len(a) = H /\ \A i \in 1..H : a[i] = (h \o x)[k + i]
    BY <1>1, <1>4, Sizes, Slice
  <1> HIDE DEF a, b
  <1>6. /\ a \o b \in Seq(Entry) /\ Len(a \o b) = H + Drafts
        /\ \A i \in 1..H : (a \o b)[i] = a[i]
        /\ \A i \in 1..Drafts : (a \o b)[H + i] = b[i]
    BY <1>3, <1>5, JoinedAt
  <1>7. Encoded(h, x) = a \o b
    BY DEF Encoded, a, b, y
  <1>8. ASSUME phase = "verify", NEW i \in 2..Len(x) PROVE Encoded(h, x)[H + i - 1] = x[i]
    <2>1. i - 1 \in 1..Drafts /\ i - 1 \in 1..(Len(x) - 1) /\ H + (i - 1) = H + i - 1
      BY <1>1, <1>8, Sizes
    <2>2. (a \o b)[H + (i - 1)] = b[i - 1] /\ b[i - 1] = x[(i - 1) + 1]
      BY <1>3, <1>6, <1>8, <2>1
    <2> QED
      BY <1>1, <1>7, <2>1, <2>2
  <1> QED
    BY <1>5, <1>6, <1>7, <1>8, SeqIsWindow

\* A verification that accepts n of its inputs x leaves the history n - 1 on.
LEMMA VerifyHistory ==
    ASSUME NEW q \in Seq(Entry), NEW x \in Seq(Entry), phase = "verify", Len(x) <= Drafts + 1,
           NEW n \in 1..Len(x)
    PROVE  Skip(Encoded(Recent(q), x), n - 1) = Recent(q \o SubSeq(x, 1, n))
  <1>1. 0 \in Entry /\ Len(x) \in Nat /\ n \in Nat /\ n - 1 \in Nat
    BY Sizes DEF Entry
  <1> DEFINE h == Recent(q)
             p == SubSeq(x, 1, n)
             e == Encoded(h, x)
  <1>2. h \in Seq(Entry) /\ Len(h) = H
    BY <1>1, RecentIs
  <1>3. p \in Seq(Entry) /\ Len(p) = n /\ \A i \in 1..n : p[i] = x[i]
    BY <1>1, Slice
  <1>4. Recent(q \o p) = SubSeq(h \o p, Len(p) + 1, Len(p) + H)
    BY <1>1, <1>3, RecentAppend
  <1> HIDE DEF h, p
  <1>5. /\ e \in Window
        /\ \A i \in 1..H : e[i] = (h \o x)[1 + i]
        /\ \A i \in 2..Len(x) : e[H + i - 1] = x[i]
    BY <1>1, <1>2, EncodedIs
  <1>6. e \in Seq(Entry) /\ Len(e) = H + Drafts
    BY <1>5, WindowIsSeq
  <1> HIDE DEF e
  <1>7. /\ h \o p \in Seq(Entry) /\ Len(h \o p) = H + n
        /\ \A i \in 1..H : (h \o p)[i] = h[i]
        /\ \A i \in 1..n : (h \o p)[H + i] = p[i]
    <2>1. h \in Seq(Entry) /\ p \in Seq(Entry) /\ Len(h) = H /\ Len(p) = n
      BY <1>2, <1>3
    <2>2. h \o p \in Seq(Entry) /\ Len(h \o p) = H + n
      BY <2>1, JoinedAt
    <2>3. \A i \in 1..H : (h \o p)[i] = h[i]
      BY <2>1, JoinedAt
    <2>4. \A i \in 1..n : (h \o p)[H + i] = p[i]
      BY <2>1, JoinedAt
    <2> QED
      BY <2>2, <2>3, <2>4
  <1>8. /\ \A i \in 1..H : (h \o x)[i] = h[i]
        /\ \A i \in 1..Len(x) : (h \o x)[H + i] = x[i]
    BY <1>2, JoinedAt
  <1> DEFINE s == SubSeq(e, (n - 1) + 1, (n - 1) + H)
             t == SubSeq(h \o p, n + 1, n + H)
  <1>9. s \in Seq(Entry) /\ Len(s) = H /\ \A i \in 1..H : s[i] = e[(n - 1) + i]
    BY <1>1, <1>6, Sizes, Slice
  <1>10. t \in Seq(Entry) /\ Len(t) = H /\ \A i \in 1..H : t[i] = (h \o p)[n + i]
    BY <1>1, <1>7, Sizes, Slice
  <1>11. ASSUME NEW i \in 1..H PROVE s[i] = t[i]
    <2>1. s[i] = e[(n - 1) + i] /\ t[i] = (h \o p)[n + i]
      BY <1>9, <1>10
    <2> HIDE DEF s, t
    <2>2. CASE n + i <= H + 1
      <3> DEFINE j == (n - 1) + i
      <3>1. j \in 1..H /\ 1 + j = n + i
        BY <1>1, <2>2, Sizes
      <3> HIDE DEF j
      <3>2. e[j] = (h \o x)[1 + j]
        BY <1>5, <3>1
      <3>3. CASE n + i <= H
        <4>1. n + i \in 1..H
          BY <1>1, <3>3, Sizes
        <4>2. (h \o x)[n + i] = h[n + i] /\ (h \o p)[n + i] = h[n + i]
          BY <1>7, <1>8, <4>1
        <4> QED
          BY <2>1, <3>1, <3>2, <4>2 DEF j
      <3>4. CASE n + i = H + 1
        <4>1. 1 \in 1..n /\ 1 \in 1..Len(x)
          BY <1>1
        <4>2. (h \o x)[H + 1] = x[1]
          BY <1>8, <4>1
        <4>4. (h \o p)[H + 1] = p[1]
          BY <1>7, <4>1
        <4>3. p[1] = x[1]
          BY <1>1, <1>3
        <4> QED
          BY <2>1, <3>1, <3>2, <3>4, <4>2, <4>3, <4>4 DEF j
      <3> QED
        BY <1>1, <2>2, <3>3, <3>4, Sizes
    <2>4. CASE n + i > H + 1
      <3> DEFINE j == n + i - H
      <3>1. j \in 2..Len(x) /\ j \in 1..n /\ (n - 1) + i = H + j - 1 /\ n + i = H + j
        BY <1>1, <2>4, Sizes
      <3> HIDE DEF j
      <3>2. e[H + j - 1] = x[j]
        BY <1>5, <3>1
      <3>3. (h \o p)[H + j] = p[j]
        BY <1>7, <3>1
      <3> QED
        BY <1>3, <2>1, <3>1, <3>2, <3>3
    <2> QED
      BY <1>1, <2>2, <2>4, Sizes
  <1>12. s = t
    <2> HIDE DEF s, t
    <2> QED
      BY <1>9, <1>10, <1>11, SeqEqual
  <1> QED
    BY <1>3, <1>4, <1>12 DEF Skip, e, h, p

\* A prefill leaves the history at the front.
LEMMA PrefillHistory ==
    ASSUME NEW q \in Seq(Entry), NEW x \in Seq(Entry), phase = "prefill", Len(x) > 0
    PROVE  Skip(Encoded(Recent(q), x), 0) = Recent(q \o x)
  <1>1. 0 \in Entry /\ Len(x) \in Nat
    BY Sizes DEF Entry
  <1> DEFINE h == Recent(q)
             e == Encoded(h, x)
  <1>2. h \in Seq(Entry) /\ Len(h) = H
    BY <1>1, RecentIs
  <1>3. Recent(q \o x) = SubSeq(h \o x, Len(x) + 1, Len(x) + H)
    BY <1>1, RecentAppend
  <1> HIDE DEF h
  <1>4. e \in Window /\ \A i \in 1..H : e[i] = (h \o x)[Len(x) + i]
    BY <1>1, <1>2, EncodedIs
  <1>5. e \in Seq(Entry) /\ Len(e) = H + Drafts
    BY <1>4, WindowIsSeq
  <1> HIDE DEF e
  <1>6. h \o x \in Seq(Entry) /\ Len(h \o x) = H + Len(x)
    BY <1>2, Joined
  <1> DEFINE s == SubSeq(e, 0 + 1, 0 + H)
             t == SubSeq(h \o x, Len(x) + 1, Len(x) + H)
  <1>7. s \in Seq(Entry) /\ Len(s) = H /\ \A i \in 1..H : s[i] = e[0 + i]
    BY <1>5, Sizes, Slice
  <1>8. t \in Seq(Entry) /\ Len(t) = H /\ \A i \in 1..H : t[i] = (h \o x)[Len(x) + i]
    BY <1>1, <1>6, Sizes, Slice
  <1>9. s = t
    <2>1. ASSUME NEW i \in 1..H PROVE e[0 + i] = (h \o x)[Len(x) + i]
      <3>1. 0 + i = i
        OBVIOUS
      <3> QED
        BY <1>4, <3>1
    <2> HIDE DEF s, t
    <2>2. \A i \in 1..Len(s) : s[i] = t[i]
      BY <1>7, <1>8, <2>1
    <2> QED
      BY <1>7, <1>8, <2>2, SeqEqual
  <1> QED
    BY <1>3, <1>9 DEF Skip, e, h

-----------------------------------------------------------------------------
(***************************************************************************)
(* Admission.                                                              *)
(***************************************************************************)

LEMMA RowsTyped ==
    ASSUME NEW p \in Rows, NEW r \in Row
    PROVE  /\ p.live \in Int /\ p.slots[r] \in Int /\ p.upstream[r] \in Int
           /\ First(p, r) \in Int /\ End(p, r) \in Int /\ LengthOf(p, r) \in Int
           /\ End(p, r) = First(p, r) + LengthOf(p, r)
  <1>1. p.starts \in [0..Requests -> Int] /\ p.live \in Int
        /\ p.slots[r] \in Int /\ p.upstream[r] \in Int
    BY WindowAssumption DEF Row
  <1>2. p.starts[r] \in Int /\ p.starts[r + 1] \in Int
    BY <1>1, Sizes
  <1> QED
    BY <1>1, <1>2 DEF First, End, LengthOf

LEMMA ErrorRange ==
    ASSUME NEW p, NEW r,
           NEW kind \in {"verify", "restore", "prefill", "snapshot"}
    PROVE  ConvError(kind, p, r) \in Ok..Unsupported /\ TransportError(kind, p, r) \in Ok..Unsupported
  <1>1. KindError(kind, p, r) \in Ok..Unsupported
    BY DEF KindError, Ok, Bounds, Prefix, Unsupported
  <1>2. Dependency(p.upstream[r]) \in Ok..Unsupported
    BY DEF Dependency, Ok, Bounds, Unsupported
  <1>3. ConvError(kind, p, r) \in Ok..Unsupported
    BY <1>1, <1>2 DEF ConvError, Ok, Bounds, BadSlot, Conflict, Unsupported
  <1>4. LegacyError(kind, p, r) \in Ok..Unsupported
    BY DEF LegacyError, Ok, Bounds, BadSlot, Conflict, Prefix, Unsupported
  <1> QED
    BY <1>3, <1>4 DEF TransportError

\* A row that is convolved is the only one on its slot, which is its own.
LEMMA ConvolvedRow ==
    ASSUME NEW p \in Rows, SlotsOwned(p), NEW kind \in {"verify", "prefill"}, NEW r \in Row,
           r \in Admitted(p, [q \in Row |-> ConvError(kind, p, q)])
    PROVE  /\ p.slots[r] = Own(r) /\ Present(p, r) /\ First(p, r) >= 0
           /\ LengthOf(p, r) \in 1..Tokens /\ First(p, r) + LengthOf(p, r) <= Tokens
           /\ ~SharesSlot(p, r)
           /\ \A o \in Row \ {r} : p.slots[o] = p.slots[r] => ~Present(p, o)
           /\ kind = "verify" => LengthOf(p, r) <= Drafts + 1
  <1>1. /\ r < p.live /\ ConvError(kind, p, r) = Ok /\ LengthOf(p, r) > 0 /\ p.slots[r] >= 0
    BY DEF Admitted
  <1>2. /\ p.live \in Int /\ p.slots[r] \in Int /\ First(p, r) \in Int /\ End(p, r) \in Int
        /\ LengthOf(p, r) \in Int /\ End(p, r) = First(p, r) + LengthOf(p, r) /\ r \in Int
    BY RowsTyped, Sizes
  <1>3. /\ ~(First(p, r) < 0) /\ ~(End(p, r) > Tokens) /\ p.slots[r] \in Slot
        /\ ~SharesSlot(p, r) /\ KindError(kind, p, r) = Ok
    <2>1. ~(First(p, r) < 0) /\ ~(End(p, r) > Tokens)
      BY <1>1, <1>2 DEF ConvError, Ok, Bounds
    <2>2. p.slots[r] \in Slot /\ p.slots[r] # -1
      BY <1>1, <1>2 DEF ConvError, Ok, Bounds, Conflict, BadSlot, Dependency
    <2>3. ~SharesSlot(p, r)
      BY <1>1, <1>2, <2>2 DEF ConvError, Ok, Bounds, Conflict, BadSlot, Dependency
    <2>4. KindError(kind, p, r) = Ok
      BY <1>1, <1>2, <2>2 DEF ConvError, Ok, Bounds, Conflict, BadSlot, Dependency
    <2> QED
      BY <2>1, <2>2, <2>3, <2>4
  <1>4. First(p, r) >= 0 /\ LengthOf(p, r) \in 1..Tokens /\ First(p, r) + LengthOf(p, r) <= Tokens
    BY <1>1, <1>2, <1>3, Sizes
  <1>5. Present(p, r)
    BY <1>1, <1>2, <1>3, <1>4, Sizes DEF Present
  <1>6. \A o \in Row \ {r} : p.slots[o] = p.slots[r] => ~Present(p, o)
    BY <1>3 DEF SharesSlot
  <1>7. p.slots[r] = Own(r)
    BY <1>3, <1>6 DEF SlotsOwned
  <1>8. kind = "verify" => LengthOf(p, r) <= Drafts + 1
    BY <1>2, <1>3, Sizes DEF KindError, Ok, Bounds
  <1> QED
    BY <1>3, <1>4, <1>5, <1>6, <1>7, <1>8

LEMMA SnapshotKind ==
    ASSUME NEW p, NEW r
    PROVE  /\ TransportError("snapshot", p, r)' = TransportError("snapshot", p, r)
           /\ KindError("snapshot", p, r) = Ok
  BY DEF TransportError, LegacyError, ConvError, KindError

LEMMA CapturedRow ==
    ASSUME NEW p \in Rows, NEW r \in Row,
           r \in Transported(p, [q \in Row |-> TransportError("snapshot", p, q)])
    PROVE  p.slots[r] \in Slot /\ r < p.live
  <1>1. p.slots[r] \in Int
    BY RowsTyped
  <1>2. CASE Legacy
    <2>1. r < p.live /\ LegacyError("snapshot", p, r) = Ok /\ p.slots[r] > 0
      BY <1>2 DEF Transported, TransportError
    <2>2. ~(p.slots[r] >= Slots)
      BY <2>1, RowsTyped, Sizes DEF LegacyError, Ok, Bounds, BadSlot
    <2> QED
      BY <1>1, <2>1, <2>2, Sizes DEF Slot
  <1>3. CASE ~Legacy
    <2>1. r < p.live /\ ConvError("snapshot", p, r) = Ok /\ LengthOf(p, r) > 0 /\ p.slots[r] >= 0
      BY <1>3 DEF Transported, TransportError, Admitted
    <2>2. p.live \in Int /\ LengthOf(p, r) \in Int /\ r \in Int
      BY RowsTyped, Sizes
    <2> QED
      BY <1>1, <2>1, <2>2 DEF ConvError, Ok, Bounds, Conflict, BadSlot, Dependency
  <1> QED
    BY <1>2, <1>3

\* Admission of the round's rows does not depend on what the kernels write.
LEMMA SameRows ==
    ASSUME rows' = rows
    PROVE  /\ TransportErrors("snapshot")' = TransportErrors("snapshot")
           /\ Captured' = Captured
  <1>1. TransportErrors("snapshot")' = TransportErrors("snapshot")
    BY SnapshotKind DEF TransportErrors, TransportError, LegacyError, ConvError, KindError
  <1> QED
    BY <1>1 DEF Captured

LEMMA SameConvolved ==
    ASSUME rows' = rows, fresh' = fresh, prev' = prev
    PROVE  /\ Errors("verify")' = Errors("verify") /\ Errors("prefill")' = Errors("prefill")
           /\ Convolved' = Convolved
  <1>1. Errors("verify")' = Errors("verify") /\ Errors("prefill")' = Errors("prefill")
    BY DEF Errors, ConvError, KindError
  <1> QED
    BY <1>1 DEF Convolved

LEMMA SameUndone ==
    ASSUME rows' = rows, fresh' = fresh, prev' = prev, count' = count, stamps' = stamps
    PROVE  /\ TransportErrors("restore")' = TransportErrors("restore")
           /\ Undone' = Undone
  <1>1. TransportErrors("restore")' = TransportErrors("restore")
    BY DEF TransportErrors, TransportError, LegacyError, ConvError, KindError
  <1> QED
    BY <1>1 DEF Undone

\* Rows a kernel runs on are rows.
LEMMA AdmittedRows ==
    ASSUME NEW p, NEW err
    PROVE  Admitted(p, err) \subseteq Row /\ Transported(p, err) \subseteq Row
  BY DEF Admitted, Transported

-----------------------------------------------------------------------------
(***************************************************************************)
(* Rows a convolution runs on.                                             *)
(***************************************************************************)

\* The rows of a convolution in flight, in both of its phases.
LEMMA AtWork ==
    ASSUME KernelInv, phase \in {"verify", "prefill"}
    PROVE  /\ rows \in Rows /\ SlotsOwned(rows) /\ issued + Tokens <= MaxInputs
           /\ errors = [r \in Row |-> ConvError(phase, rows, r)]
           /\ todo \subseteq Admitted(rows, errors)
           /\ phase = "verify" => Admitted(rows, errors) = Convolved
           /\ \A r \in Admitted(rows, errors) :
                /\ rows.slots[r] = Own(r) /\ First(rows, r) >= 0
                /\ LengthOf(rows, r) \in 1..Tokens
                /\ First(rows, r) + LengthOf(rows, r) <= Tokens
                /\ phase = "verify" => LengthOf(rows, r) <= Drafts + 1
  <1>1. rows \in Rows /\ SlotsOwned(rows) /\ issued + Tokens <= MaxInputs
    BY DEF KernelInv
  <1>2. /\ errors = Errors(phase) /\ todo \subseteq Admitted(rows, errors)
        /\ phase = "verify" => Admitted(rows, errors) = Convolved
    BY DEF KernelInv, Convolved
  <1>3. errors = [r \in Row |-> ConvError(phase, rows, r)]
    BY <1>2 DEF Errors
  <1>4. Admitted(rows, errors) \subseteq Row
    BY AdmittedRows
  <1> QED
    BY <1>1, <1>2, <1>3, <1>4, ConvolvedRow

\* The inputs of an interval are numbers not issued before.
LEMMA InputsAre ==
    ASSUME TypeOK, rows \in Rows, issued + Tokens <= MaxInputs, NEW r \in Row,
           First(rows, r) >= 0, LengthOf(rows, r) \in 1..Tokens,
           First(rows, r) + LengthOf(rows, r) <= Tokens
    PROVE  /\ Inputs(r) \in Seq(1..MaxInputs) /\ Inputs(r) \in Seq(Entry)
           /\ Len(Inputs(r)) = LengthOf(rows, r)
  <1>1. First(rows, r) \in Nat /\ LengthOf(rows, r) \in Nat /\ issued \in Nat
    BY RowsTyped DEF TypeOK
  <1>2. \A i \in 1..LengthOf(rows, r) :
          issued + First(rows, r) + i \in 1..MaxInputs /\ issued + First(rows, r) + i \in Entry
    BY <1>1, Sizes DEF Entry
  <1> DEFINE n == LengthOf(rows, r)
             f(i) == issued + First(rows, r) + i
  <1>3. Inputs(r) = [i \in 1..n |-> f(i)]
    BY DEF Inputs
  <1>4. n \in Nat /\ \A i \in 1..n : f(i) \in 1..MaxInputs /\ f(i) \in Entry
    BY <1>1, <1>2
  <1> HIDE DEF n, f
  <1>5. Inputs(r) \in Seq(1..MaxInputs) /\ Inputs(r) \in Seq(Entry) /\ Len(Inputs(r)) = n
    BY <1>3, <1>4
  <1> QED
    BY <1>5 DEF n

\* What a block loads is H entries of a window, or zeros.
LEMMA HistoryIs ==
    ASSUME TypeOK, KernelInv, phase \in {"verify", "prefill"}, NEW r \in Admitted(rows, errors)
    PROVE  /\ History(r) \in Seq(Entry) /\ Len(History(r)) = H
           /\ fresh[r] => History(r) = Zeros(H)
           /\ ~fresh[r] => History(r) = Skip(window[Own(r)], IF phase = "verify" THEN prev[r] - 1 ELSE 0)
  <1>1. r \in Row /\ rows.slots[r] = Own(r)
    BY AtWork, AdmittedRows
  <1>2. window[Own(r)] \in Seq(Entry) /\ Len(window[Own(r)]) = H + Drafts
    <2>1. window[Own(r)] \in Window
      BY <1>1, Sizes DEF TypeOK, Window, Entry
    <2> QED
      BY <2>1, WindowIsSeq
  <1> DEFINE shift == IF phase = "verify" THEN prev[r] - 1 ELSE 0
  <1>3. shift \in 0..Drafts
    <2>1. prev[r] \in 1..(Drafts + 1)
      BY <1>1 DEF TypeOK
    <2> QED
      BY <2>1, Sizes
  <1>4. 0 \in Entry
    BY Sizes DEF Entry
  <1>5. fresh[r] \in BOOLEAN
    BY <1>1 DEF TypeOK
  <1>6. CASE fresh[r]
    BY <1>4, <1>6, ZerosAre, Sizes DEF History
  <1>7. CASE ~fresh[r]
    <2>1. History(r) = SubSeq(window[Own(r)], shift + 1, shift + H)
      BY <1>1, <1>7 DEF History
    <2> HIDE DEF shift
    <2>2. shift \in Nat /\ shift + H <= H + Drafts
      BY <1>3, Sizes
    <2>3. History(r) \in Seq(Entry) /\ Len(History(r)) = H
      BY <1>2, <2>1, <2>2, Sizes, Slice
    <2> QED
      BY <1>7, <2>1, <2>3 DEF Skip, shift
  <1> QED
    BY <1>6, <1>7

LEMMA ConvolveTyped ==
    ASSUME TypeOK, KernelInv, phase \in {"verify", "prefill"}, NEW r \in Admitted(rows, errors)
    PROVE  Encoded(History(r), Inputs(r)) \in Window
  <1>1. r \in Row
    BY AdmittedRows
  <1>2. /\ Inputs(r) \in Seq(Entry) /\ Len(Inputs(r)) > 0
        /\ phase = "verify" => Len(Inputs(r)) <= Drafts + 1
    BY <1>1, AtWork, InputsAre
  <1>3. History(r) \in Seq(Entry) /\ Len(History(r)) = H
    BY HistoryIs
  <1> DEFINE k == IF phase = "prefill" THEN Len(Inputs(r)) ELSE 1
  <1>4. k \in Nat
    BY <1>2
  <1> HIDE DEF k
  <1> QED
    BY <1>2, <1>3, <1>4, EncodedIs DEF k

-----------------------------------------------------------------------------
(***************************************************************************)
(* Types.                                                                  *)
(***************************************************************************)

LEMMA CaptureTypes ==
    ASSUME TypeOK, NEW p \in Rows, Capture(p)
    PROVE  TypeOK'
  <1>1. errors' \in [Row -> Ok..Unsupported]
    BY ErrorRange DEF Capture
  <1>2. stamps' \in [Row -> Slot \cup {-1}]
    <2> DEFINE e == [q \in Row |-> TransportError("snapshot", p, q)]
    <2>1. stamps' = [r \in Row |-> IF ~Legacy THEN -1
                                   ELSE IF r \in Transported(p, e) THEN p.slots[r] ELSE 0]
      BY DEF Capture
    <2>2. \A r \in Row : r \in Transported(p, e) => p.slots[r] \in Slot
      BY CapturedRow
    <2>3. 0 \in Slot
      BY WindowAssumption DEF Slot
    <2> HIDE DEF e
    <2> QED
      BY <2>1, <2>2, <2>3
  <1>3. todo' \subseteq Row
    BY AdmittedRows DEF Capture
  <1> QED
    BY <1>1, <1>2, <1>3 DEF Capture, TypeOK

LEMMA CaptureRowTypes ==
    ASSUME TypeOK, KernelInv, NEW r \in Row, CaptureRow(r)
    PROVE  TypeOK'
  <1>1. rows.slots[r] \in Slot
    BY CapturedRow DEF CaptureRow, KernelInv, Captured, TransportErrors
  <1>2. snapshot' \in [Row -> [1..(H + Drafts) -> 0..MaxInputs]]
    BY <1>1 DEF CaptureRow, TypeOK
  <1>3. stamps' \in [Row -> Slot \cup {-1}]
    BY <1>1 DEF CaptureRow, TypeOK
  <1> QED
    BY <1>2, <1>3 DEF CaptureRow, TypeOK

LEMMA ConvolveTypes ==
    ASSUME TypeOK, KernelInv, NEW r \in Row, Convolve(r)
    PROVE  TypeOK'
  <1>1. Encoded(History(r), Inputs(r)) \in Window
    BY AtWork, ConvolveTyped DEF Convolve
  <1>2. window' \in [Slot -> [1..(H + Drafts) -> 0..MaxInputs]]
    BY <1>1 DEF Convolve, TypeOK, Window, Entry
  <1> QED
    BY <1>2 DEF Convolve, TypeOK

LEMMA PrefillDoneTypes ==
    ASSUME TypeOK, KernelInv, PrefillDone
    PROVE  TypeOK'
  <1>1. phase = "prefill"
    BY DEF PrefillDone
  <1>2. \A r \in Admitted(rows, errors) : r \in Row /\ Inputs(r) \in Seq(1..MaxInputs)
    BY <1>1, AtWork, InputsAre, AdmittedRows
  <1>3. stream' \in [Row -> Seq(1..MaxInputs)]
    <2>1. stream' = [r \in Row |-> IF r \in Admitted(rows, errors) THEN stream[r] \o Inputs(r)
                                   ELSE stream[r]]
      BY DEF PrefillDone
    <2>2. ASSUME NEW r \in Admitted(rows, errors)
          PROVE  stream[r] \o Inputs(r) \in Seq(1..MaxInputs)
      <3>1. stream[r] \in Seq(1..MaxInputs) /\ Inputs(r) \in Seq(1..MaxInputs)
        BY <1>2, <2>2 DEF TypeOK
      <3> QED
        BY <3>1, Joined
    <2> QED
      BY <2>1, <2>2 DEF TypeOK
  <1>4. prev' \in [Row -> 1..(Drafts + 1)] /\ fresh' \in [Row -> BOOLEAN]
    <2>1. 1 \in 1..(Drafts + 1)
      BY Sizes
    <2>2. prev' = [r \in Row |-> IF r \in Admitted(rows, errors) THEN 1 ELSE prev[r]]
      BY DEF PrefillDone
    <2>3. fresh' = [r \in Row |-> fresh[r] /\ ~(r \in Admitted(rows, errors))]
      BY DEF PrefillDone
    <2>4. prev' \in [Row -> 1..(Drafts + 1)]
      BY <2>1, <2>2 DEF TypeOK
    <2>5. fresh' \in [Row -> BOOLEAN]
      BY <2>3
    <2> QED
      BY <2>4, <2>5
  <1>5. issued' \in 0..MaxInputs
    BY <1>1, Sizes DEF PrefillDone, TypeOK, KernelInv
  <1> QED
    BY <1>3, <1>4, <1>5 DEF PrefillDone, TypeOK

\* What the loop accepts of a row.
LEMMA AcceptedInputs ==
    ASSUME TypeOK, KernelInv, Restore, NEW r \in Row
    PROVE  /\ count'[r] \in 0..(Drafts + 1)
           /\ count'[r] > 0 => r \in Convolved /\ count'[r] <= LengthOf(rows, r)
           /\ SubSeq(Inputs(r), 1, count'[r]) \in Seq(1..MaxInputs)
           /\ count'[r] = 0 => SubSeq(Inputs(r), 1, count'[r]) = <<>>
           /\ stream'[r] = stream[r] \o SubSeq(Inputs(r), 1, count'[r])
  <1>1. phase = "verify" /\ Admitted(rows, errors) = Convolved
    BY AtWork DEF Restore
  <1>2. PICK n \in [Row -> 0..(Drafts + 1)] :
          /\ \A q \in Row : n[q] <= IF q \in Admitted(rows, errors) THEN LengthOf(rows, q) ELSE 0
          /\ count' = n
    BY DEF Restore
  <1>3. count'[r] \in 0..(Drafts + 1)
    BY <1>2
  <1>4. count'[r] > 0 => r \in Convolved /\ count'[r] <= LengthOf(rows, r)
    BY <1>1, <1>2, Sizes
  <1>5. CASE count'[r] = 0
    <2>1. SubSeq(Inputs(r), 1, 0) = <<>>
      OBVIOUS
    <2> QED
      BY <1>3, <1>4, <1>5, <2>1 DEF Restore
  <1>6. CASE count'[r] > 0
    <2>1. Inputs(r) \in Seq(1..MaxInputs) /\ Len(Inputs(r)) = LengthOf(rows, r)
      BY <1>1, <1>4, <1>6, AtWork, InputsAre
    <2>2. SubSeq(Inputs(r), 1, count'[r]) \in Seq(1..MaxInputs)
      BY <1>3, <1>4, <1>6, <2>1, Sizes
    <2> QED
      BY <1>3, <1>4, <1>6, <2>2 DEF Restore
  <1>7. count'[r] = 0 \/ count'[r] > 0
    BY <1>3, Sizes
  <1> QED
    BY <1>3, <1>4, <1>5, <1>6, <1>7

LEMMA RestoreTypes ==
    ASSUME TypeOK, KernelInv, Restore
    PROVE  TypeOK'
  <1>1. count' \in [Row -> 0..(Drafts + 1)]
    BY DEF Restore
  <1>2. stream' \in [Row -> Seq(1..MaxInputs)]
    <2>1. ASSUME NEW r \in Row
          PROVE  stream[r] \o SubSeq(Inputs(r), 1, count'[r]) \in Seq(1..MaxInputs)
      <3>1. stream[r] \in Seq(1..MaxInputs)
        BY DEF TypeOK
      <3>2. SubSeq(Inputs(r), 1, count'[r]) \in Seq(1..MaxInputs)
        BY AcceptedInputs
      <3> QED
        BY <3>1, <3>2, Joined
    <2> QED
      BY <2>1 DEF Restore
  <1> QED
    BY <1>1, <1>2 DEF Restore, TypeOK

LEMMA TypesStep ==
    ASSUME TypeOK, KernelInv, [Next]_vars
    PROVE  TypeOK'
  <1>1. CASE UNCHANGED vars
    BY <1>1 DEF vars, TypeOK
  <1>2. ASSUME NEW r \in Row, Admit(r) PROVE TypeOK'
    <2>1. <<>> \in Seq(1..MaxInputs)
      OBVIOUS
    <2>2. 1 \in 1..(Drafts + 1)
      BY Sizes
    <2>3. stream' \in [Row -> Seq(1..MaxInputs)]
      BY <1>2, <2>1 DEF Admit, TypeOK
    <2>4. prev' \in [Row -> 1..(Drafts + 1)] /\ fresh' \in [Row -> BOOLEAN]
      BY <1>2, <2>2 DEF Admit, TypeOK
    <2> QED
      BY <1>2, <2>3, <2>4 DEF Admit, TypeOK
  <1>3. ASSUME NEW p \in Rows, Prefill(p) PROVE TypeOK'
    <2>1. errors' \in [Row -> Ok..Unsupported]
      BY <1>3, ErrorRange DEF Prefill
    <2> QED
      BY <1>3, <2>1, AdmittedRows DEF Prefill, TypeOK
  <1>4. CASE Verify
    <2>1. errors' \in [Row -> Ok..Unsupported]
      BY <1>4, ErrorRange DEF Verify
    <2> QED
      BY <1>4, <2>1, AdmittedRows DEF Verify, TypeOK
  <1>5. CASE RestoreZero
    <2>1. errors' \in [Row -> Ok..Unsupported]
      BY <1>5, ErrorRange DEF RestoreZero
    <2> QED
      BY <1>5, <2>1, AdmittedRows DEF RestoreZero, TypeOK
  <1>6. ASSUME NEW r \in Row, RestoreRow(r) PROVE TypeOK'
    BY <1>6 DEF RestoreRow, TypeOK
  <1>7. CASE RoundDone
    <2>1. prev' \in [Row -> 1..(Drafts + 1)] /\ fresh' \in [Row -> BOOLEAN]
      <3>1. fresh' = [r \in Row |-> fresh[r] /\ count[r] = 0]
        BY <1>7 DEF RoundDone
      <3>2. fresh' \in [Row -> BOOLEAN]
        BY <3>1
      <3>3. prev' = [r \in Row |-> IF count[r] > 0 THEN count[r] ELSE prev[r]]
        BY <1>7 DEF RoundDone
      <3>4. ASSUME NEW r \in Row
            PROVE  (IF count[r] > 0 THEN count[r] ELSE prev[r]) \in 1..(Drafts + 1)
        <4>1. count[r] \in 0..(Drafts + 1) /\ prev[r] \in 1..(Drafts + 1)
          BY DEF TypeOK
        <4> QED
          BY <4>1, Sizes
      <3>5. prev' \in [Row -> 1..(Drafts + 1)]
        BY <3>3, <3>4
      <3> QED
        BY <3>2, <3>5
    <2>2. issued' \in 0..MaxInputs /\ count' \in [Row -> 0..(Drafts + 1)]
      BY <1>7, Sizes DEF RoundDone, TypeOK, KernelInv
    <2>3. found' \in [Slot -> [1..(H + Drafts) -> 0..MaxInputs]]
      BY <1>7, Sizes DEF RoundDone, NotFound, Zeros
    <2> QED
      BY <1>7, <2>1, <2>2, <2>3 DEF RoundDone, TypeOK
  <1>8. CASE LaunchFails
    <2>1. NotFound \in [Slot -> [1..(H + Drafts) -> 0..MaxInputs]]
      BY Sizes DEF NotFound, Zeros
    <2> QED
      BY <1>8, <2>1 DEF LaunchFails, TypeOK
  <1> QED
    BY <1>1, <1>2, <1>3, <1>4, <1>5, <1>6, <1>7, <1>8, CaptureTypes, CaptureRowTypes,
       ConvolveTypes, PrefillDoneTypes, RestoreTypes DEF Next

-----------------------------------------------------------------------------
(***************************************************************************)
(* Whose window a round may have changed.                                  *)
(***************************************************************************)

\* A row that is undone is on its own slot and was captured.
LEMMA UndoneRow ==
    ASSUME TypeOK, KernelInv, SnapshotInv, Accepted, NEW r \in Undone
    PROVE  r \in Row /\ r \in Captured /\ rows.slots[r] = Own(r) /\ count[r] = 0
  <1>1. rows \in Rows /\ SlotsOwned(rows) /\ r \in Row /\ count[r] = 0
    BY AdmittedRows DEF KernelInv, Accepted, Undone
  <1>2. /\ rows.live \in Int /\ rows.slots[r] \in Int /\ r \in Int
        /\ First(rows, r) \in Int /\ LengthOf(rows, r) \in Int /\ End(rows, r) \in Int
    BY <1>1, RowsTyped, Sizes
  <1>3. r \notin Captured => stamps[r] = IF Legacy THEN 0 ELSE -1
    BY <1>1 DEF SnapshotInv, InRound, Accepted
  <1>4. CASE Legacy
    <2>1. r < rows.live /\ LegacyError("restore", rows, r) = Ok /\ rows.slots[r] > 0
      BY <1>1, <1>4 DEF Undone, TransportErrors, Transported, TransportError
    <2>2. ~(\E o \in Row \ {r} : o < rows.live /\ rows.slots[o] = rows.slots[r])
      BY <1>2, <2>1 DEF LegacyError, Ok, Bounds, Conflict
    <2>3. rows.slots[r] = stamps[r]
      BY <1>2, <2>1, <2>2 DEF LegacyError, Ok, Bounds, Conflict, Prefix
    <2>4. ~(rows.slots[r] >= Slots)
      BY <1>2, <2>1, <2>2, <2>3, Sizes DEF LegacyError, Ok, Bounds, Conflict, Prefix, BadSlot
    <2>5. rows.slots[r] \in Slot
      BY <1>2, <2>1, <2>4, Sizes DEF Slot
    <2>6. rows.slots[r] = Own(r)
      BY <1>1, <2>2, <2>5 DEF SlotsOwned, Present
    <2>7. r \in Captured
      BY <1>2, <1>3, <1>4, <2>1, <2>3
    <2> QED
      BY <1>1, <2>6, <2>7
  <1>5. CASE ~Legacy
    <2>1. /\ r < rows.live /\ ConvError("restore", rows, r) = Ok
          /\ LengthOf(rows, r) > 0 /\ rows.slots[r] >= 0
      BY <1>1, <1>5 DEF Undone, TransportErrors, Transported, TransportError, Admitted
    <2>2. rows.slots[r] \in Slot /\ rows.slots[r] # -1
      BY <1>2, <2>1 DEF ConvError, Ok, Bounds, Conflict, BadSlot, Dependency
    <2>3. ~SharesSlot(rows, r)
      BY <1>2, <2>1, <2>2 DEF ConvError, Ok, Bounds, Conflict, BadSlot, Dependency
    <2>4. KindError("restore", rows, r) = Ok
      BY <1>2, <2>1, <2>2, <2>3 DEF ConvError, Ok, Bounds, Conflict, BadSlot, Dependency
    <2>5. rows.slots[r] = stamps[r]
      BY <2>4 DEF KindError, Ok, Prefix
    <2>6. rows.slots[r] = Own(r)
      BY <1>1, <2>2, <2>3 DEF SlotsOwned, SharesSlot
    <2>7. r \in Captured
      BY <1>2, <1>3, <1>5, <2>1, <2>5
    <2> QED
      BY <1>1, <2>6, <2>7
  <1> QED
    BY <1>4, <1>5

\* A convolved row is captured, and undone when nothing of it is accepted.
LEMMA ConvolvedIsUndone ==
    ASSUME TypeOK, KernelInv, SnapshotInv, Accepted, NEW r \in Convolved, count[r] = 0
    PROVE  r \in Undone
  <1>1. rows \in Rows /\ SlotsOwned(rows) /\ r \in Row
    BY AdmittedRows DEF KernelInv, Accepted, Convolved
  <1>2. /\ rows.live \in Int /\ rows.slots[r] \in Int /\ r \in Int
        /\ First(rows, r) \in Int /\ LengthOf(rows, r) \in Int /\ End(rows, r) \in Int
    BY <1>1, RowsTyped, Sizes
  <1>3. /\ rows.slots[r] = Own(r) /\ ~SharesSlot(rows, r) /\ LengthOf(rows, r) \in 1..Tokens
        /\ \A o \in Row \ {r} : rows.slots[o] = rows.slots[r] => ~Present(rows, o)
    BY <1>1, ConvolvedRow DEF Convolved, Errors
  <1>4. Own(r) \in Slot /\ Own(r) \in Nat
    BY <1>1, Sizes DEF Slot
  <1>5. \A o \in Row \ {r} : rows.slots[o] # rows.slots[r]
    BY <1>1, <1>3, <1>4, Sizes DEF SlotsOwned
  <1>6. /\ r < rows.live /\ ConvError("verify", rows, r) = Ok
    BY <1>1 DEF Convolved, Errors, Admitted
  <1>7. CASE Legacy
    <2>1. ~(rows.live < 0) /\ ~(rows.live > Requests)
      BY <1>6 DEF ConvError, Ok, Bounds
    <2>2. rows.slots[r] > 0 /\ ~(rows.slots[r] >= Slots)
      BY <1>1, <1>3, <1>4, <1>7, Sizes DEF Slot
    <2>3. LegacyError("snapshot", rows, r) = Ok
      BY <1>6, <2>1, <2>2 DEF LegacyError
    <2>4. r \in Captured
      BY <1>1, <1>6, <1>7, <2>2, <2>3 DEF Captured, TransportErrors, TransportError, Transported
    <2>5. stamps[r] = rows.slots[r]
      BY <1>1, <2>4 DEF SnapshotInv, InRound, Accepted
    <2>6. 0 \in 0..(H + Drafts - 2)
      BY WindowAssumption
    <2>7. LegacyError("restore", rows, r) = Ok
      BY <1>5, <1>6, <2>1, <2>2, <2>5, <2>6 DEF LegacyError
    <2> QED
      BY <1>1, <1>6, <1>7, <2>2, <2>7 DEF Undone, TransportErrors, TransportError, Transported
  <1>8. CASE ~Legacy
    <2>1. /\ ~(rows.live < 0 \/ rows.live > Requests)
          /\ ~(First(rows, r) < 0 \/ LengthOf(rows, r) < 0 \/ End(rows, r) > Tokens)
          /\ ~(LengthOf(rows, r) = 0) /\ ~Overlaps(rows, r) /\ ~(rows.slots[r] = -1)
          /\ ~(rows.slots[r] \notin Slot)
      BY <1>2, <1>3, <1>4, <1>6 DEF ConvError, Ok, Bounds, Conflict
    <2>2. ~(rows.upstream[r] # 0)
      <3>1. SUFFICES ASSUME rows.upstream[r] # 0 PROVE FALSE
        OBVIOUS
      <3>2. Dependency(rows.upstream[r]) = Ok
        BY <1>2, <1>6, <2>1, <3>1 DEF ConvError
      <3>3. rows.upstream[r] \in Int
        BY <1>1, RowsTyped
      <3> QED
        BY <3>1, <3>2, <3>3 DEF Dependency, Ok, Bounds, Unsupported
    <2>3. ConvError("snapshot", rows, r) = Ok
      <3>1. KindError("snapshot", rows, r) = Ok
        BY SnapshotKind
      <3> QED
        BY <1>2, <1>6, <2>1, <2>2, <3>1 DEF ConvError
    <2>4. LengthOf(rows, r) > 0 /\ rows.slots[r] >= 0
      BY <1>3, <1>4
    <2>5. r \in Captured
      BY <1>1, <1>6, <1>8, <2>3, <2>4 DEF Captured, TransportErrors, TransportError, Transported, Admitted
    <2>6. stamps[r] = rows.slots[r]
      BY <1>1, <2>5 DEF SnapshotInv, InRound, Accepted
    <2>7. KindError("restore", rows, r) = Ok
      BY <1>2, <2>4, <2>6 DEF KindError
    <2>8. ConvError("restore", rows, r) = Ok
      BY <1>2, <1>3, <1>6, <2>1, <2>2, <2>7 DEF ConvError
    <2> QED
      BY <1>1, <1>6, <1>8, <2>4, <2>8 DEF Undone, TransportErrors, TransportError, Transported, Admitted
  <1> QED
    BY <1>7, <1>8

LEMMA InitRound == Init => RoundInv
  <1> SUFFICES ASSUME Init PROVE RoundInv
    OBVIOUS
  <1>1. TypeOK
    <2>1. Zeros(H + Drafts) \in [1..(H + Drafts) -> 0..MaxInputs]
      BY Sizes DEF Zeros
    <2>2. /\ stream \in [Row -> Seq(1..MaxInputs)] /\ issued \in 0..MaxInputs
          /\ prev \in [Row -> 1..(Drafts + 1)] /\ count \in [Row -> 0..(Drafts + 1)]
      BY Sizes DEF Init
    <2>3. errors \in [Row -> Ok..Unsupported] /\ stamps \in [Row -> Slot \cup {-1}]
      BY DEF Init, Ok, Unsupported
    <2>4. found \in [Slot -> [1..(H + Drafts) -> 0..MaxInputs]]
      BY <2>1 DEF Init, NotFound
    <2>5. /\ window \in [Slot -> [1..(H + Drafts) -> 0..MaxInputs]]
          /\ snapshot \in [Row -> [1..(H + Drafts) -> 0..MaxInputs]]
      BY <2>1 DEF Init
    <2> QED
      BY <2>2, <2>3, <2>4, <2>5 DEF Init, TypeOK
  <1> QED
    BY <1>1 DEF Init, RoundInv, KernelInv, SnapshotInv, FoundInv, InRound, Accepted

\* Steps outside a round, and those that end one.
LEMMA IdleRound ==
    ASSUME RoundInv, phase' = "idle", todo' = {}, TypeOK'
    PROVE  RoundInv'
  BY DEF RoundInv, KernelInv, SnapshotInv, FoundInv, InRound, Accepted

LEMMA CaptureRound ==
    ASSUME RoundInv, NEW p \in Rows, Capture(p), TypeOK'
    PROVE  RoundInv'
  <1>1. errors' = TransportErrors("snapshot")'
    BY SnapshotKind DEF Capture, TransportErrors
  <1>2. todo' = Captured'
    BY <1>1 DEF Capture, Captured
  <1>3. KernelInv'
    BY <1>1, <1>2 DEF RoundInv, KernelInv, Capture
  <1>4. SnapshotInv'
    BY <1>1, <1>2 DEF SnapshotInv, Capture, InRound, Captured
  <1>5. FoundInv'
    BY DEF FoundInv, Capture, Accepted
  <1> QED
    BY <1>3, <1>4, <1>5 DEF RoundInv

LEMMA CaptureRowRound ==
    ASSUME RoundInv, NEW r \in Row, CaptureRow(r), TypeOK'
    PROVE  RoundInv'
  <1>1. /\ TransportErrors("snapshot")' = TransportErrors("snapshot")
        /\ Captured' = Captured
    BY SameRows DEF CaptureRow
  <1>2. KernelInv'
    BY <1>1 DEF RoundInv, KernelInv, CaptureRow
  <1>3. window = found /\ r \in Captured
    BY DEF RoundInv, KernelInv, FoundInv, CaptureRow
  <1>4. /\ snapshot'[r] = found'[rows'.slots[r]] /\ stamps'[r] = rows'.slots[r]
        /\ \A q \in Row \ {r} : snapshot'[q] = snapshot[q] /\ stamps'[q] = stamps[q]
    BY <1>3 DEF CaptureRow, RoundInv, TypeOK
  <1>5. SnapshotInv'
    BY <1>1, <1>3, <1>4 DEF RoundInv, SnapshotInv, CaptureRow, InRound
  <1>6. FoundInv'
    BY DEF RoundInv, FoundInv, CaptureRow, Accepted
  <1> QED
    BY <1>2, <1>5, <1>6 DEF RoundInv

LEMMA VerifyRound ==
    ASSUME RoundInv, Verify, TypeOK'
    PROVE  RoundInv'
  <1>1. Captured' = Captured /\ Errors("verify")' = Errors("verify") /\ Convolved' = Convolved
    BY SameRows, SameConvolved DEF Verify
  <1>2. errors' = Errors("verify") /\ todo' = Convolved
    BY DEF Verify, Errors, Convolved
  <1>3. KernelInv'
    BY <1>1, <1>2 DEF RoundInv, KernelInv, Verify
  <1>4. SnapshotInv'
    BY <1>1 DEF RoundInv, SnapshotInv, Verify, InRound
  <1>5. FoundInv'
    BY DEF RoundInv, FoundInv, Verify, Accepted
  <1> QED
    BY <1>3, <1>4, <1>5 DEF RoundInv

LEMMA PrefillRound ==
    ASSUME RoundInv, NEW p \in Rows, Prefill(p), TypeOK'
    PROVE  RoundInv'
  <1>1. errors' = Errors("prefill")'
    BY DEF Prefill, Errors, ConvError, KindError
  <1> QED
    BY <1>1 DEF RoundInv, KernelInv, SnapshotInv, FoundInv, Prefill, InRound, Accepted

LEMMA ConvolveRound ==
    ASSUME RoundInv, NEW r \in Row, Convolve(r), TypeOK'
    PROVE  RoundInv'
  <1>1. /\ Captured' = Captured /\ Errors("verify")' = Errors("verify")
        /\ Errors("prefill")' = Errors("prefill") /\ Convolved' = Convolved
    BY SameRows, SameConvolved DEF Convolve
  <1>2. /\ r \in Admitted(rows, errors) /\ rows.slots[r] = Own(r)
        /\ phase = "verify" => r \in Convolved
    BY AtWork DEF Convolve, RoundInv
  <1>3. \A q \in Row \ {r} : window'[Own(q)] = window[Own(q)]
    BY <1>2, Sizes DEF Convolve, RoundInv, TypeOK
  <1>4. KernelInv'
    BY <1>1 DEF RoundInv, KernelInv, Convolve
  <1>5. SnapshotInv'
    BY <1>1 DEF RoundInv, SnapshotInv, Convolve, InRound
  <1>6. FoundInv'
    BY <1>1, <1>2, <1>3 DEF RoundInv, FoundInv, Convolve, Accepted
  <1> QED
    BY <1>4, <1>5, <1>6 DEF RoundInv

LEMMA RestoreRound ==
    ASSUME RoundInv, Restore, TypeOK'
    PROVE  RoundInv'
  <1>1. Captured' = Captured /\ Convolved' = Convolved
    BY SameRows, SameConvolved DEF Restore
  <1>2. ASSUME NEW r \in Row
        PROVE  count'[r] > 0 => r \in Convolved' /\ count'[r] <= LengthOf(rows', r)
    BY <1>1, AcceptedInputs DEF RoundInv, Restore
  <1>3. KernelInv'
    BY DEF RoundInv, KernelInv, Restore
  <1>4. SnapshotInv'
    BY <1>1 DEF RoundInv, SnapshotInv, Restore, InRound
  <1>5. FoundInv'
    <2>1. \A r \in Row : r \notin Convolved' => window'[Own(r)] = found'[Own(r)]
      BY <1>1 DEF RoundInv, FoundInv, Restore
    <2>2. phase' = "accepted"
      BY DEF Restore
    <2>3. \A r \in Row : count'[r] > 0 => r \in Convolved' /\ count'[r] <= LengthOf(rows, r)'
      BY <1>2 DEF LengthOf, First, End
    <2> QED
      BY <2>1, <2>2, <2>3 DEF FoundInv
  <1> QED
    BY <1>3, <1>4, <1>5 DEF RoundInv

LEMMA RestoreZeroRound ==
    ASSUME RoundInv, RestoreZero, TypeOK'
    PROVE  RoundInv'
  <1>1. /\ Captured' = Captured /\ Convolved' = Convolved /\ Undone' = Undone
        /\ TransportErrors("restore")' = TransportErrors("restore")
    BY SameRows, SameConvolved, SameUndone DEF RestoreZero
  <1>2. errors' = TransportErrors("restore") /\ todo' = Undone
    BY DEF RestoreZero, TransportErrors, Undone
  <1>3. KernelInv'
    BY <1>1, <1>2 DEF RoundInv, KernelInv, RestoreZero
  <1>4. SnapshotInv'
    BY <1>1 DEF RoundInv, SnapshotInv, RestoreZero, InRound
  <1>5. \A r \in Row : count[r] = 0 /\ r \notin Undone => window[Own(r)] = found[Own(r)]
    BY ConvolvedIsUndone DEF RoundInv, FoundInv, RestoreZero, Accepted
  <1>6. FoundInv'
    BY <1>1, <1>2, <1>5 DEF RoundInv, FoundInv, RestoreZero, Accepted, LengthOf, First, End
  <1> QED
    BY <1>3, <1>4, <1>6 DEF RoundInv

LEMMA RestoreRowRound ==
    ASSUME RoundInv, NEW r \in Row, RestoreRow(r), TypeOK'
    PROVE  RoundInv'
  <1>1. /\ Captured' = Captured /\ Convolved' = Convolved /\ Undone' = Undone
        /\ TransportErrors("restore")' = TransportErrors("restore")
    BY SameRows, SameConvolved, SameUndone DEF RestoreRow
  <1>2. r \in Undone /\ Accepted
    BY DEF RoundInv, KernelInv, RestoreRow, Accepted
  <1>3. r \in Captured /\ rows.slots[r] = Own(r)
    BY <1>2, UndoneRow DEF RoundInv
  <1>4. snapshot[r] = found[Own(r)]
    BY <1>3 DEF RoundInv, SnapshotInv, RestoreRow, InRound
  <1>5. /\ window'[Own(r)] = found[Own(r)]
        /\ \A q \in Row \ {r} : window'[Own(q)] = window[Own(q)]
    BY <1>3, <1>4, Sizes DEF RestoreRow, RoundInv, TypeOK
  <1>6. KernelInv'
    BY <1>1 DEF RoundInv, KernelInv, RestoreRow
  <1>7. SnapshotInv'
    BY <1>1 DEF RoundInv, SnapshotInv, RestoreRow, InRound
  <1>8. FoundInv'
    BY <1>1, <1>5 DEF RoundInv, FoundInv, RestoreRow, Accepted, LengthOf, First, End
  <1> QED
    BY <1>6, <1>7, <1>8 DEF RoundInv

LEMMA RetryRound ==
    ASSUME RoundInv, LaunchFails, phase = "restore", TypeOK'
    PROVE  RoundInv'
  <1>1. /\ phase' = "accepted" /\ todo' = {}
        /\ UNCHANGED <<window, snapshot, stamps, errors, rows, prev, fresh, count, issued, stream, found>>
    BY DEF LaunchFails
  <1>2. Captured' = Captured /\ Convolved' = Convolved
    BY <1>1, SameRows, SameConvolved
  <1>3. KernelInv'
    BY <1>1 DEF RoundInv, KernelInv
  <1>4. SnapshotInv'
    BY <1>1, <1>2 DEF RoundInv, SnapshotInv, InRound
  <1>5. FoundInv'
    BY <1>1, <1>2 DEF RoundInv, FoundInv, Accepted, LengthOf, First, End
  <1> QED
    BY <1>3, <1>4, <1>5 DEF RoundInv

LEMMA StutterRound ==
    ASSUME RoundInv, UNCHANGED vars
    PROVE  RoundInv'
  <1>1. /\ UNCHANGED <<window, snapshot, stamps, errors, rows, phase, todo, prev, fresh>>
        /\ UNCHANGED <<count, issued, stream, found>>
    BY DEF vars
  <1>2. /\ Captured' = Captured /\ Convolved' = Convolved /\ Undone' = Undone
        /\ TransportErrors("snapshot")' = TransportErrors("snapshot")
        /\ TransportErrors("restore")' = TransportErrors("restore")
        /\ Errors("verify")' = Errors("verify") /\ Errors("prefill")' = Errors("prefill")
    BY <1>1, SameRows, SameConvolved, SameUndone
  <1>3. TypeOK'
    BY <1>1 DEF RoundInv, TypeOK
  <1>4. KernelInv'
    BY <1>1, <1>2 DEF RoundInv, KernelInv
  <1>5. SnapshotInv'
    BY <1>1, <1>2 DEF RoundInv, SnapshotInv, InRound
  <1>6. FoundInv'
    BY <1>1, <1>2 DEF RoundInv, FoundInv, Accepted, LengthOf, First, End
  <1> QED
    BY <1>3, <1>4, <1>5, <1>6 DEF RoundInv

LEMMA RoundStep == RoundInv /\ [Next]_vars => RoundInv'
  <1> SUFFICES ASSUME RoundInv, [Next]_vars PROVE RoundInv'
    OBVIOUS
  <1>1. TypeOK'
    BY TypesStep DEF RoundInv
  <1>2. ASSUME NEW r \in Row, Admit(r) PROVE RoundInv'
    BY <1>1, <1>2, IdleRound DEF Admit, RoundInv, KernelInv
  <1>3. CASE PrefillDone \/ RoundDone
    BY <1>1, <1>3, IdleRound DEF PrefillDone, RoundDone
  <1>4. CASE LaunchFails
    <2>1. CASE phase = "restore"
      BY <1>1, <1>4, <2>1, RetryRound
    <2>2. CASE phase # "restore"
      BY <1>1, <1>4, <2>2, IdleRound DEF LaunchFails
    <2> QED
      BY <2>1, <2>2
  <1> QED
    BY <1>1, <1>2, <1>3, <1>4, CaptureRound, CaptureRowRound, VerifyRound, PrefillRound,
       ConvolveRound, RestoreRound, RestoreZeroRound, RestoreRowRound, StutterRound DEF Next

\* A window holds inputs issued so far, and every kernel works on rows, slots and
\* counts that exist.
THEOREM WindowTypes == Spec => []TypeOK
  <1>1. Spec => []RoundInv
    BY InitRound, RoundStep, PTL DEF Spec
  <1>2. RoundInv => TypeOK
    BY DEF RoundInv
  <1> QED
    BY <1>1, <1>2, PTL

\* A request that accepted nothing of a round finds its window as the round found
\* it: with either transport, for all operands, also when prefills follow any
\* verification and when the restore was launched again.
THEOREM ZeroRoundsAreUndone == Spec => []ZeroRoundUndone
  <1>1. Spec => []RoundInv
    BY InitRound, RoundStep, PTL DEF Spec
  <1>2. RoundInv => ZeroRoundUndone
    BY DEF RoundInv, FoundInv, ZeroRoundUndone
  <1> QED
    BY <1>1, <1>2, PTL

-----------------------------------------------------------------------------
(***************************************************************************)
(* Where the history of a request is.                                      *)
(***************************************************************************)

LEMMA StreamTyped ==
    ASSUME TypeOK, NEW r \in Row
    PROVE  stream[r] \in Seq(Entry)
  <1>1. stream[r] \in Seq(1..MaxInputs)
    BY DEF TypeOK
  <1>2. (1..MaxInputs) \subseteq Entry
    BY Sizes DEF Entry
  <1> DEFINE s == stream[r]
             S == 1..MaxInputs
  <1>3. s \in Seq(S) /\ S \subseteq Entry
    BY <1>1, <1>2
  <1> HIDE DEF s, S
  <1>4. Len(s) \in Nat /\ s = [i \in 1..Len(s) |-> s[i]] /\ \A i \in 1..Len(s) : s[i] \in Entry
    BY <1>3
  <1>5. s \in Seq(Entry)
    BY <1>4
  <1> QED
    BY <1>5 DEF s

LEMMA NothingYet == Recent(<<>>) = Zeros(H)
  <1>1. 0 \in Entry /\ <<>> \in Seq(Entry) /\ Len(<<>>) = 0
    BY Sizes DEF Entry
  <1>2. Zeros(H) \in Seq(Entry) /\ Len(Zeros(H)) = H /\ \A i \in 1..H : Zeros(H)[i] = 0
    BY <1>1, ZerosAre, Sizes
  <1>3. /\ Recent(<<>>) \in Seq(Entry) /\ Len(Recent(<<>>)) = H
        /\ \A i \in 1..H : Recent(<<>>)[i] = 0
    <2> DEFINE q == <<>>
    <2>1. q \in Seq(Entry) /\ Len(q) = 0
      BY <1>1
    <2> HIDE DEF q
    <2>2. /\ Recent(q) \in Seq(Entry) /\ Len(Recent(q)) = H
          /\ \A i \in 1..H : Recent(q)[i] = IF Len(q) + i <= H THEN 0 ELSE q[Len(q) + i - H]
      BY <1>1, <2>1, RecentIs
    <2>3. \A i \in 1..H : Recent(q)[i] = 0
      BY <2>1, <2>2, Sizes
    <2> QED
      BY <2>2, <2>3 DEF q
  <1> DEFINE s == Recent(<<>>)
             t == Zeros(H)
  <1>4. s \in Seq(Entry) /\ t \in Seq(Entry) /\ Len(s) = Len(t) /\ \A i \in 1..Len(s) : s[i] = t[i]
    BY <1>2, <1>3
  <1> HIDE DEF s, t
  <1>5. s = t
    BY <1>4, SeqEqual
  <1> QED
    BY <1>5 DEF s, t

\* A block loads the last inputs its request consumed.
LEMMA LoadsRecent ==
    ASSUME RoundInv, HistoryInv, phase \in {"verify", "prefill"}, NEW r \in todo
    PROVE  History(r) = Recent(stream[r])
  <1>1. r \in Admitted(rows, errors) /\ r \in Row
    BY AtWork, AdmittedRows DEF RoundInv
  <1>2. /\ fresh[r] => History(r) = Zeros(H)
        /\ ~fresh[r] => History(r) = Skip(window[Own(r)], IF phase = "verify" THEN prev[r] - 1 ELSE 0)
    BY <1>1, HistoryIs DEF RoundInv
  <1>3. CASE fresh[r]
    <2>1. stream[r] = <<>>
      BY <1>1, <1>3 DEF HistoryInv, Accepted
    <2> QED
      BY <1>2, <1>3, <2>1, NothingYet
  <1>4. CASE ~fresh[r] /\ phase = "verify"
    <2>1. window[Own(r)] = found[Own(r)]
      BY <1>1, <1>4 DEF RoundInv, FoundInv
    <2>2. Skip(found[Own(r)], prev[r] - 1) = Recent(stream[r])
      BY <1>1, <1>4 DEF HistoryInv, Ready
    <2> QED
      BY <1>2, <1>4, <2>1, <2>2
  <1>5. CASE ~fresh[r] /\ phase = "prefill"
    <2>1. prev[r] = 1
      BY <1>1, <1>5 DEF HistoryInv
    <2>2. Skip(window[Own(r)], prev[r] - 1) = Recent(stream[r])
      BY <1>1, <1>5 DEF HistoryInv, Ready
    <2>3. Skip(window[Own(r)], 0) = Recent(stream[r])
      BY <2>1, <2>2
    <2> QED
      BY <1>2, <1>5, <2>3
  <1> QED
    BY <1>3, <1>4, <1>5

LEMMA InitHistory == Init => HistoryInv
  BY DEF Init, HistoryInv, Ready, Accepted

LEMMA AdmitHistory ==
    ASSUME RoundInv, HistoryInv, NEW r \in Row, Admit(r)
    PROVE  HistoryInv'
  <1>1. /\ fresh'[r] /\ stream'[r] = <<>>
        /\ \A q \in Row \ {r} : fresh'[q] = fresh[q] /\ stream'[q] = stream[q] /\ prev'[q] = prev[q]
        /\ window' = window /\ phase = "idle" /\ phase' = "idle"
    BY DEF Admit, RoundInv, TypeOK
  <1>2. \A q \in Row : fresh'[q] => stream'[q] = <<>>
    BY <1>1 DEF HistoryInv, Accepted
  <1>3. \A q \in Row : Ready(q, window[Own(q)])'
    BY <1>1 DEF HistoryInv, Ready
  <1> QED
    BY <1>1, <1>2, <1>3 DEF HistoryInv, Accepted

LEMMA CaptureHistory ==
    ASSUME RoundInv, HistoryInv, NEW p \in Rows, Capture(p)
    PROVE  HistoryInv'
  BY DEF HistoryInv, Capture, Ready, Accepted

LEMMA CaptureRowHistory ==
    ASSUME RoundInv, HistoryInv, NEW r \in Row, CaptureRow(r)
    PROVE  HistoryInv'
  BY DEF HistoryInv, CaptureRow, Ready, Accepted

LEMMA VerifyHistoryInv ==
    ASSUME RoundInv, HistoryInv, Verify
    PROVE  HistoryInv'
  <1>1. todo' = Convolved'
    BY SameConvolved DEF Verify, Errors, Convolved
  <1> QED
    BY <1>1 DEF HistoryInv, Verify, Ready, Accepted

LEMMA PrefillHistoryInv ==
    ASSUME RoundInv, HistoryInv, ~AnyPrefill, NEW p \in Rows, Prefill(p)
    PROVE  HistoryInv'
  <1>1. \A r \in todo' : r \in Row /\ (fresh[r] \/ prev[r] = 1)
    <2> DEFINE e == [r \in Row |-> ConvError("prefill", p, r)]
    <2>1. todo' = Admitted(p, e) /\ SlotsOwned(p)
      BY DEF Prefill
    <2>2. \A r \in Admitted(p, e) : r \in Row /\ Present(p, r)
      BY <2>1, ConvolvedRow, AdmittedRows
    <2> HIDE DEF e
    <2> QED
      BY <2>1, <2>2 DEF Prefill
  <1>2. todo' = Admitted(rows', errors')
    BY DEF Prefill
  <1>3. \A r \in Row : Ready(r, window[Own(r)])'
    BY DEF HistoryInv, Prefill, Ready
  <1> QED
    BY <1>1, <1>2, <1>3 DEF HistoryInv, Prefill, Accepted

LEMMA ConvolveHistory ==
    ASSUME RoundInv, HistoryInv, NEW r \in Row, Convolve(r)
    PROVE  HistoryInv'
  <1>1. Convolved' = Convolved
    BY SameConvolved DEF Convolve
  <1>2. r \in Admitted(rows, errors) /\ rows.slots[r] = Own(r)
    BY AtWork DEF Convolve, RoundInv
  <1>3. /\ window'[Own(r)] = Encoded(Recent(stream[r]), Inputs(r))
        /\ \A q \in Row \ {r} : window'[Own(q)] = window[Own(q)]
    BY <1>2, LoadsRecent, Sizes DEF Convolve, RoundInv, TypeOK
  <1>4. \A q \in Row : Open(q)' = (window'[Own(q)] = Encoded(Recent(stream[q]), Inputs(q)))
    BY DEF Open, Encoded, Inputs, Convolve, LengthOf, First, End
  <1>5. Open(r)'
    BY <1>3, <1>4
  <1>6. \A q \in Row \ {r} : Open(q) => Open(q)'
    BY <1>3, <1>4 DEF Open
  <1>7. \A q \in Row \ {r} : Ready(q, window[Own(q)]) => Ready(q, window[Own(q)])'
    BY <1>3 DEF Ready, Convolve
  <1>8. \A q \in Row : Ready(q, found[Own(q)])' = Ready(q, found[Own(q)])
    BY DEF Ready, Convolve
  <1>9. CASE phase = "verify"
    <2>1. \A q \in Convolved \ todo : Open(q)'
      BY <1>6, <1>9, AdmittedRows DEF HistoryInv, Convolve, Convolved
    <2>2. \A q \in Convolved' \ todo' : Open(q)'
      BY <1>1, <1>5, <2>1 DEF Convolve
    <2> QED
      BY <1>8, <1>9, <2>2 DEF HistoryInv, Convolve, Accepted
  <1>10. CASE phase = "prefill"
    BY <1>2, <1>5, <1>6, <1>7, <1>10 DEF HistoryInv, Convolve, Accepted
  <1> QED
    BY <1>9, <1>10 DEF Convolve

LEMMA PrefillDoneHistory ==
    ASSUME RoundInv, HistoryInv, PrefillDone
    PROVE  HistoryInv'
  <1>1. /\ phase = "prefill" /\ todo = {} /\ phase' = "idle" /\ window' = window
        /\ \A r \in Row : r \notin Admitted(rows, errors) =>
             stream'[r] = stream[r] /\ prev'[r] = prev[r] /\ fresh'[r] = fresh[r]
        /\ \A r \in Row : r \in Admitted(rows, errors) =>
             stream'[r] = stream[r] \o Inputs(r) /\ prev'[r] = 1 /\ ~fresh'[r]
    BY DEF PrefillDone, RoundInv, TypeOK
  <1>2. ASSUME NEW r \in Admitted(rows, errors)
        PROVE  Skip(window[Own(r)], 0) = Recent(stream[r] \o Inputs(r))
    <2>1. r \in Row
      BY AdmittedRows
    <2>2. Inputs(r) \in Seq(Entry) /\ Len(Inputs(r)) > 0
      BY <1>1, <2>1, AtWork, InputsAre DEF RoundInv
    <2>3. window[Own(r)] = Encoded(Recent(stream[r]), Inputs(r))
      BY <1>1, <2>1 DEF HistoryInv, Open
    <2> QED
      BY <1>1, <2>1, <2>2, <2>3, StreamTyped, PrefillHistory DEF RoundInv
  <1>3. \A r \in Row : Ready(r, window[Own(r)])'
    <2>1. ASSUME NEW r \in Admitted(rows, errors), r \in Row PROVE Ready(r, window[Own(r)])'
      <3>1. prev'[r] - 1 = 0
        BY <1>1, <2>1
      <3> QED
        BY <1>1, <1>2, <2>1, <3>1 DEF Ready
    <2>2. ASSUME NEW r \in Row, r \notin Admitted(rows, errors) PROVE Ready(r, window[Own(r)])'
      BY <1>1, <2>2 DEF HistoryInv, Ready
    <2> QED
      BY <2>1, <2>2
  <1>4. \A r \in Row : fresh'[r] => stream'[r] = <<>>
    BY <1>1 DEF HistoryInv, Accepted
  <1> QED
    BY <1>1, <1>3, <1>4 DEF HistoryInv, Accepted

LEMMA RestoreHistory ==
    ASSUME RoundInv, HistoryInv, Restore
    PROVE  HistoryInv'
  <1>1. /\ phase = "verify" /\ todo = {} /\ phase' = "accepted"
        /\ window' = window /\ found' = found /\ prev' = prev /\ fresh' = fresh
    BY DEF Restore
  <1>2. ASSUME NEW r \in Row, count'[r] = 0 PROVE stream'[r] = stream[r]
    <2>1. stream'[r] = stream[r] \o <<>>
      BY <1>2, AcceptedInputs DEF RoundInv
    <2>2. stream[r] \in Seq(Entry)
      BY StreamTyped DEF RoundInv
    <2> QED
      BY <2>1, <2>2
  <1>3. ASSUME NEW r \in Row, count'[r] # 0
        PROVE  Skip(window[Own(r)], count'[r] - 1) = Recent(stream'[r])
    <2>1. /\ r \in Convolved /\ count'[r] \in 1..LengthOf(rows, r)
          /\ stream'[r] = stream[r] \o SubSeq(Inputs(r), 1, count'[r])
      <3>1. count'[r] \in 0..(Drafts + 1)
        BY AcceptedInputs DEF RoundInv
      <3>2. count'[r] > 0
        BY <1>3, <3>1, Sizes
      <3>3. r \in Convolved /\ count'[r] <= LengthOf(rows, r)
        BY <3>2, AcceptedInputs DEF RoundInv
      <3>4. LengthOf(rows, r) \in 1..Tokens
        BY <1>1, <3>3, AtWork DEF RoundInv
      <3> QED
        <4>1. stream'[r] = stream[r] \o SubSeq(Inputs(r), 1, count'[r])
          BY AcceptedInputs DEF RoundInv
        <4>2. count'[r] \in 1..LengthOf(rows, r)
          BY <3>1, <3>2, <3>3, <3>4, Sizes
        <4> QED
          BY <3>3, <4>1, <4>2
    <2>2. /\ Inputs(r) \in Seq(Entry) /\ Len(Inputs(r)) = LengthOf(rows, r)
          /\ LengthOf(rows, r) <= Drafts + 1
      BY <1>1, <2>1, AtWork, InputsAre DEF RoundInv
    <2>3. window[Own(r)] = Encoded(Recent(stream[r]), Inputs(r))
      BY <1>1, <2>1 DEF HistoryInv, Open
    <2>4. stream[r] \in Seq(Entry)
      BY StreamTyped DEF RoundInv
    <2>5. PICK n \in 1..Len(Inputs(r)) : n = count'[r]
      BY <2>1, <2>2
    <2>6. Skip(Encoded(Recent(stream[r]), Inputs(r)), n - 1)
            = Recent(stream[r] \o SubSeq(Inputs(r), 1, n))
      BY <1>1, <2>2, <2>4, VerifyHistory
    <2> QED
      BY <2>1, <2>3, <2>5, <2>6
  <1>4. \A r \in Row : count'[r] = 0 => Ready(r, found[Own(r)])'
    BY <1>1, <1>2 DEF HistoryInv, Ready
  <1>5. \A r \in Row : fresh'[r] /\ count'[r] = 0 => stream'[r] = <<>>
    BY <1>1, <1>2 DEF HistoryInv, Accepted
  <1>6. \A r \in Row : IF count'[r] = 0 THEN Ready(r, found[Own(r)])'
                       ELSE Skip(window'[Own(r)], count'[r] - 1) = Recent(stream'[r])
    BY <1>1, <1>3, <1>4
  <1> QED
    BY <1>1, <1>5, <1>6 DEF HistoryInv, Accepted

LEMMA RestoreZeroHistory ==
    ASSUME RoundInv, HistoryInv, RestoreZero
    PROVE  HistoryInv'
  BY DEF HistoryInv, RestoreZero, Ready, Accepted

LEMMA RestoreRowHistory ==
    ASSUME RoundInv, HistoryInv, NEW r \in Row, RestoreRow(r)
    PROVE  HistoryInv'
  <1>1. r \in Undone /\ Accepted
    BY DEF RoundInv, KernelInv, RestoreRow, Accepted
  <1>2. rows.slots[r] = Own(r) /\ count[r] = 0
    BY <1>1, UndoneRow DEF RoundInv
  <1>3. \A q \in Row : count[q] # 0 => window'[Own(q)] = window[Own(q)]
    BY <1>2, Sizes DEF RestoreRow, RoundInv, TypeOK
  <1> QED
    BY <1>3 DEF HistoryInv, RestoreRow, Ready, Accepted

LEMMA RoundDoneHistory ==
    ASSUME RoundInv, HistoryInv, RoundDone
    PROVE  HistoryInv'
  <1>1. /\ phase = "restore" /\ todo = {} /\ phase' = "idle"
        /\ window' = window /\ stream' = stream
        /\ \A r \in Row : count[r] = 0 => prev'[r] = prev[r] /\ fresh'[r] = fresh[r]
        /\ \A r \in Row : count[r] # 0 => prev'[r] = count[r] /\ ~fresh'[r]
    <2>1. \A r \in Row : count[r] \in Nat
      BY DEF RoundInv, TypeOK
    <2>2. ASSUME NEW r \in Row
          PROVE  /\ prev'[r] = IF count[r] > 0 THEN count[r] ELSE prev[r]
                 /\ fresh'[r] = (fresh[r] /\ count[r] = 0)
      BY DEF RoundDone
    <2>3. \A r \in Row : fresh[r] \in BOOLEAN
      BY DEF RoundInv, TypeOK
    <2>4. ASSUME NEW r \in Row, count[r] = 0 PROVE prev'[r] = prev[r] /\ fresh'[r] = fresh[r]
      BY <2>1, <2>2, <2>3, <2>4
    <2>5. ASSUME NEW r \in Row, count[r] # 0 PROVE prev'[r] = count[r] /\ ~fresh'[r]
      <3>1. count[r] > 0
        BY <2>1, <2>5
      <3>2. prev'[r] = count[r]
        BY <2>2, <3>1
      <3>3. ~fresh'[r]
        BY <2>2, <2>5, Zenon
      <3> QED
        BY <3>2, <3>3
    <2> QED
      BY <2>4, <2>5 DEF RoundDone
  <1>2. ASSUME NEW r \in Row PROVE Ready(r, window[Own(r)])'
    <2>1. CASE count[r] = 0
      <3>1. window[Own(r)] = found[Own(r)]
        BY <1>1, <2>1 DEF RoundInv, FoundInv
      <3>2. Ready(r, found[Own(r)])
        BY <1>1, <2>1 DEF HistoryInv, Accepted
      <3> QED
        BY <1>1, <2>1, <3>1, <3>2 DEF Ready
    <2>2. CASE count[r] # 0
      <3>1. Skip(window[Own(r)], count[r] - 1) = Recent(stream[r])
        BY <1>1, <2>2 DEF HistoryInv, Accepted
      <3> QED
        BY <1>1, <2>2, <3>1 DEF Ready
    <2> QED
      BY <2>1, <2>2
  <1>3. \A r \in Row : fresh'[r] => stream'[r] = <<>>
    BY <1>1 DEF HistoryInv, Accepted
  <1> QED
    BY <1>1, <1>2, <1>3 DEF HistoryInv, Accepted

\* The rows of a failed launch keep the windows, and the histories, they had.
LEMMA LaunchFailsHistory ==
    ASSUME RoundInv, HistoryInv, LaunchFails
    PROVE  HistoryInv'
  <1>1. CASE phase = "restore"
    BY <1>1 DEF LaunchFails, HistoryInv, Ready, Accepted
  <1>2. CASE phase # "restore"
    <2>1. /\ phase \in {"capture", "verify", "prefill"} /\ phase' = "idle"
          /\ todo = IF phase = "capture" THEN Transported(rows, errors) ELSE Admitted(rows, errors)
          /\ UNCHANGED <<window, prev, fresh, stream>>
      BY <1>2 DEF LaunchFails
    <2>2. \A r \in Row : Ready(r, window[Own(r)])
      <3>1. CASE phase = "capture"
        BY <3>1 DEF RoundInv, FoundInv, HistoryInv
      <3>2. CASE phase = "verify"
        <4>1. todo = Convolved
          BY <2>1, <3>2, AtWork DEF RoundInv
        <4> QED
          BY <3>2, <4>1 DEF RoundInv, FoundInv, HistoryInv, Ready
      <3>3. CASE phase = "prefill"
        BY <2>1, <3>3 DEF HistoryInv
      <3> QED
        BY <2>1, <3>1, <3>2, <3>3
    <2>3. \A r \in Row : Ready(r, window[Own(r)])'
      BY <2>1, <2>2 DEF Ready
    <2>4. \A r \in Row : fresh'[r] => stream'[r] = <<>>
      BY <2>1 DEF HistoryInv, Accepted
    <2> QED
      BY <2>1, <2>3, <2>4 DEF HistoryInv, Accepted
  <1> QED
    BY <1>1, <1>2

LEMMA StutterHistory ==
    ASSUME HistoryInv, UNCHANGED vars
    PROVE  HistoryInv'
  <1>1. /\ UNCHANGED <<window, snapshot, stamps, errors, rows, phase, todo, prev, fresh>>
        /\ UNCHANGED <<count, issued, stream, found>>
    BY DEF vars
  <1>2. Convolved' = Convolved
    BY <1>1, SameConvolved
  <1>3. \A q \in Row : Open(q)' = Open(q)
    BY <1>1 DEF Open, Encoded, Inputs, LengthOf, First, End
  <1>4. \A q \in Row : /\ Ready(q, window[Own(q)])' = Ready(q, window[Own(q)])
                       /\ Ready(q, found[Own(q)])' = Ready(q, found[Own(q)])
    BY <1>1 DEF Ready
  <1>5. Convolved \subseteq Row
    BY AdmittedRows DEF Convolved
  <1> QED
    BY <1>1, <1>2, <1>3, <1>4, <1>5 DEF HistoryInv, Accepted

LEMMA HistoryStep ==
    ASSUME ~AnyPrefill, RoundInv, HistoryInv, [Next]_vars
    PROVE  HistoryInv'
  BY AdmitHistory, CaptureHistory, CaptureRowHistory, VerifyHistoryInv, PrefillHistoryInv,
     ConvolveHistory, PrefillDoneHistory, RestoreHistory, RestoreZeroHistory, RestoreRowHistory,
     RoundDoneHistory, LaunchFailsHistory, StutterHistory DEF Next

\* Every convolution loads the last H inputs its request consumed, when a prefill
\* follows a verification of one accepted input or starts a request.
THEOREM HistoriesAreExact ==
    ASSUME ~AnyPrefill
    PROVE  Spec => []HistoryExact
  <1>1. Init => RoundInv /\ HistoryInv
    BY InitRound, InitHistory
  <1>2. (RoundInv /\ HistoryInv) /\ [Next]_vars => (RoundInv /\ HistoryInv)'
    BY RoundStep, HistoryStep
  <1>3. RoundInv /\ HistoryInv => HistoryExact
    BY LoadsRecent DEF HistoryExact
  <1> QED
    BY <1>1, <1>2, <1>3, PTL DEF Spec
=============================================================================
