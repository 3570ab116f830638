--------------------------- MODULE FramingProofs ---------------------------
(***************************************************************************)
(* Theorems of Framing, for lines, chunks and buffers of every size: the    *)
(* buffers hold, only a line no program of the repository writes overflows  *)
(* one, and the lines that are popped are those that were sent.            *)
(*                                                                         *)
(* The text of all lines sent so far is one row of bytes, each line ended   *)
(* by its newline; ends[k] bytes of it belong to the first k lines.  What   *)
(* has not been popped, in whichever of the buffers it is, is the part of   *)
(* that row from a line's beginning on.                                    *)
(***************************************************************************)
EXTENDS Framing, SequenceTheorems, TLAPS

(* NL is one of them, but an escaped string means nothing to the provers. *)
Byte == STRING \cup {NL}

(* The types of the state. *)
FramesOK ==
    /\ sender \in {"server", "client", "stranger"}
    /\ connection \in {"open", "hung up", "dropped", "overflowed"}
    /\ outbuf \in Seq(Byte) /\ wire \in Seq(Byte) /\ inbuf \in Seq(Byte)
    /\ sent \in Seq(Lines) /\ popped \in Seq(Seq(Byte))
    /\ sender # "server" => outbuf = <<>>

(* Everything that is on its way, in the order in which it will arrive. *)
Coming == inbuf \o (wire \o outbuf)

(* ends[k] is where line k of the lines ss ends. *)
Ends(ss, ends) ==
    /\ ends \in [0 .. Len(ss) -> Nat]
    /\ ends[0] = 0
    /\ \A k \in 1 .. Len(ss) : ends[k] = ends[k - 1] + Len(ss[k]) + 1
    /\ \A j, k \in 0 .. Len(ss) : j <= k => ends[j] <= ends[k]

(* The bytes of q are those of the lines ss after the first m, from the
   beginning of line m + 1 on. *)
Follows(ss, ends, m, q) ==
    /\ m <= Len(ss)
    /\ Len(q) <= ends[Len(ss)] - ends[m]
    /\ \A k \in m + 1 .. Len(ss) : \A b \in 1 .. Len(ss[k]) + 1 :
          LET at == ends[k - 1] - ends[m] + b
          IN  at <= Len(q) => q[at] = Ended(ss[k])[b]

Live == connection \in {"open", "hung up"}

(* While the receiver reads, what is coming follows on what it has popped, and
   nothing is missing before the sender hangs up. *)
StreamHeld ==
    Live => \E ends :
        /\ Ends(sent, ends)
        /\ Follows(sent, ends, Len(popped), Coming)
        /\ connection = "open" => Len(Coming) = ends[Len(sent)] - ends[Len(popped)]

(* The programs of the repository write short lines. *)
ShortLines == sender # "stranger" => \A k \in 1 .. Len(sent) : LineFits(sent[k])

StreamInv == FramesOK /\ StreamHeld /\ ShortLines /\ BuffersHold /\ OnlyLongLinesOverflow

-----------------------------------------------------------------------------
(* Sequences. *)

LEMMA LinesAreBytes == \A l \in Lines : l \in Seq(Byte) /\ \A k \in 1 .. Len(l) : l[k] # NL
  <1>1. \A l \in Lines : l \in Seq(STRING)
    BY FramingAssumption
  <1> QED BY <1>1, FramingAssumption, SeqMonotonic DEF Byte

LEMMA Sizes ==
  /\ MaxLine \in Nat /\ Chunk \in Nat /\ Chunk > 0 /\ InSize \in Nat /\ OutSize \in Nat
  /\ MaxLine > 3 /\ MaxLine + Chunk <= InSize + 2
  BY FramingAssumption

LEMMA EndedLine ==
  ASSUME NEW l \in Seq(Byte)
  PROVE  /\ Ended(l) \in Seq(Byte) /\ Len(Ended(l)) = Len(l) + 1
         /\ \A b \in 1 .. Len(l) : Ended(l)[b] = l[b]
         /\ Ended(l)[Len(l) + 1] = NL
  <1>1. NL \in Byte
    BY DEF Byte
  <1> QED BY <1>1, AppendProperties DEF Ended

(* Two sequences put together. *)
LEMMA Joined ==
  ASSUME NEW p \in Seq(Byte), NEW q \in Seq(Byte)
  PROVE  /\ p \o q \in Seq(Byte) /\ Len(p \o q) = Len(p) + Len(q)
         /\ Len(p) \in Nat /\ Len(q) \in Nat
         /\ \A i \in 1 .. Len(p) : (p \o q)[i] = p[i]
         /\ \A i \in 1 .. Len(q) : (p \o q)[Len(p) + i] = q[i]
  <1>1. /\ p \o q \in Seq(Byte) /\ Len(p \o q) = Len(p) + Len(q)
        /\ \A i \in 1 .. Len(p) + Len(q) :
              (p \o q)[i] = IF i <= Len(p) THEN p[i] ELSE q[i - Len(p)]
    BY ConcatProperties
  <1>2. Len(p) \in Nat /\ Len(q) \in Nat
    OBVIOUS
  <1>3. ASSUME NEW i \in 1 .. Len(p) PROVE (p \o q)[i] = p[i]
    <2>1. i \in 1 .. Len(p) + Len(q) /\ i <= Len(p)
      BY <1>2
    <2> QED BY <1>1, <2>1
  <1>4. ASSUME NEW i \in 1 .. Len(q) PROVE (p \o q)[Len(p) + i] = q[i]
    <2>1. Len(p) + i \in 1 .. Len(p) + Len(q) /\ ~(Len(p) + i <= Len(p))
          /\ Len(p) + i - Len(p) = i
      BY <1>2
    <2> QED BY <1>1, <2>1
  <1> QED BY <1>1, <1>2, <1>3, <1>4

LEMMA Regrouped ==
  ASSUME NEW p \in Seq(Byte), NEW q \in Seq(Byte), NEW r \in Seq(Byte)
  PROVE  (p \o q) \o r = p \o (q \o r)
  BY ConcatAssociative

(* A sequence cut into two. *)
LEMMA Halves ==
  ASSUME NEW q \in Seq(Byte), NEW n \in 0 .. Len(q)
  PROVE  /\ SubSeq(q, 1, n) \in Seq(Byte) /\ Len(SubSeq(q, 1, n)) = n
         /\ \A k \in 1 .. n : SubSeq(q, 1, n)[k] = q[k]
         /\ SubSeq(q, n + 1, Len(q)) \in Seq(Byte)
         /\ Len(SubSeq(q, n + 1, Len(q))) = Len(q) - n
         /\ \A k \in 1 .. Len(q) - n : SubSeq(q, n + 1, Len(q))[k] = q[n + k]
         /\ SubSeq(q, 1, n) \o SubSeq(q, n + 1, Len(q)) = q
  <1>1. /\ SubSeq(q, 1, n) \in Seq(Byte) /\ Len(SubSeq(q, 1, n)) = n
        /\ \A k \in 1 .. n : SubSeq(q, 1, n)[k] = q[k]
    BY SubSeqProperties, ElementOfSeq
  <1>2. /\ SubSeq(q, n + 1, Len(q)) \in Seq(Byte)
        /\ Len(SubSeq(q, n + 1, Len(q))) = Len(q) - n
        /\ \A k \in 1 .. Len(q) - n : SubSeq(q, n + 1, Len(q))[k] = q[n + k]
    BY SubSeqProperties, ElementOfSeq
  <1>3. SubSeq(q, 1, n) \o SubSeq(q, n + 1, Len(q)) = SubSeq(q, 1, Len(q))
    <2>1. Len(q) \in Nat
      OBVIOUS
    <2>2. 1 \in 1 .. Len(q) + 1 /\ n \in 1 - 1 .. Len(q) /\ Len(q) \in n .. Len(q)
      BY <2>1
    <2> QED BY <2>2, ConcatAdjacentSubSeq
  <1>4. SubSeq(q, 1, Len(q)) = q
    BY SubSeqFull
  <1> QED BY <1>1, <1>2, <1>3, <1>4

-----------------------------------------------------------------------------
(* The row of bytes. *)

(* Byte b of a line of w bytes that begins after y, in a row that begins after x
   and ends at e. *)
LEMMA Place ==
  ASSUME NEW x \in Nat, NEW y \in Nat, NEW w \in Nat, NEW e \in Nat, NEW b \in 1 .. w,
         x <= y, y + w <= e
  PROVE  y - x + b \in 1 .. e - x
  OBVIOUS

(* The same byte, counted from a line of v bytes before it. *)
LEMMA PlaceBefore ==
  ASSUME NEW x \in Nat, NEW y \in Nat, NEW v \in Nat, NEW b \in Int, NEW z, z = x + v
  PROVE  y - x + b = v + (y - z + b)
  OBVIOUS

(* The ends of the lines after one more. *)
WithEnd(ss, ends, l) ==
    [k \in 0 .. Len(ss) + 1 |-> IF k <= Len(ss) THEN ends[k] ELSE ends[Len(ss)] + Len(l) + 1]

LEMMA LineLengths ==
  ASSUME NEW ss \in Seq(Lines)
  PROVE  /\ Len(ss) \in Nat
         /\ \A k \in 1 .. Len(ss) : /\ ss[k] \in Lines /\ ss[k] \in Seq(Byte)
                                    /\ Len(ss[k]) \in Nat
  <1>1. \A k \in 1 .. Len(ss) : ss[k] \in Lines
    BY ElementOfSeq
  <1> QED BY <1>1, LinesAreBytes

LEMMA OneMoreLine ==
  ASSUME NEW ss \in Seq(Lines), NEW l \in Lines
  PROVE  /\ Append(ss, l) \in Seq(Lines) /\ Len(Append(ss, l)) = Len(ss) + 1
         /\ \A k \in 1 .. Len(ss) : Append(ss, l)[k] = ss[k]
         /\ Append(ss, l)[Len(ss) + 1] = l
  BY AppendProperties

LEMMA EndsAppend ==
  ASSUME NEW ss \in Seq(Lines), NEW l \in Lines, NEW ends, Ends(ss, ends)
  PROVE  Ends(Append(ss, l), WithEnd(ss, ends, l))
  <1> DEFINE n == Len(ss)
             more == WithEnd(ss, ends, l)
             tt == Append(ss, l)
  <1>1. n \in Nat /\ Len(l) \in Nat /\ ends \in [0 .. n -> Nat]
    BY LinesAreBytes DEF Ends
  <1>2. Len(tt) = n + 1 /\ tt[n + 1] = l /\ \A k \in 1 .. n : tt[k] = ss[k]
    BY OneMoreLine
  <1>3. /\ more \in [0 .. n + 1 -> Nat]
        /\ more[n + 1] = ends[n] + Len(l) + 1
        /\ \A k \in 0 .. n : more[k] = ends[k]
    BY <1>1 DEF WithEnd
  <1> HIDE DEF n, more, tt
  <1>4. more[0] = 0
    BY <1>1, <1>3 DEF Ends
  <1>5. \A k \in 1 .. n + 1 : more[k] = more[k - 1] + Len(tt[k]) + 1
    <2> SUFFICES ASSUME NEW k \in 1 .. n + 1 PROVE more[k] = more[k - 1] + Len(tt[k]) + 1
      OBVIOUS
    <2>1. CASE k = n + 1
      BY <1>1, <1>2, <1>3, <2>1
    <2>2. CASE k # n + 1
      <3>1. k \in 1 .. n /\ k - 1 \in 0 .. n /\ k \in 0 .. n
        BY <1>1, <2>2
      <3>2. ends[k] = ends[k - 1] + Len(ss[k]) + 1
        BY <3>1 DEF Ends, n
      <3> QED BY <1>2, <1>3, <3>1, <3>2
    <2> QED BY <2>1, <2>2
  <1>6. \A j, k \in 0 .. n + 1 : j <= k => more[j] <= more[k]
    <2> SUFFICES ASSUME NEW j \in 0 .. n + 1, NEW k \in 0 .. n + 1, j <= k
                 PROVE  more[j] <= more[k]
      OBVIOUS
    <2>1. \A i \in 0 .. n : ends[i] <= ends[n] /\ ends[i] \in Nat
      BY <1>1 DEF Ends, n
    <2>2. CASE k = n + 1 /\ j = n + 1
      BY <1>3, <2>2
    <2>3. CASE k = n + 1 /\ j # n + 1
      <3>1. j \in 0 .. n /\ n \in 0 .. n
        BY <1>1, <2>3
      <3> QED BY <1>1, <1>3, <2>1, <2>3, <3>1
    <2>4. CASE k # n + 1
      <3>1. j \in 0 .. n /\ k \in 0 .. n
        BY <1>1, <2>4
      <3>2. ends[j] <= ends[k]
        BY <3>1 DEF Ends, n
      <3> QED BY <1>3, <3>1, <3>2
    <2> QED BY <2>2, <2>3, <2>4
  <1> QED BY <1>2, <1>3, <1>4, <1>5, <1>6 DEF Ends, n, more, tt

(* A line more, at the end of everything, when nothing is missing. *)
LEMMA FollowsAppend ==
  ASSUME NEW ss \in Seq(Lines), NEW l \in Lines, NEW ends, Ends(ss, ends),
         NEW m \in Nat, NEW q \in Seq(Byte), Follows(ss, ends, m, q),
         Len(q) = ends[Len(ss)] - ends[m]
  PROVE  LET more == WithEnd(ss, ends, l)
         IN  /\ Follows(Append(ss, l), more, m, q \o Ended(l))
             /\ Len(q \o Ended(l)) = more[Len(Append(ss, l))] - more[m]
  <1> DEFINE n == Len(ss)
             more == WithEnd(ss, ends, l)
             tt == Append(ss, l)
             r == q \o Ended(l)
  <1>1. n \in Nat /\ l \in Seq(Byte) /\ Len(l) \in Nat /\ ends \in [0 .. n -> Nat]
    BY LinesAreBytes DEF Ends
  <1>2. Len(tt) = n + 1 /\ tt[n + 1] = l /\ \A k \in 1 .. n : tt[k] = ss[k]
    BY OneMoreLine
  <1>3. /\ more[n + 1] = ends[n] + Len(l) + 1
        /\ \A k \in 0 .. n : more[k] = ends[k]
    BY <1>1 DEF WithEnd
  <1>4. Ended(l) \in Seq(Byte) /\ Len(Ended(l)) = Len(l) + 1
    BY <1>1, EndedLine
  <1>5. /\ Len(r) = Len(q) + Len(l) + 1 /\ Len(q) \in Nat
        /\ \A i \in 1 .. Len(q) : r[i] = q[i]
        /\ \A b \in 1 .. Len(l) + 1 : r[Len(q) + b] = Ended(l)[b]
    <2>1. PICK e \in Seq(Byte) : e = Ended(l)
      BY <1>4
    <2>2. Len(e) = Len(l) + 1 /\ r = q \o e
      BY <1>4, <2>1
    <2>3. /\ Len(r) = Len(q) + Len(e) /\ Len(q) \in Nat
          /\ \A i \in 1 .. Len(q) : r[i] = q[i]
          /\ \A b \in 1 .. Len(e) : r[Len(q) + b] = e[b]
      <3> HIDE DEF r
      <3> QED BY <2>2, Joined
    <2> HIDE DEF r, n, more, tt
    <2>4. Len(r) = Len(q) + Len(l) + 1 /\ Len(q) \in Nat
      <3>1. Len(q) + (Len(l) + 1) = Len(q) + Len(l) + 1
        BY <1>1, <2>3
      <3> QED BY <2>2, <2>3, <3>1
    <2>5. \A b \in 1 .. Len(l) + 1 : r[Len(q) + b] = Ended(l)[b]
      BY <2>1, <2>2, <2>3
    <2> QED BY <2>3, <2>4, <2>5
  <1>6. m \in 0 .. n /\ n \in 0 .. n
    BY <1>1 DEF Follows
  <1>7. Len(r) = more[n + 1] - more[m]
    <2>1. ends[n] \in Nat /\ ends[m] \in Nat /\ Len(q) = ends[n] - ends[m]
      BY <1>1, <1>6
    <2>2. more[n + 1] = ends[n] + Len(l) + 1 /\ more[m] = ends[m]
      BY <1>3, <1>6
    <2>3. Len(r) = Len(q) + Len(l) + 1
      BY <1>5
    <2>4. Len(l) \in Nat
      BY <1>1
    <2> HIDE DEF n, more, r
    <2> QED BY ONLY <2>1, <2>2, <2>3, <2>4
  <1>8. ASSUME NEW k \in m + 1 .. n + 1, NEW b \in 1 .. Len(tt[k]) + 1,
               more[k - 1] - more[m] + b <= Len(r)
        PROVE  r[more[k - 1] - more[m] + b] = Ended(tt[k])[b]
    <2>1. CASE k = n + 1
      <3>1. more[k - 1] - more[m] = Len(q)
        <4>1. k - 1 = n
          BY <1>1, <2>1
        <4>2. more[n] = ends[n] /\ more[m] = ends[m]
          <5> HIDE DEF more, n
          <5> QED BY ONLY <1>3, <1>6
        <4>3. Len(q) = ends[n] - ends[m]
          OBVIOUS
        <4> HIDE DEF more, n
        <4> QED BY ONLY <4>1, <4>2, <4>3
      <3> QED BY <1>2, <1>5, <2>1, <3>1
    <2>2. CASE k # n + 1
      <3>1. k \in m + 1 .. n /\ k \in 1 .. n /\ k - 1 \in 0 .. n /\ k \in 0 .. n
        BY <1>1, <2>2
      <3>2. tt[k] = ss[k] /\ more[k - 1] = ends[k - 1] /\ more[m] = ends[m]
        BY <1>2, <1>3, <1>6, <3>1
      <3> DEFINE at == ends[k - 1] - ends[m] + b
      <3>3. ends[k - 1] \in Nat /\ ends[m] \in Nat /\ ends[n] \in Nat /\ ends[k] \in Nat
        BY <1>1, <1>6, <3>1
      <3>4. Len(ss[k]) \in Nat /\ ends[k] = ends[k - 1] + Len(ss[k]) + 1
        BY <3>1, LineLengths DEF Ends
      <3>5. m <= k - 1 /\ k <= n
        BY <1>1, <1>6, <3>1
      <3>6. ends[m] <= ends[k - 1] /\ ends[k] <= ends[n]
        BY <1>6, <3>1, <3>5 DEF Ends
      <3>7. at \in 1 .. Len(q)
        <4>1. Len(q) = ends[n] - ends[m] /\ b \in 1 .. Len(ss[k]) + 1 /\ Len(ss[k]) + 1 \in Nat
          BY <3>2, <3>4
        <4>2. ends[k - 1] + (Len(ss[k]) + 1) = ends[k]
          <5> HIDE DEF n, at, r, tt, more
          <5> QED BY ONLY <3>3, <3>4
        <4>3. ends[k - 1] - ends[m] + b \in 1 .. ends[n] - ends[m]
          <5> HIDE DEF n, at, r, tt, more
          <5> QED BY ONLY <3>3, <3>6, <4>1, <4>2, Place
        <4> QED BY <4>1, <4>3
      <3>8. q[at] = Ended(ss[k])[b]
        BY <3>1, <3>2, <3>7 DEF Follows
      <3> QED BY <1>5, <3>2, <3>7, <3>8
    <2> QED BY <2>1, <2>2
  <1> HIDE DEF r, more, tt, n
  <1>9. m <= n + 1 /\ Len(r) <= more[n + 1] - more[m]
    BY <1>1, <1>3, <1>5, <1>6, <1>7
  <1>10. Follows(tt, more, m, r)
    BY <1>2, <1>8, <1>9 DEF Follows
  <1> QED BY <1>2, <1>7, <1>10 DEF r, more, tt, n

(* An end of what is coming is lost. *)
LEMMA FollowsPrefix ==
  ASSUME NEW ss \in Seq(Lines), NEW ends, Ends(ss, ends), NEW m \in Nat,
         NEW q \in Seq(Byte), Follows(ss, ends, m, q),
         NEW r \in Seq(Byte), Len(r) <= Len(q), \A i \in 1 .. Len(r) : r[i] = q[i]
  PROVE  Follows(ss, ends, m, r)
  <1>1. Len(r) \in Nat /\ Len(q) \in Nat /\ Len(ss) \in Nat /\ m \in 0 .. Len(ss)
        /\ ends[Len(ss)] \in Nat /\ ends[m] \in Nat
    BY DEF Follows, Ends
  <1>2. Len(r) <= ends[Len(ss)] - ends[m]
    BY <1>1 DEF Follows
  <1>3. ASSUME NEW k \in m + 1 .. Len(ss), NEW b \in 1 .. Len(ss[k]) + 1,
               ends[k - 1] - ends[m] + b <= Len(r)
        PROVE  r[ends[k - 1] - ends[m] + b] = Ended(ss[k])[b]
    <2>1. k - 1 \in 0 .. Len(ss) /\ m <= k - 1
      BY <1>1
    <2>2. ends[k - 1] \in Nat /\ ends[m] <= ends[k - 1]
      BY <1>1, <2>1 DEF Ends
    <2> DEFINE at == ends[k - 1] - ends[m] + b
    <2>3. at \in Nat /\ 1 <= at
      <3>1. Len(ss[k]) + 1 \in Nat /\ b \in Nat /\ 1 <= b
        <4>1. k \in 1 .. Len(ss)
          BY <1>1
        <4> QED BY <4>1, LineLengths
      <3> QED BY ONLY <1>1, <2>2, <3>1
    <2>4. at \in 1 .. Len(r) /\ at <= Len(q)
      <3>1. at <= Len(r) /\ Len(r) <= Len(q)
        BY <1>3
      <3> HIDE DEF at
      <3> QED BY ONLY <1>1, <2>3, <3>1
    <2> QED BY <2>3, <2>4 DEF Follows
  <1> QED BY <1>1, <1>2, <1>3 DEF Follows

(* What is coming begins with the line after those popped. *)
LEMMA FirstComing ==
  ASSUME NEW ss \in Seq(Lines), NEW ends, Ends(ss, ends), NEW m \in Nat,
         NEW q \in Seq(Byte), Follows(ss, ends, m, q), q # <<>>
  PROVE  /\ m + 1 \in 1 .. Len(ss)
         /\ \A b \in 1 .. Len(ss[m + 1]) + 1 : b <= Len(q) => q[b] = Ended(ss[m + 1])[b]
  <1>1. Len(ss) \in Nat /\ m \in 0 .. Len(ss) /\ Len(q) \in Nat /\ Len(q) > 0
    BY EmptySeq DEF Follows
  <1>2. m # Len(ss)
    BY <1>1 DEF Follows, Ends
  <1>3. m + 1 \in m + 1 .. Len(ss) /\ ends[m + 1 - 1] - ends[m] = 0
    BY <1>1, <1>2 DEF Ends
  <1>4. Len(ss[m + 1]) \in Nat
    BY <1>1, <1>2, LineLengths
  <1>5. \A b \in 1 .. Len(ss[m + 1]) + 1 : ends[m + 1 - 1] - ends[m] + b = b
    BY <1>3, <1>4
  <1> QED BY <1>1, <1>2, <1>3, <1>5 DEF Follows

(* That line is popped. *)
LEMMA FollowsPop ==
  ASSUME NEW ss \in Seq(Lines), NEW ends, Ends(ss, ends), NEW m \in Nat,
         NEW q \in Seq(Byte), Follows(ss, ends, m, q), m + 1 \in 1 .. Len(ss),
         NEW r \in Seq(Byte), Len(q) = Len(ss[m + 1]) + 1 + Len(r),
         \A i \in 1 .. Len(r) : r[i] = q[Len(ss[m + 1]) + 1 + i]
  PROVE  /\ Follows(ss, ends, m + 1, r)
         /\ ends[Len(ss)] - ends[m + 1] = ends[Len(ss)] - ends[m] - (Len(ss[m + 1]) + 1)
  <1> DEFINE w == Len(ss[m + 1]) + 1
  <1>1. Len(ss) \in Nat /\ Len(q) \in Nat /\ Len(r) \in Nat /\ w \in Nat /\ w > 0
    BY LineLengths
  <1>2. m \in 0 .. Len(ss) /\ m + 1 \in 0 .. Len(ss) /\ Len(ss) \in 0 .. Len(ss)
    BY <1>1
  <1>3. ends[m] \in Nat /\ ends[m + 1] \in Nat /\ ends[Len(ss)] \in Nat
    BY <1>2 DEF Ends
  <1>4. ends[m + 1] = ends[m] + w
    <2>1. ends[m + 1] = ends[m + 1 - 1] + Len(ss[m + 1]) + 1
      BY DEF Ends
    <2>2. m + 1 - 1 = m /\ Len(ss[m + 1]) \in Nat
      BY LineLengths
    <2> QED BY <1>3, <2>1, <2>2
  <1>5. Len(r) <= ends[Len(ss)] - ends[m + 1]
    BY <1>1, <1>3, <1>4 DEF Follows
  <1>6. ASSUME NEW k \in m + 1 + 1 .. Len(ss), NEW b \in 1 .. Len(ss[k]) + 1,
               ends[k - 1] - ends[m + 1] + b <= Len(r)
        PROVE  r[ends[k - 1] - ends[m + 1] + b] = Ended(ss[k])[b]
    <2>1. k \in m + 1 .. Len(ss) /\ k - 1 \in 0 .. Len(ss) /\ m + 1 <= k - 1 /\ k \in 1 .. Len(ss)
      BY <1>1, <1>2
    <2>2. ends[k - 1] \in Nat /\ ends[m + 1] <= ends[k - 1] /\ Len(ss[k]) \in Nat
      BY <1>2, <2>1, LineLengths DEF Ends
    <2> DEFINE at == ends[k - 1] - ends[m + 1] + b
    <2>3. at \in 1 .. Len(r)
      <3>1. Len(ss[k]) + 1 \in Nat /\ b \in Nat /\ 1 <= b
        BY <2>2
      <3>2. at \in Nat /\ 1 <= at
        <4>1. PICK g \in Nat : ends[k - 1] = ends[m + 1] + g
          <5>1. \A i, j \in Nat : i <= j => \E g \in Nat : j = i + g
            <6> SUFFICES ASSUME NEW i \in Nat, NEW j \in Nat, i <= j PROVE \E g \in Nat : j = i + g
              OBVIOUS
            <6>1. j - i \in Nat /\ j = i + (j - i)
              OBVIOUS
            <6> QED BY <6>1
          <5> QED BY ONLY <1>3, <2>2, <5>1
        <4>2. ends[m + 1] \in Nat
          BY <1>3
        <4>3. at = g + b
          BY ONLY <3>1, <4>1, <4>2
        <4> HIDE DEF at
        <4> QED BY ONLY <3>1, <4>1, <4>3
      <3>3. at <= Len(r)
        BY <1>6
      <3> HIDE DEF at
      <3> QED BY <1>1, <3>2, <3>3
    <2>4. ends[k - 1] - ends[m] + b = w + at /\ w + at <= Len(q)
      <3>1. b \in Int /\ Len(q) = w + Len(r)
        BY <1>1
      <3>2. ends[k - 1] - ends[m] + b = w + at
        <4>1. ends[k - 1] \in Nat /\ ends[m] \in Nat /\ w \in Nat /\ ends[m + 1] = ends[m] + w
          BY <1>1, <1>3, <1>4, <2>2
        <4> HIDE DEF w
        <4> QED BY ONLY <3>1, <4>1, PlaceBefore
      <3>3. at \in Nat /\ at <= Len(r)
        BY <1>1, <2>3
      <3> HIDE DEF w, at
      <3>4. w + at <= Len(q)
        BY <1>1, <3>1, <3>3
      <3> QED BY <3>2, <3>4
    <2>5. q[w + at] = Ended(ss[k])[b]
      BY <2>1, <2>4 DEF Follows
    <2> QED BY <2>3, <2>5
  <1> QED BY <1>1, <1>2, <1>3, <1>4, <1>5, <1>6 DEF Follows

-----------------------------------------------------------------------------
(* The state. *)

(* The three buffers in a row. *)
LEMMA ComingBytes ==
  ASSUME FramesOK
  PROVE  /\ Coming \in Seq(Byte) /\ Len(Coming) \in Nat
         /\ Len(inbuf) \in Nat /\ Len(inbuf) <= Len(Coming)
         /\ Len(Coming) = Len(inbuf) + Len(wire \o outbuf) /\ Len(wire \o outbuf) \in Nat
         /\ \A i \in 1 .. Len(inbuf) : Coming[i] = inbuf[i]
         /\ \A i \in 1 .. Len(wire \o outbuf) : Coming[Len(inbuf) + i] = (wire \o outbuf)[i]
  <1>1. inbuf \in Seq(Byte) /\ wire \in Seq(Byte) /\ outbuf \in Seq(Byte)
    BY DEF FramesOK
  <1>2. wire \o outbuf \in Seq(Byte)
    BY <1>1, Joined
  <1> QED BY <1>1, <1>2, Joined DEF Coming

(* What is in the receiver's buffer is the next line's beginning. *)
LEMMA NextLine ==
  ASSUME FramesOK, StreamHeld, Live, inbuf # <<>>
  PROVE  LET line == sent[Len(popped) + 1]
         IN  /\ Len(popped) + 1 \in 1 .. Len(sent)
             /\ line \in Lines /\ line \in Seq(Byte) /\ Len(line) \in Nat
             /\ \A b \in 1 .. Len(inbuf) : b <= Len(line) => inbuf[b] = line[b] /\ inbuf[b] # NL
             /\ Len(line) + 1 <= Len(inbuf) => inbuf[Len(line) + 1] = NL
  <1>1. PICK ends : Ends(sent, ends) /\ Follows(sent, ends, Len(popped), Coming)
    BY DEF StreamHeld
  <1>2. sent \in Seq(Lines) /\ Len(popped) \in Nat /\ inbuf \in Seq(Byte)
    <2>1. sent \in Seq(Lines) /\ popped \in Seq(Seq(Byte)) /\ inbuf \in Seq(Byte)
      BY DEF FramesOK
    <2> QED BY <2>1, LenProperties
  <1>3. Coming \in Seq(Byte) /\ Coming # <<>>
    <2>1. Len(inbuf) # 0
      BY <1>2, EmptySeq
    <2>2. Len(Coming) # 0
      BY <2>1, ComingBytes
    <2> QED BY <2>2, ComingBytes, EmptySeq
  <1> DEFINE line == sent[Len(popped) + 1]
  <1>4. /\ Len(popped) + 1 \in 1 .. Len(sent)
        /\ \A b \in 1 .. Len(line) + 1 : b <= Len(Coming) => Coming[b] = Ended(line)[b]
    BY <1>1, <1>2, <1>3, FirstComing
  <1>5. line \in Lines /\ line \in Seq(Byte) /\ Len(line) \in Nat /\ \A k \in 1 .. Len(line) : line[k] # NL
    BY <1>2, <1>4, LineLengths, LinesAreBytes
  <1>6. (\A b \in 1 .. Len(line) : Ended(line)[b] = line[b]) /\ Ended(line)[Len(line) + 1] = NL
    BY <1>5, EndedLine
  <1> HIDE DEF line
  <1>7. ASSUME NEW b \in 1 .. Len(inbuf), b <= Len(line) PROVE inbuf[b] = line[b] /\ inbuf[b] # NL
    <2>1. b \in 1 .. Len(line) /\ b \in 1 .. Len(line) + 1 /\ b <= Len(Coming)
      BY <1>5, <1>7, ComingBytes
    <2>2. Coming[b] = inbuf[b]
      BY ComingBytes
    <2> QED BY <1>4, <1>5, <1>6, <2>1, <2>2
  <1>8. ASSUME Len(line) + 1 <= Len(inbuf) PROVE inbuf[Len(line) + 1] = NL
    <2>1. Len(line) + 1 \in 1 .. Len(inbuf) /\ Len(line) + 1 \in 1 .. Len(line) + 1
          /\ Len(line) + 1 <= Len(Coming)
      BY <1>5, <1>8, ComingBytes
    <2>2. Coming[Len(line) + 1] = inbuf[Len(line) + 1]
      BY <2>1, ComingBytes
    <2> QED BY <1>4, <1>6, <2>1, <2>2
  <1> QED BY <1>4, <1>5, <1>7, <1>8 DEF line

(* A buffer without a newline is no longer than that line. *)
LEMMA NoLineYet ==
  ASSUME FramesOK, StreamHeld, Live, ~HasLine, inbuf # <<>>
  PROVE  Len(popped) + 1 \in 1 .. Len(sent) /\ Len(inbuf) <= Len(sent[Len(popped) + 1])
  <1> DEFINE w == Len(sent[Len(popped) + 1])
  <1>1. /\ Len(popped) + 1 \in 1 .. Len(sent) /\ w \in Nat
        /\ w + 1 <= Len(inbuf) => inbuf[w + 1] = NL
    BY NextLine
  <1>2. Len(inbuf) \in Nat
    BY ComingBytes
  <1> HIDE DEF w
  <1>3. ~(w + 1 <= Len(inbuf))
    BY <1>1, <1>2 DEF HasLine, Contains
  <1>4. Len(inbuf) <= w
    BY <1>1, <1>2, <1>3
  <1> QED BY <1>1, <1>4 DEF w

(* The text before the first newline is that line. *)
LEMMA LinePopped ==
  ASSUME FramesOK, StreamHeld, Live, HasLine
  PROVE  LET line == sent[Len(popped) + 1]
         IN  /\ Len(popped) + 1 \in 1 .. Len(sent)
             /\ line \in Lines /\ line \in Seq(Byte) /\ Len(line) \in Nat
             /\ FirstNewline = Len(line) + 1 /\ FirstNewline \in 1 .. Len(inbuf)
             /\ SubSeq(inbuf, 1, FirstNewline - 1) = line
  <1> DEFINE line == sent[Len(popped) + 1]
             w == Len(line)
  <1>1. inbuf \in Seq(Byte) /\ Len(inbuf) \in Nat /\ DOMAIN inbuf = 1 .. Len(inbuf)
    <2>1. inbuf \in Seq(Byte)
      BY DEF FramesOK
    <2> QED BY <2>1, LenProperties
  <1>2. PICK i \in 1 .. Len(inbuf) : inbuf[i] = NL
    BY DEF HasLine, Contains
  <1>3. inbuf # <<>>
    BY <1>1, <1>2, EmptySeq
  <1>4. /\ Len(popped) + 1 \in 1 .. Len(sent)
        /\ line \in Lines /\ line \in Seq(Byte) /\ w \in Nat
        /\ \A b \in 1 .. Len(inbuf) : b <= w => inbuf[b] = line[b] /\ inbuf[b] # NL
        /\ w + 1 <= Len(inbuf) => inbuf[w + 1] = NL
    BY <1>3, NextLine
  <1> HIDE DEF line
  <1>w. w = Len(line)
    OBVIOUS
  <1> HIDE DEF w
  <1>5. w + 1 \in 1 .. Len(inbuf) /\ inbuf[w + 1] = NL
    <2>1. ~(i <= w)
      BY <1>2, <1>4
    <2>2. w + 1 <= Len(inbuf)
      BY <1>1, <1>4, <2>1
    <2> QED BY <1>1, <1>4, <2>2
  <1>6. \A k \in 1 .. w : inbuf[k] # NL
    BY <1>1, <1>4, <1>5
  <1>7. FirstNewline = w + 1
    <2>1. w + 1 \in DOMAIN inbuf /\ inbuf[w + 1] = NL
      BY <1>1, <1>5
    <2>2. \A k \in 1 .. (w + 1) - 1 : inbuf[k] # NL
      BY <1>4, <1>6
    <2>3. ASSUME NEW j \in DOMAIN inbuf, inbuf[j] = NL, \A k \in 1 .. j - 1 : inbuf[k] # NL
          PROVE  j = w + 1
      <3>1. ~(j \in 1 .. w)
        BY <1>6, <2>3
      <3>2. ~(w + 1 \in 1 .. j - 1)
        BY <1>5, <2>3
      <3>3. j \in 1 .. Len(inbuf)
        BY <1>1
      <3> QED BY <1>1, <1>4, <3>1, <3>2, <3>3
    <2> QED BY <2>1, <2>2, <2>3 DEF FirstNewline
  <1>8. SubSeq(inbuf, 1, w) = line
    <2>1. w \in 0 .. Len(inbuf)
      BY <1>1, <1>4, <1>5
    <2>2. SubSeq(inbuf, 1, w) \in Seq(Byte) /\ Len(SubSeq(inbuf, 1, w)) = w
          /\ \A k \in 1 .. w : SubSeq(inbuf, 1, w)[k] = inbuf[k]
      BY <1>1, <2>1, Halves
    <2>3. \A k \in 1 .. w : SubSeq(inbuf, 1, w)[k] = line[k]
      BY <1>1, <1>4, <1>5, <2>2
    <2> QED BY <1>4, <1>w, <2>2, <2>3, SeqEqual
  <1>9. FirstNewline - 1 = w
    BY <1>4, <1>7
  <1> QED BY <1>4, <1>5, <1>7, <1>8, <1>9, <1>w DEF line

(* What pop_line makes of a text fits its caller's buffer. *)
LEMMA FitFits ==
  ASSUME NEW l \in Seq(Byte)
  PROVE  Fit(l) \in Seq(Byte) /\ Len(Fit(l)) < MaxLine
  <1>1. Stripped(l) \in Seq(Byte)
    <2>1. CASE l # <<>>
      <3>1. Len(l) - 1 \in 0 .. Len(l)
        BY <2>1, LenProperties, EmptySeq
      <3> QED BY <3>1, Halves DEF Stripped, Front
    <2>2. CASE l = <<>>
      BY <2>2 DEF Stripped
    <2> QED BY <2>1, <2>2
  <1> DEFINE t == Stripped(l)
             n == IF Len(t) < MaxLine THEN Len(t) ELSE MaxLine - 1
  <1>2. t \in Seq(Byte) /\ Len(t) \in Nat
    BY <1>1, LenProperties
  <1>3. MaxLine \in Nat /\ MaxLine > 3
    BY FramingAssumption
  <1> HIDE DEF t
  <1>4. n \in 0 .. Len(t) /\ n < MaxLine
    BY <1>2, <1>3
  <1>5. Fit(l) = SubSeq(t, 1, n)
    BY DEF Fit, t
  <1> QED BY <1>2, <1>4, <1>5, Halves

LEMMA StreamInit == Init => StreamInv
  <1> SUFFICES ASSUME Init PROVE StreamInv
    OBVIOUS
  <1>1. FramesOK
    BY DEF Init, FramesOK
  <1>2. Len(sent) = 0 /\ Len(popped) = 0 /\ Len(inbuf) = 0 /\ Len(outbuf) = 0
    BY DEF Init
  <1>3. StreamHeld
    <2> DEFINE ends == [k \in 0 .. 0 |-> 0]
    <2>1. Ends(sent, ends)
      <3>1. ends \in [0 .. Len(sent) -> Nat] /\ ends[0] = 0
        BY <1>2
      <3>2. \A k \in 0 .. Len(sent) : ends[k] = 0
        BY <1>2
      <3>3. \A k \in 1 .. Len(sent) : FALSE
        BY <1>2
      <3> HIDE DEF ends
      <3> QED BY <3>1, <3>2, <3>3 DEF Ends
    <2>2. Coming = <<>> /\ Len(Coming) = 0
      <3>1. <<>> \in Seq(Byte)
        OBVIOUS
      <3>2. Coming = <<>> \o (<<>> \o <<>>)
        BY DEF Coming, Init
      <3> QED BY <3>1, <3>2, ConcatEmptySeq
    <2>3. ends[Len(sent)] = 0 /\ ends[Len(popped)] = 0
      BY <1>2
    <2> HIDE DEF ends
    <2>4. Follows(sent, ends, Len(popped), Coming)
      BY <1>2, <2>2, <2>3 DEF Follows
    <2> QED BY <2>1, <2>2, <2>3, <2>4 DEF StreamHeld
  <1>4. ShortLines
    BY <1>2 DEF ShortLines
  <1>5. BuffersHold
    <2>1. InSize > 0 /\ OutSize \in Nat
      BY FramingAssumption
    <2> QED BY <1>2, <2>1 DEF BuffersHold, Init
  <1>6. OnlyLongLinesOverflow
    BY DEF Init, OnlyLongLinesOverflow
  <1> QED BY <1>1, <1>3, <1>4, <1>5, <1>6 DEF StreamInv

-----------------------------------------------------------------------------
(* What a step does to the bytes that are coming. *)

(* A call puts a line behind everything else. *)
LEMMA StreamHeldSend ==
  ASSUME FramesOK, StreamHeld, connection = "open", NEW l \in Lines,
         sent' = Append(sent, l), popped' = popped, Coming' = Coming \o Ended(l)
  PROVE  StreamHeld'
  <1>1. PICK ends : /\ Ends(sent, ends) /\ Follows(sent, ends, Len(popped), Coming)
                    /\ Len(Coming) = ends[Len(sent)] - ends[Len(popped)]
    BY DEF StreamHeld, Live
  <1>2. sent \in Seq(Lines) /\ Len(popped) \in Nat
    <2>1. sent \in Seq(Lines) /\ popped \in Seq(Seq(Byte))
      BY DEF FramesOK
    <2> QED BY <2>1, LenProperties
  <1> DEFINE more == WithEnd(sent, ends, l)
  <1>3. Ends(sent', more)
    BY <1>1, <1>2, EndsAppend
  <1>4. /\ Follows(sent', more, Len(popped'), Coming')
        /\ Len(Coming') = more[Len(sent')] - more[Len(popped')]
    BY <1>1, <1>2, ComingBytes, FollowsAppend
  <1> HIDE DEF more
  <1> QED BY <1>3, <1>4 DEF StreamHeld

(* Bytes move from one buffer to the next. *)
LEMMA StreamHeldMove ==
  ASSUME StreamHeld, Live' => Live, connection' = "open" => connection = "open",
         UNCHANGED <<sent, popped>>, Coming' = Coming
  PROVE  StreamHeld'
  BY DEF StreamHeld

(* The end of what is coming is lost. *)
LEMMA StreamHeldHangUp ==
  ASSUME FramesOK, FramesOK', StreamHeld, Live, connection' # "open", UNCHANGED <<sent, popped>>,
         Len(Coming') <= Len(Coming), \A i \in 1 .. Len(Coming') : Coming'[i] = Coming[i]
  PROVE  StreamHeld'
  <1>1. PICK ends : Ends(sent, ends) /\ Follows(sent, ends, Len(popped), Coming)
    BY DEF StreamHeld
  <1>2. sent \in Seq(Lines) /\ Len(popped) \in Nat
    <2>1. sent \in Seq(Lines) /\ popped \in Seq(Seq(Byte))
      BY DEF FramesOK
    <2> QED BY <2>1, LenProperties
  <1>3. Coming \in Seq(Byte)
    BY ComingBytes
  <1>4. Coming' \in Seq(Byte)
    <2>1. inbuf' \in Seq(Byte) /\ wire' \in Seq(Byte) /\ outbuf' \in Seq(Byte)
      BY DEF FramesOK
    <2>2. wire' \o outbuf' \in Seq(Byte)
      BY <2>1, Joined
    <2> QED BY <2>1, <2>2, Joined DEF Coming
  <1>5. Follows(sent, ends, Len(popped), Coming')
    BY <1>1, <1>2, <1>3, <1>4, FollowsPrefix
  <1> QED BY <1>1, <1>5 DEF StreamHeld

(* A line is popped. *)
LEMMA StreamHeldPop ==
  ASSUME FramesOK, StreamHeld, PopLine
  PROVE  StreamHeld'
  <1> DEFINE m == Len(popped)
             w == Len(sent[m + 1])
             rest == wire \o outbuf
  <1>1. Live /\ HasLine /\ UNCHANGED <<connection, sent>> /\ Live'
    BY DEF PopLine, Live
  <1>2. PICK ends : /\ Ends(sent, ends) /\ Follows(sent, ends, m, Coming)
                    /\ connection = "open" => Len(Coming) = ends[Len(sent)] - ends[m]
    BY <1>1 DEF StreamHeld
  <1>3. sent \in Seq(Lines) /\ popped \in Seq(Seq(Byte)) /\ m \in Nat /\ inbuf \in Seq(Byte)
    <2>1. sent \in Seq(Lines) /\ popped \in Seq(Seq(Byte)) /\ inbuf \in Seq(Byte)
      BY DEF FramesOK
    <2> QED BY <2>1, LenProperties
  <1>4. /\ m + 1 \in 1 .. Len(sent) /\ sent[m + 1] \in Seq(Byte) /\ w \in Nat
        /\ FirstNewline = w + 1 /\ w + 1 \in 1 .. Len(inbuf) /\ w + 1 \in 0 .. Len(inbuf)
        /\ SubSeq(inbuf, 1, FirstNewline - 1) = sent[m + 1]
    BY <1>1, LinePopped
  <1>5. Len(popped') = m + 1
    <2>1. Fit(SubSeq(inbuf, 1, FirstNewline - 1)) \in Seq(Byte)
      BY <1>4, FitFits
    <2> QED BY <1>3, <2>1, AppendProperties DEF PopLine
  <1>6. rest \in Seq(Byte) /\ Len(rest) \in Nat /\ Len(inbuf) \in Nat
    <2>1. wire \in Seq(Byte) /\ outbuf \in Seq(Byte)
      BY DEF FramesOK
    <2> QED BY <1>3, <2>1, Joined, LenProperties
  <1>7. /\ inbuf' \in Seq(Byte) /\ Len(inbuf') = Len(inbuf) - (w + 1)
        /\ \A k \in 1 .. Len(inbuf') : inbuf'[k] = inbuf[w + 1 + k]
    BY <1>3, <1>4, Halves DEF PopLine
  <1>8. Coming' = inbuf' \o rest /\ Coming = inbuf \o rest
    BY DEF Coming, PopLine
  <1> HIDE DEF rest, w
  <1>9. Coming' \in Seq(Byte) /\ Len(Coming') = Len(inbuf') + Len(rest)
        /\ Len(Coming) = Len(inbuf) + Len(rest) /\ Coming \in Seq(Byte)
    BY <1>3, <1>6, <1>7, <1>8, Joined
  <1>10. Len(Coming) = w + 1 + Len(Coming') /\ Len(Coming') \in Nat
    <2>1. w \in Nat /\ Len(inbuf) = Len(inbuf') + (w + 1) /\ Len(inbuf') \in Nat
      BY <1>4, <1>6, <1>7, LenProperties
    <2>2. Len(Coming) = Len(inbuf) + Len(rest) /\ Len(Coming') = Len(inbuf') + Len(rest)
      BY <1>9
    <2> QED BY ONLY <1>6, <2>1, <2>2
  <1>11. ASSUME NEW i \in 1 .. Len(Coming') PROVE Coming'[i] = Coming[w + 1 + i]
    <2>1. i \in 1 .. Len(inbuf') + Len(rest)
      BY <1>9
    <2>2. CASE i \in 1 .. Len(inbuf')
      <3>1. Coming'[i] = inbuf'[i]
        BY <1>6, <1>7, <1>8, <2>2, Joined
      <3>2. w + 1 + i \in 1 .. Len(inbuf)
        BY <1>4, <1>6, <1>7, <2>2
      <3>3. Coming[w + 1 + i] = inbuf[w + 1 + i]
        BY <1>3, <1>6, <1>8, <3>2, Joined
      <3> QED BY <1>7, <2>2, <3>1, <3>3
    <2>3. CASE ~(i \in 1 .. Len(inbuf'))
      <3> DEFINE j == i - Len(inbuf')
      <3>1. Len(inbuf') \in Nat
        BY <1>7, LenProperties
      <3>2. j \in 1 .. Len(rest) /\ Len(inbuf') + j = i /\ Len(inbuf) + j = w + 1 + i
        BY <1>4, <1>6, <1>7, <2>1, <2>3, <3>1
      <3> HIDE DEF j
      <3>3. (inbuf' \o rest)[Len(inbuf') + j] = rest[j]
        BY <1>6, <1>7, <3>2, Joined
      <3>4. (inbuf \o rest)[Len(inbuf) + j] = rest[j]
        BY <1>3, <1>6, <3>2, Joined
      <3> QED BY <1>8, <3>2, <3>3, <3>4
    <2> QED BY <2>2, <2>3
  <1>12. /\ Follows(sent, ends, m + 1, Coming')
         /\ ends[Len(sent)] - ends[m + 1] = ends[Len(sent)] - ends[m] - (w + 1)
    BY <1>2, <1>3, <1>4, <1>9, <1>10, <1>11, FollowsPop DEF w
  <1>13. ASSUME connection = "open" PROVE Len(Coming') = ends[Len(sent)] - ends[m + 1]
    <2>1. Len(Coming) = ends[Len(sent)] - ends[m]
      BY <1>2, <1>13
    <2> QED BY <1>4, <1>10, <1>12, <2>1
  <1> HIDE DEF m
  <1> QED BY <1>1, <1>2, <1>5, <1>12, <1>13 DEF StreamHeld

-----------------------------------------------------------------------------
(* Every step. *)

LEMMA FramesOKNext == FramesOK /\ StreamHeld /\ [Next]_vars => FramesOK'
  <1> SUFFICES ASSUME FramesOK, StreamHeld, [Next]_vars PROVE FramesOK'
    OBVIOUS
  <1>t. /\ outbuf \in Seq(Byte) /\ wire \in Seq(Byte) /\ inbuf \in Seq(Byte)
        /\ Len(outbuf) \in Nat /\ Len(wire) \in Nat /\ Len(inbuf) \in Nat
    <2>1. outbuf \in Seq(Byte) /\ wire \in Seq(Byte) /\ inbuf \in Seq(Byte)
      BY DEF FramesOK
    <2> QED BY <2>1, LenProperties
  <1> USE DEF FramesOK
  <1>1. ASSUME NEW l \in Lines, QueueLine(l) \/ SendLine(l) \/ WriteAnything(l) PROVE FramesOK'
    <2>1. Ended(l) \in Seq(Byte)
      BY LinesAreBytes, EndedLine
    <2>2. sent' \in Seq(Lines)
      BY <1>1, OneMoreLine DEF QueueLine, SendLine, WriteAnything, Write
    <2>3. outbuf \o Ended(l) \in Seq(Byte) /\ wire \o Ended(l) \in Seq(Byte)
      BY <2>1, Joined
    <2> QED BY <1>1, <2>2, <2>3 DEF QueueLine, SendLine, WriteAnything, Write, Sending
  <1>2. ASSUME Flush PROVE FramesOK'
    <2>1. PICK n \in 1 .. Len(outbuf) : /\ wire' = wire \o SubSeq(outbuf, 1, n)
                                         /\ outbuf' = SubSeq(outbuf, n + 1, Len(outbuf))
      BY <1>2 DEF Flush
    <2>2. n \in 0 .. Len(outbuf)
      BY ONLY <1>t, n \in 1 .. Len(outbuf)
    <2>3. SubSeq(outbuf, 1, n) \in Seq(Byte) /\ outbuf' \in Seq(Byte)
      BY <2>1, <2>2, Halves
    <2>4. wire' \in Seq(Byte)
      BY <2>1, <2>3, Joined
    <2> QED BY <1>2, <2>3, <2>4 DEF Flush
  <1>3. ASSUME HangUp PROVE FramesOK'
    <2>1. PICK n \in 0 .. Len(wire) : wire' = SubSeq(wire, 1, n)
      BY <1>3 DEF HangUp
    <2>2. wire' \in Seq(Byte)
      BY <1>t, <2>1, Halves
    <2>3. outbuf' \in Seq(Byte) /\ outbuf' = <<>>
      BY <1>3, EmptySeq DEF HangUp
    <2> QED BY <1>3, <2>2, <2>3 DEF HangUp
  <1>4. ASSUME Read PROVE FramesOK'
    <2>1. PICK n \in 1 .. Chunk :
             /\ n <= Len(wire) /\ wire' = SubSeq(wire, n + 1, Len(wire))
             /\ \/ connection' = "overflowed" /\ UNCHANGED inbuf
                \/ inbuf' = inbuf \o SubSeq(wire, 1, n) /\ UNCHANGED connection
      BY <1>4 DEF Read
    <2>2. n \in 0 .. Len(wire)
      <3>1. n \in Nat
        BY ONLY Sizes, n \in 1 .. Chunk
      <3> QED BY ONLY <1>t, <2>1, <3>1
    <2>3. wire' \in Seq(Byte) /\ SubSeq(wire, 1, n) \in Seq(Byte)
      BY <2>1, <2>2, Halves
    <2>4. inbuf' \in Seq(Byte)
      <3>1. inbuf \o SubSeq(wire, 1, n) \in Seq(Byte)
        BY <1>t, <2>3, Joined
      <3> QED BY <1>t, <2>1, <3>1
    <2> QED BY <1>4, <2>1, <2>3, <2>4 DEF Read
  <1>5. ASSUME ReadEnd PROVE FramesOK'
    BY <1>5 DEF ReadEnd
  <1>6. ASSUME PopLine PROVE FramesOK'
    <2>1. Live /\ HasLine
      BY <1>6 DEF PopLine, Live
    <2>2. FirstNewline \in 1 .. Len(inbuf) /\ SubSeq(inbuf, 1, FirstNewline - 1) \in Seq(Byte)
      BY <2>1, LinePopped
    <2>3. popped' \in Seq(Seq(Byte))
      BY <1>6, <2>2, FitFits, AppendProperties DEF PopLine
    <2>4. inbuf' \in Seq(Byte)
      <3>1. FirstNewline \in 0 .. Len(inbuf)
        BY ONLY <1>t, <2>2
      <3> QED BY <1>6, <3>1, Halves DEF PopLine
    <2> QED BY <1>6, <2>3, <2>4 DEF PopLine
  <1>7. ASSUME UNCHANGED vars PROVE FramesOK'
    BY <1>7 DEF vars
  <1> QED BY <1>1, <1>2, <1>3, <1>4, <1>5, <1>6, <1>7 DEF Next

LEMMA StreamHeldNext == FramesOK /\ StreamHeld /\ [Next]_vars => StreamHeld'
  <1> SUFFICES ASSUME FramesOK, StreamHeld, [Next]_vars PROVE StreamHeld'
    OBVIOUS
  <1>t. /\ outbuf \in Seq(Byte) /\ wire \in Seq(Byte) /\ inbuf \in Seq(Byte)
        /\ Len(outbuf) \in Nat /\ Len(wire) \in Nat /\ Len(inbuf) \in Nat
    <2>1. outbuf \in Seq(Byte) /\ wire \in Seq(Byte) /\ inbuf \in Seq(Byte)
      BY DEF FramesOK
    <2> QED BY <2>1, LenProperties
  <1>1. ASSUME NEW l \in Lines, QueueLine(l) \/ SendLine(l) \/ WriteAnything(l) PROVE StreamHeld'
    <2>1. connection = "open" /\ sent' = Append(sent, l) /\ popped' = popped /\ inbuf' = inbuf
      BY <1>1 DEF QueueLine, SendLine, WriteAnything, Write, Sending
    <2>2. Ended(l) \in Seq(Byte)
      BY LinesAreBytes, EndedLine
    <2>3. Coming \o Ended(l) = inbuf \o ((wire \o outbuf) \o Ended(l))
      <3>1. wire \o outbuf \in Seq(Byte)
        BY <1>t, Joined
      <3>2. (inbuf \o (wire \o outbuf)) \o Ended(l) = inbuf \o ((wire \o outbuf) \o Ended(l))
        BY <1>t, <2>2, <3>1, Regrouped
      <3> QED BY <3>2 DEF Coming
    <2>4. Coming' = Coming \o Ended(l)
      <3>1. CASE QueueLine(l)
        <4>1. (wire \o outbuf) \o Ended(l) = wire \o (outbuf \o Ended(l))
          BY <1>t, <2>2, Regrouped
        <4> QED BY <2>1, <2>3, <3>1, <4>1 DEF Coming, QueueLine
      <3>2. CASE ~QueueLine(l)
        <4>1. outbuf = <<>> /\ outbuf' = <<>> /\ wire' = wire \o Ended(l)
          BY <1>1, <3>2 DEF SendLine, WriteAnything, Write, Sending, FramesOK
        <4>2. wire \o <<>> = wire /\ (wire \o Ended(l)) \o <<>> = wire \o Ended(l)
          BY <1>t, <2>2, Joined, ConcatEmptySeq
        <4> QED BY <2>1, <2>3, <4>1, <4>2 DEF Coming
      <3> QED BY <3>1, <3>2
    <2> QED BY <2>1, <2>4, StreamHeldSend
  <1>2. ASSUME Flush PROVE StreamHeld'
    <2>1. PICK n \in 1 .. Len(outbuf) : /\ wire' = wire \o SubSeq(outbuf, 1, n)
                                         /\ outbuf' = SubSeq(outbuf, n + 1, Len(outbuf))
      BY <1>2 DEF Flush
    <2>2. n \in 0 .. Len(outbuf)
      BY <1>t
    <2>3. /\ SubSeq(outbuf, 1, n) \in Seq(Byte) /\ outbuf' \in Seq(Byte)
          /\ SubSeq(outbuf, 1, n) \o outbuf' = outbuf
      BY <1>t, <2>1, <2>2, Halves
    <2>4. wire' \o outbuf' = wire \o outbuf
      <3>1. (wire \o SubSeq(outbuf, 1, n)) \o outbuf' = wire \o (SubSeq(outbuf, 1, n) \o outbuf')
        BY <1>t, <2>3, Regrouped
      <3> QED BY <2>1, <2>3, <3>1
    <2>5. Coming' = Coming
      BY <1>2, <2>4 DEF Coming, Flush
    <2> QED BY <1>2, <2>5, StreamHeldMove DEF Flush, Live
  <1>3. ASSUME HangUp PROVE StreamHeld'
    <2>1. PICK n \in 0 .. Len(wire) : wire' = SubSeq(wire, 1, n)
      BY <1>3 DEF HangUp
    <2>2. /\ wire' \in Seq(Byte) /\ Len(wire') = n /\ \A k \in 1 .. n : wire'[k] = wire[k]
      BY <1>t, <2>1, Halves
    <2>3. Coming' = inbuf \o wire'
      BY <1>3, <2>2, ConcatEmptySeq DEF Coming, HangUp
    <2>4. /\ Len(Coming') = Len(inbuf) + n
          /\ \A i \in 1 .. Len(inbuf) : Coming'[i] = inbuf[i]
          /\ \A i \in 1 .. n : Coming'[Len(inbuf) + i] = wire[i]
      BY <1>t, <2>2, <2>3, Joined
    <2>5. /\ Len(wire \o outbuf) = Len(wire) + Len(outbuf)
          /\ \A i \in 1 .. Len(wire) : (wire \o outbuf)[i] = wire[i]
      BY <1>t, Joined
    <2>6. Len(Coming') <= Len(Coming)
      BY <1>t, <2>4, <2>5, ComingBytes
    <2>7. ASSUME NEW i \in 1 .. Len(Coming') PROVE Coming'[i] = Coming[i]
      <3>1. CASE i \in 1 .. Len(inbuf)
        BY <2>4, <3>1, ComingBytes
      <3>2. CASE ~(i \in 1 .. Len(inbuf))
        <4> DEFINE j == i - Len(inbuf)
        <4>1. j \in 1 .. n /\ j \in 1 .. Len(wire) /\ Len(inbuf) + j = i
              /\ j \in 1 .. Len(wire \o outbuf)
          BY <1>t, <2>4, <2>5, <3>2
        <4> HIDE DEF j
        <4>2. Coming'[Len(inbuf) + j] = wire[j]
          BY <2>4, <4>1
        <4>3. Coming[Len(inbuf) + j] = (wire \o outbuf)[j]
          BY <4>1, ComingBytes
        <4> QED BY <2>5, <4>1, <4>2, <4>3
      <3> QED BY <3>1, <3>2
    <2> QED BY <1>3, <2>6, <2>7, FramesOKNext, StreamHeldHangUp DEF HangUp, Live
  <1>4. ASSUME Read PROVE StreamHeld'
    <2>1. PICK n \in 1 .. Chunk :
             /\ n <= Len(wire) /\ wire' = SubSeq(wire, n + 1, Len(wire))
             /\ \/ connection' = "overflowed" /\ UNCHANGED inbuf
                \/ inbuf' = inbuf \o SubSeq(wire, 1, n) /\ UNCHANGED connection
      BY <1>4 DEF Read
    <2>2. CASE connection' = "overflowed"
      BY <2>2 DEF StreamHeld, Live
    <2>3. CASE inbuf' = inbuf \o SubSeq(wire, 1, n) /\ UNCHANGED connection
      <3>1. n \in 0 .. Len(wire)
        BY <1>t, <2>1, Sizes
      <3>2. /\ SubSeq(wire, 1, n) \in Seq(Byte) /\ wire' \in Seq(Byte)
            /\ SubSeq(wire, 1, n) \o wire' = wire
        BY <1>t, <2>1, <3>1, Halves
      <3>3. (inbuf \o SubSeq(wire, 1, n)) \o (wire' \o outbuf)
            = inbuf \o (SubSeq(wire, 1, n) \o (wire' \o outbuf))
        <4>1. wire' \o outbuf \in Seq(Byte)
          BY <1>t, <3>2, Joined
        <4> QED BY <1>t, <3>2, <4>1, Regrouped
      <3>4. SubSeq(wire, 1, n) \o (wire' \o outbuf) = wire \o outbuf
        <4>1. (SubSeq(wire, 1, n) \o wire') \o outbuf = SubSeq(wire, 1, n) \o (wire' \o outbuf)
          BY <1>t, <3>2, Regrouped
        <4> QED BY <3>2, <4>1
      <3>5. Coming' = Coming
        BY <1>4, <2>3, <3>3, <3>4 DEF Coming, Read
      <3> QED BY <1>4, <2>3, <3>5, StreamHeldMove DEF Read, Live
    <2> QED BY <2>1, <2>2, <2>3
  <1>5. ASSUME ReadEnd PROVE StreamHeld'
    BY <1>5 DEF ReadEnd, StreamHeld, Live
  <1>6. ASSUME PopLine PROVE StreamHeld'
    BY <1>6, StreamHeldPop
  <1>7. ASSUME UNCHANGED vars PROVE StreamHeld'
    BY <1>7 DEF vars, StreamHeld, Live, Coming
  <1> QED BY <1>1, <1>2, <1>3, <1>4, <1>5, <1>6, <1>7 DEF Next

LEMMA ShortLinesNext == FramesOK /\ ShortLines /\ [Next]_vars => ShortLines'
  <1> SUFFICES ASSUME FramesOK, ShortLines, [Next]_vars PROVE ShortLines'
    OBVIOUS
  <1>1. ASSUME NEW l \in Lines, QueueLine(l) \/ SendLine(l) PROVE ShortLines'
    <2>1. sent' = Append(sent, l) /\ LineFits(l) /\ sent \in Seq(Lines) /\ sender' = sender
      BY <1>1 DEF QueueLine, SendLine, Write, FramesOK
    <2>2. Len(sent) \in Nat
      BY <2>1, LenProperties
    <2>3. \A k \in 1 .. Len(sent') : k \in 1 .. Len(sent) \/ k = Len(sent) + 1
      BY <2>1, <2>2, OneMoreLine
    <2>4. /\ \A k \in 1 .. Len(sent) : sent'[k] = sent[k]
          /\ sent'[Len(sent) + 1] = l
      BY <2>1, OneMoreLine
    <2> QED BY <2>1, <2>3, <2>4 DEF ShortLines
  <1>2. ASSUME NEW l \in Lines, WriteAnything(l) PROVE ShortLines'
    BY <1>2 DEF WriteAnything, Write, Sending, ShortLines
  <1>3. CASE UNCHANGED <<sender, sent>>
    BY <1>3 DEF ShortLines
  <1>4. Flush \/ HangUp \/ Read \/ ReadEnd \/ PopLine \/ UNCHANGED vars => UNCHANGED <<sender, sent>>
    BY DEF Flush, HangUp, Read, ReadEnd, PopLine, vars
  <1> QED BY <1>1, <1>2, <1>3, <1>4 DEF Next

(* A chunk that does not fit comes in the middle of a line that is too long. *)
LEMMA OverflowNext == StreamInv /\ [Next]_vars => OnlyLongLinesOverflow'
  <1> SUFFICES ASSUME StreamInv, [Next]_vars, connection' = "overflowed"
               PROVE  OnlyLongLinesOverflow'
    BY DEF OnlyLongLinesOverflow
  <1>1. CASE connection = "overflowed"
    <2>1. UNCHANGED <<sender, sent>>
      BY <1>1 DEF Next, QueueLine, SendLine, WriteAnything, Sending, Flush, HangUp, Read, ReadEnd,
                  PopLine, vars
    <2> QED BY <1>1, <2>1 DEF StreamInv, OnlyLongLinesOverflow
  <1>2. CASE connection # "overflowed"
    <2>1. Read
      BY <1>2 DEF Next, QueueLine, SendLine, WriteAnything, Write, Sending, Flush, HangUp, ReadEnd,
                  PopLine, vars
    <2>2. PICK n \in 1 .. Chunk : Len(inbuf) + n >= InSize
      BY <1>2, <2>1 DEF Read
    <2>3. FramesOK /\ StreamHeld /\ Live /\ ~HasLine /\ ShortLines /\ UNCHANGED <<sender, sent>>
      BY <2>1 DEF StreamInv, Read, AllPopped, Live
    <2> DEFINE line == sent[Len(popped) + 1]
    <2>4. Len(inbuf) \in Nat
      BY <2>3, ComingBytes
    <2>5. inbuf # <<>>
      <3>1. inbuf = <<>> => Len(inbuf) = 0
        BY EmptySeq
      <3> QED BY <2>2, <2>4, <3>1, Sizes
    <2>6. /\ Len(popped) + 1 \in 1 .. Len(sent) /\ Len(inbuf) <= Len(line) /\ Len(line) \in Nat
      BY <2>3, <2>5, NoLineYet, NextLine
    <2> HIDE DEF line
    <2>7. Len(line) + Chunk >= InSize
      BY <2>2, <2>4, <2>6, Sizes
    <2>8. ~LineFits(line)
      BY <2>6, <2>7, Sizes DEF LineFits
    <2>9. sender = "stranger"
      BY <2>3, <2>6, <2>8 DEF ShortLines, line
    <2>10. Len(popped) + 1 \in DOMAIN sent
      <3>1. sent \in Seq(Lines)
        BY <2>3 DEF FramesOK
      <3> QED BY <2>6, <3>1, LenProperties
    <2> QED BY <2>3, <2>7, <2>9, <2>10 DEF OnlyLongLinesOverflow, line
  <1> QED BY <1>1, <1>2

LEMMA BuffersNext == FramesOK /\ StreamHeld /\ BuffersHold /\ [Next]_vars => BuffersHold'
  <1> SUFFICES ASSUME FramesOK, StreamHeld, BuffersHold, [Next]_vars PROVE BuffersHold'
    OBVIOUS
  <1>t. /\ outbuf \in Seq(Byte) /\ wire \in Seq(Byte) /\ inbuf \in Seq(Byte)
        /\ Len(outbuf) \in Nat /\ Len(wire) \in Nat /\ Len(inbuf) \in Nat
        /\ popped \in Seq(Seq(Byte))
    <2>1. outbuf \in Seq(Byte) /\ wire \in Seq(Byte) /\ inbuf \in Seq(Byte)
          /\ popped \in Seq(Seq(Byte))
      BY DEF FramesOK
    <2> QED BY <2>1, LenProperties
  <1>1. Len(outbuf') <= OutSize
    <2>1. ASSUME NEW l \in Lines, QueueLine(l) PROVE Len(outbuf') <= OutSize
      <3>1. Ended(l) \in Seq(Byte)
        BY LinesAreBytes, EndedLine
      <3> QED BY <1>t, <2>1, <3>1, Joined DEF QueueLine, HasRoom
    <2>2. ASSUME Flush PROVE Len(outbuf') <= OutSize
      <3>1. PICK n \in 1 .. Len(outbuf) : outbuf' = SubSeq(outbuf, n + 1, Len(outbuf))
        BY <2>2 DEF Flush
      <3>2. n \in 0 .. Len(outbuf)
        BY <1>t
      <3>3. Len(outbuf') = Len(outbuf) - n
        BY <1>t, <3>1, <3>2, Halves
      <3> QED BY <1>t, <3>2, <3>3, Sizes DEF BuffersHold
    <2>3. ASSUME HangUp PROVE Len(outbuf') <= OutSize
      <3>1. outbuf' = <<>>
        BY <2>3 DEF HangUp
      <3>2. Len(outbuf') = 0
        BY <3>1, EmptySeq
      <3> QED BY <3>2, Sizes
    <2>4. CASE UNCHANGED outbuf
      BY <2>4 DEF BuffersHold
    <2> QED BY <2>1, <2>2, <2>3, <2>4 DEF Next, SendLine, WriteAnything, Write, Read, ReadEnd, PopLine, vars
  <1>2. Len(inbuf') < InSize
    <2>1. ASSUME Read PROVE Len(inbuf') < InSize
      <3>1. PICK n \in 1 .. Chunk :
               /\ n <= Len(wire)
               /\ IF Len(inbuf) + n >= InSize
                  THEN UNCHANGED inbuf
                  ELSE inbuf' = inbuf \o SubSeq(wire, 1, n)
        BY <2>1 DEF Read
      <3>2. n \in 0 .. Len(wire)
        BY <1>t, <3>1, Sizes
      <3>3. SubSeq(wire, 1, n) \in Seq(Byte) /\ Len(SubSeq(wire, 1, n)) = n
        BY <1>t, <3>2, Halves
      <3>4. Len(inbuf \o SubSeq(wire, 1, n)) = Len(inbuf) + n
        BY <1>t, <3>3, Joined
      <3> QED BY <1>t, <3>1, <3>2, <3>4, Sizes DEF BuffersHold
    <2>2. ASSUME PopLine PROVE Len(inbuf') < InSize
      <3>1. Live /\ HasLine
        BY <2>2 DEF PopLine, Live
      <3>2. FirstNewline \in 0 .. Len(inbuf) /\ FirstNewline \in 1 .. Len(inbuf)
        BY <1>t, <3>1, LinePopped
      <3>3. Len(inbuf') = Len(inbuf) - FirstNewline
        BY <1>t, <2>2, <3>2, Halves DEF PopLine
      <3> QED BY <1>t, <3>2, <3>3, Sizes DEF BuffersHold
    <2>3. ASSUME ReadEnd PROVE Len(inbuf') < InSize
      <3>1. inbuf' = <<>>
        BY <2>3 DEF ReadEnd
      <3>2. Len(inbuf') = 0
        BY <3>1, EmptySeq
      <3> QED BY <3>2, Sizes
    <2>4. CASE UNCHANGED inbuf
      BY <2>4 DEF BuffersHold
    <2> QED BY <2>1, <2>2, <2>3, <2>4 DEF Next, QueueLine, SendLine, WriteAnything, Write, Flush, HangUp, vars
  <1>3. \A k \in DOMAIN popped' : Len(popped'[k]) < MaxLine
    <2>1. ASSUME PopLine PROVE \A k \in DOMAIN popped' : Len(popped'[k]) < MaxLine
      <3> DEFINE line == Fit(SubSeq(inbuf, 1, FirstNewline - 1))
      <3>1. Live /\ HasLine
        BY <2>1 DEF PopLine, Live
      <3>2. SubSeq(inbuf, 1, FirstNewline - 1) \in Seq(Byte)
        BY <3>1, LinePopped
      <3>3. line \in Seq(Byte) /\ Len(line) < MaxLine
        BY <3>2, FitFits
      <3> HIDE DEF line
      <3>4. popped' = Append(popped, line)
        BY <2>1 DEF PopLine, line
      <3>5. /\ popped' \in Seq(Seq(Byte)) /\ Len(popped') = Len(popped) + 1
            /\ \A k \in 1 .. Len(popped) : popped'[k] = popped[k]
            /\ popped'[Len(popped) + 1] = line
        BY <1>t, <3>3, <3>4, AppendProperties
      <3>6. DOMAIN popped = 1 .. Len(popped) /\ DOMAIN popped' = 1 .. Len(popped) + 1 /\ Len(popped) \in Nat
        BY <1>t, <3>5, LenProperties
      <3>7. \A k \in DOMAIN popped' : k \in DOMAIN popped \/ k = Len(popped) + 1
        BY <3>6
      <3> QED BY <3>3, <3>5, <3>6, <3>7 DEF BuffersHold
    <2>2. CASE UNCHANGED popped
      BY <2>2 DEF BuffersHold
    <2> QED BY <2>1, <2>2 DEF Next, QueueLine, SendLine, WriteAnything, Write, Flush, HangUp, Read, ReadEnd, vars
  <1> QED BY <1>1, <1>2, <1>3 DEF BuffersHold

LEMMA StreamNext == StreamInv /\ [Next]_vars => StreamInv'
  BY FramesOKNext, StreamHeldNext, ShortLinesNext, OverflowNext, BuffersNext DEF StreamInv

-----------------------------------------------------------------------------
(* Theorems. *)

(* What has been sent and not been popped is, at every moment, what lies in the
   four buffers on the way, the part of a line that pop_line has not seen yet
   included (protocol.c:70-152). *)
LEMMA StreamInvAlways == Spec => []StreamInv
  BY StreamInit, StreamNext, PTL DEF Spec

(* No buffer is ever written behind its end, whatever the sizes: not the
   server's output buffer, not the receiver's input buffer, not the array pop_line
   fills (protocol.c:52-60, 103-122, 140-152). *)
THEOREM BuffersHoldAlways == Spec => []BuffersHold
  <1>1. StreamInv => BuffersHold
    BY DEF StreamInv
  <1> QED BY <1>1, StreamInvAlways, PTL

(* Only a line that no program of the repository writes can fill a receiver's
   buffer and end its connection, however the short ones are cut up
   (protocol.c:145-148). *)
THEOREM OnlyLongLinesOverflowAlways == Spec => []OnlyLongLinesOverflow
  <1>1. StreamInv => OnlyLongLinesOverflow
    BY DEF StreamInv
  <1> QED BY <1>1, StreamInvAlways, PTL

(* Every step of the buffers is a step of the line stream, or none: what
   pop_line hands to its caller are the lines of the other side, each once, whole
   and in order, up to where the connection ends (protocol.h:7-13). *)
LEMMA StreamStep == StreamInv /\ [Next]_vars => [Stream!Next]_(Stream!vars)
  <1> SUFFICES ASSUME StreamInv, [Next]_vars PROVE [Stream!Next]_(Stream!vars)
    OBVIOUS
  <1> USE DEF Stream!vars
  <1>1. ASSUME NEW l \in Lines, QueueLine(l) \/ SendLine(l) \/ WriteAnything(l) PROVE Stream!Send
    BY <1>1 DEF QueueLine, SendLine, WriteAnything, Write, Sending, Stream!Send
  <1>2. ASSUME Flush \/ ReadEnd \/ UNCHANGED vars PROVE UNCHANGED Stream!vars
    BY <1>2 DEF Flush, ReadEnd, vars
  <1>3. ASSUME HangUp PROVE Stream!Break
    BY <1>3 DEF HangUp, Stream!Break
  <1>4. ASSUME Read PROVE Stream!Break \/ UNCHANGED Stream!vars
    BY <1>4 DEF Read, Stream!Break
  <1>5. ASSUME PopLine PROVE Stream!Deliver
    <2>1. FramesOK /\ StreamHeld /\ Live /\ HasLine
      BY <1>5 DEF StreamInv, PopLine, Live
    <2>2. Len(popped) + 1 \in 1 .. Len(sent)
          /\ SubSeq(inbuf, 1, FirstNewline - 1) = sent[Len(popped) + 1]
      BY <2>1, LinePopped
    <2>3. Len(popped) < Len(sent)
      <3>1. sent \in Seq(Lines) /\ popped \in Seq(Seq(Byte))
        BY <2>1 DEF FramesOK
      <3>2. Len(popped) \in Nat /\ Len(sent) \in Nat
        BY <3>1, LenProperties
      <3> QED BY <2>2, <3>2
    <2> QED BY <1>5, <2>2, <2>3 DEF PopLine, Stream!Deliver
  <1> QED BY <1>1, <1>2, <1>3, <1>4, <1>5 DEF Next, Stream!Next

(* A connection is a stream of lines: whatever part of the buffer send takes and
   whatever chunk recv returns, the receiver pops the lines that were queued,
   whole, once and in order, until the connection breaks (protocol.c:70-152). *)
THEOREM FramingIsLineStream == Spec => Stream!Safety
  <1>1. Init => Stream!Init
    BY DEF Init, Stream!Init
  <1> QED BY <1>1, StreamInvAlways, StreamStep, PTL DEF Spec, Stream!Safety
=============================================================================
