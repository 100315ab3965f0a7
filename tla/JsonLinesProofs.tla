--------------------------- MODULE JsonLinesProofs ---------------------------
(***************************************************************************)
(* What is proved about JsonLines, for every number of commands, length of *)
(* line and capacity of the BufReader.                                     *)
(*                                                                         *)
(* The argument follows the blocks of one pipe.  What the reader has yet  *)
(* to take, in recv_raw's buffer, in the BufReader and on the wire, is one *)
(* sequence; FramedBy says where in it each line begins, and that a        *)
(* newline that recv_raw left behind may stand in front of them.  Each     *)
(* step of recv_raw cuts that sequence where a line ends, or moves a       *)
(* border inside it.  The connection is two such pipes.                    *)
(***************************************************************************)
EXTENDS JsonLines, SequenceTheorems, WellFoundedInduction, TLAPS

\* A set of numbers that is not empty has a smallest one.
LEMMA MinIsSmallest ==
  ASSUME NEW I \in SUBSET Nat, I # {}
  PROVE  Min(I) \in I /\ \A i \in I : Min(I) <= i
<1>1. PICK m \in I : \A i \in I : ~(<<i, m>> \in OpToRel(<, Nat))
  BY NatLessThanWellFounded, WFMin
<1>2. ASSUME NEW i \in I PROVE m <= i
  <2>1. <<i, m>> \notin {p \in Nat \X Nat : p[1] < p[2]}
    BY <1>1, Zenon DEF OpToRel
  <2> QED BY <2>1
<1> QED BY <1>2 DEF Min

\* Where Position finds the newline.
LEMMA PositionIsFirst ==
  ASSUME NEW s \in Seq(Nat)
  PROVE  /\ Position(s) \in 0 .. Len(s)
         /\ Position(s) = 0 => \A j \in 1 .. Len(s) : s[j] # Newline
         /\ Position(s) # 0 => /\ s[Position(s)] = Newline
                               /\ \A j \in 1 .. Position(s) - 1 : s[j] # Newline
<1> DEFINE I == {j \in 1 .. Len(s) : s[j] = Newline}
<1>1. Position(s) = IF I # {} THEN Min(I) ELSE 0
  BY DEF Position, SelectInSeq
<1>2. I \in SUBSET Nat /\ I \subseteq 1 .. Len(s) /\ Len(s) \in Nat
  OBVIOUS
<1>3. I # {} => Min(I) \in I /\ \A i \in I : Min(I) <= i
  BY <1>2, MinIsSmallest
<1> HIDE DEF I
<1>4. CASE I = {}
  <2>1. Position(s) = 0
    BY <1>1, <1>4
  <2>2. \A j \in 1 .. Len(s) : s[j] # Newline
    BY <1>4 DEF I
  <2> QED BY <1>2, <2>1, <2>2
<1>5. CASE I # {}
  <2>1. Position(s) \in I /\ \A i \in I : Position(s) <= i
    BY <1>1, <1>3, <1>5
  <2> QED BY <2>1, <1>2 DEF I
<1> QED BY <1>4, <1>5

-----------------------------------------------------------------------------
(***************************************************************************)
(* Framing.                                                                *)
(***************************************************************************)

\* rest is what the reader has yet to take of the lines of commands done + 1 and
\* later, of these lengths, behind the newline of the line before them if stray is 1;
\* line i begins at start[i], and the next one to come would at start[Len(lens) + 1].
FramedBy(rest, lens, done, stray, start) ==
  /\ start \in [done + 1 .. Len(lens) + 1 -> 1 .. Len(rest) + 1]
  /\ start[done + 1] = 1 + stray
  /\ start[Len(lens) + 1] = Len(rest) + 1
  /\ stray = 1 => rest[1] = Newline
  /\ \A i, k \in done + 1 .. Len(lens) + 1 : i <= k => start[i] <= start[k]
  /\ \A i \in done + 1 .. Len(lens) :
       /\ start[i + 1] = start[i] + lens[i] + 1
       /\ rest[start[i] + lens[i]] = Newline
       /\ \A j \in start[i] .. start[i] + lens[i] - 1 : rest[j] = i

\* What FramedBy says, in the pieces that are used.
LEMMA FramedSays ==
  ASSUME NEW rest \in Seq(Nat), NEW lens \in Seq(Lengths), NEW done \in 0 .. Len(lens),
         NEW stray \in {0, 1}, NEW start, FramedBy(rest, lens, done, stray, start)
  PROVE  /\ Len(rest) \in Nat /\ Len(lens) \in Nat /\ done \in Nat /\ done <= Len(lens)
         /\ \A i \in done + 1 .. Len(lens) + 1 : start[i] \in Nat /\ 1 <= start[i] /\ start[i] <= Len(rest) + 1
         /\ start[done + 1] = 1 + stray
         /\ start[Len(lens) + 1] = Len(rest) + 1
         /\ stray = 1 => rest[1] = Newline
         /\ \A i, k \in done + 1 .. Len(lens) + 1 : i <= k => start[i] <= start[k]
<1>1. Len(rest) \in Nat /\ Len(lens) \in Nat /\ done \in Nat /\ done <= Len(lens)
  OBVIOUS
<1>2. ASSUME NEW i \in done + 1 .. Len(lens) + 1
      PROVE  start[i] \in Nat /\ 1 <= start[i] /\ start[i] <= Len(rest) + 1
  <2>1. start[i] \in 1 .. Len(rest) + 1
    BY DEF FramedBy
  <2> QED BY <1>1, <2>1
<1> QED BY <1>1, <1>2 DEF FramedBy

\* And of each line: line i begins at a and has n blocks and a newline.
LineAt(rest, lens, start, i, a, n) ==
  /\ a = start[i] /\ n = lens[i] /\ a >= 1 /\ n >= 1
  /\ start[i + 1] = a + n + 1 /\ a + n <= Len(rest)
  /\ rest[a + n] = Newline
  /\ \A j \in a .. a + n - 1 : rest[j] = i

LEMMA FramedLine ==
  ASSUME NEW rest \in Seq(Nat), NEW lens \in Seq(Lengths), NEW done \in 0 .. Len(lens),
         NEW stray \in {0, 1}, NEW start, FramedBy(rest, lens, done, stray, start),
         NEW i \in done + 1 .. Len(lens)
  PROVE  \E a, n \in Nat : LineAt(rest, lens, start, i, a, n)
<1>1. /\ Len(lens) \in Nat /\ Len(rest) \in Nat /\ i \in 1 .. Len(lens)
      /\ i \in done + 1 .. Len(lens) + 1 /\ i + 1 \in done + 1 .. Len(lens) + 1
  BY FramedSays
<1>2. lens[i] \in 1 .. MaxLength
  BY <1>1, ElementOfSeq DEF Lengths
<1>3. lens[i] \in Nat /\ lens[i] >= 1
  BY <1>2, JsonLinesAssumption
<1>4. start[i] \in Nat /\ start[i] >= 1 /\ start[i + 1] <= Len(rest) + 1
  BY <1>1, FramedSays
<1>5. /\ start[i + 1] = start[i] + lens[i] + 1
      /\ rest[start[i] + lens[i]] = Newline
      /\ \A j \in start[i] .. start[i] + lens[i] - 1 : rest[j] = i
  BY DEF FramedBy
<1>6. PICK a \in Nat, n \in Nat : a = start[i] /\ n = lens[i]
  BY <1>3, <1>4
<1>7. start[i + 1] = a + n + 1
  BY <1>5, <1>6
<1>8. rest[a + n] = Newline /\ \A j \in a .. a + n - 1 : rest[j] = i
  BY <1>5, <1>6
<1>9. a >= 1 /\ n >= 1 /\ a + n <= Len(rest)
  BY <1>1, <1>3, <1>4, <1>6, <1>7
<1>10. LineAt(rest, lens, start, i, a, n)
  BY <1>6, <1>7, <1>8, <1>9 DEF LineAt
<1> QED BY <1>10

\* The first newline is the stray one, or ends the first line.
LEMMA FirstNewline ==
  ASSUME NEW rest \in Seq(Nat), NEW lens \in Seq(Lengths), NEW done \in 0 .. Len(lens),
         NEW stray \in {0, 1}, NEW start, FramedBy(rest, lens, done, stray, start),
         NEW p \in 1 .. Len(rest), rest[p] = Newline, \A j \in 1 .. p - 1 : rest[j] # Newline
  PROVE  \/ stray = 1 /\ p = 1
         \/ /\ stray = 0 /\ done < Len(lens)
            /\ p = lens[done + 1] + 1
            /\ \A j \in 1 .. p - 1 : rest[j] = done + 1
<1>1. CASE stray = 1
  <2>1. rest[1] = Newline /\ p \in Nat
    BY <1>1, FramedSays
  <2> QED BY <1>1, <2>1
<1>2. CASE stray = 0
  <2>1. Len(rest) \in Nat /\ Len(lens) \in Nat /\ done \in Nat /\ done <= Len(lens) /\ p \in Nat
    BY FramedSays
  <2>2. start[done + 1] = 1 /\ start[Len(lens) + 1] = Len(rest) + 1
    BY <1>2, FramedSays
  <2>3. done < Len(lens)
    BY <2>1, <2>2
  <2>4. done + 1 \in done + 1 .. Len(lens)
    BY <2>1, <2>3
  <2>5. PICK a, n \in Nat : LineAt(rest, lens, start, done + 1, a, n)
    BY <2>4, FramedLine
  <2>6. a = 1
    BY <2>2, <2>5 DEF LineAt
  <2>7. rest[1 + n] = Newline
    BY <2>5, <2>6 DEF LineAt
  <2>8. \A j \in 1 .. 1 + n - 1 : rest[j] = done + 1
    BY <2>5, <2>6 DEF LineAt
  <2>9. \A j \in 1 .. n : rest[j] # Newline
    BY <2>1, <2>8 DEF Newline
  <2>10. p = n + 1
    BY <2>1, <2>7, <2>8, <2>9 DEF Newline
  <2>11. \A j \in 1 .. p - 1 : rest[j] = done + 1
    BY <2>8, <2>10
  <2> QED BY <1>2, <2>3, <2>5, <2>10, <2>11 DEF LineAt
<1> QED BY <1>1, <1>2

\* more is what follows the first c blocks of rest.
RestAfter(more, rest, c) ==
  /\ c \in 0 .. Len(rest)
  /\ more \in Seq(Nat) /\ Len(more) = Len(rest) - c
  /\ \A j \in 1 .. Len(more) : more[j] = rest[j + c]

\* What follows the first c blocks is framed, if they end with a line, or just
\* before its newline, or are the stray newline.
LEMMA FramedRest ==
  ASSUME NEW rest \in Seq(Nat), NEW lens \in Seq(Lengths), NEW done \in 0 .. Len(lens),
         NEW stray \in {0, 1}, NEW start, FramedBy(rest, lens, done, stray, start),
         NEW c, NEW more, RestAfter(more, rest, c),
         NEW done1 \in done .. Len(lens), NEW stray1 \in {0, 1},
         start[done1 + 1] = c + 1 + stray1,
         stray1 = 1 => rest[c + 1] = Newline
  PROVE  \E start1 : FramedBy(more, lens, done1, stray1, start1)
<1> DEFINE from == done1 + 1 .. Len(lens) + 1
           start1 == [i \in from |-> start[i] - c]
<1>0. /\ c \in 0 .. Len(rest) /\ more \in Seq(Nat) /\ Len(more) = Len(rest) - c
      /\ \A j \in 1 .. Len(more) : more[j] = rest[j + c]
  BY DEF RestAfter
<1>1. /\ Len(lens) \in Nat /\ Len(rest) \in Nat /\ Len(more) \in Nat /\ c \in Nat
      /\ done \in Nat /\ done1 \in Nat /\ done <= done1 /\ done1 <= Len(lens)
  BY <1>0, FramedSays
<1>2. /\ from \subseteq done + 1 .. Len(lens) + 1
      /\ done1 + 1 \in from /\ Len(lens) + 1 \in from
      /\ \A i \in from : done1 + 1 <= i
  BY <1>1
<1>3. \A i \in from : start1[i] = start[i] - c
  OBVIOUS
<1>4. ASSUME NEW i \in from
      PROVE  /\ start[i] \in Nat /\ start[i] >= c + 1 + stray1 /\ start[i] <= Len(rest) + 1
             /\ start1[i] \in Nat /\ start1[i] >= 1 /\ start1[i] <= Len(more) + 1
  <2>1. start[i] \in Nat /\ start[i] <= Len(rest) + 1
    BY <1>2, FramedSays
  <2>2. start[done1 + 1] <= start[i]
    <3>1. \A k, l \in done + 1 .. Len(lens) + 1 : k <= l => start[k] <= start[l]
      BY FramedSays
    <3>2. done1 + 1 \in done + 1 .. Len(lens) + 1 /\ i \in done + 1 .. Len(lens) + 1 /\ done1 + 1 <= i
      BY <1>2
    <3> QED BY <3>1, <3>2
  <2> HIDE DEF from, start1
  <2>3. PICK a \in Nat : a = start[i]
    BY <2>1
  <2>4. start1[i] = a - c /\ c + 1 + stray1 <= a /\ a <= Len(rest) + 1 /\ stray1 \in Nat
    BY <1>3, <2>1, <2>2, <2>3
  <2>5. PICK l \in Nat : l = Len(rest) /\ Len(more) = l - c
    BY <1>0, <1>1
  <2>6. /\ a >= c + 1 + stray1 /\ a <= l + 1
        /\ a - c \in Nat /\ a - c >= 1 /\ a - c <= l - c + 1
    BY <1>1, <2>4, <2>5
  <2> QED BY <2>3, <2>4, <2>5, <2>6
<1>5. start1 \in [from -> 1 .. Len(more) + 1]
  <2>1. \A i \in from : start[i] - c \in 1 .. Len(more) + 1
    BY <1>0, <1>1, <1>3, <1>4
  <2> QED BY <2>1
<1>6. start1[done1 + 1] = 1 + stray1
  BY <1>1, <1>2, <1>3
<1>7. start1[Len(lens) + 1] = Len(more) + 1
  <2>1. start[Len(lens) + 1] = Len(rest) + 1
    BY FramedSays
  <2> HIDE DEF from, start1
  <2>2. start1[Len(lens) + 1] = Len(rest) + 1 - c
    <3>1. start1[Len(lens) + 1] = start[Len(lens) + 1] - c
      BY <1>2, <1>3
    <3> QED BY <1>1, <2>1, <3>1
  <2>3. Len(more) = Len(rest) - c
    BY <1>0
  <2> QED BY <1>1, <2>2, <2>3
<1>8. stray1 = 1 => more[1] = Newline
  <2> SUFFICES ASSUME stray1 = 1 PROVE more[1] = Newline
    OBVIOUS
  <2>1. start[done1 + 1] <= Len(rest) + 1
    BY <1>2, <1>4
  <2>2. 1 \in 1 .. Len(more)
    BY <1>0, <1>1, <2>1
  <2>3. more[1] = rest[1 + c] /\ 1 + c = c + 1
    BY <1>0, <1>1, <2>2
  <2> QED BY <2>3
<1>9. ASSUME NEW i \in from, NEW k \in from, i <= k PROVE start1[i] <= start1[k]
  <2>1. start[i] <= start[k]
    BY <1>2, <1>9, FramedSays
  <2> HIDE DEF from, start1
  <2> QED BY <1>1, <1>3, <1>4, <2>1
<1>10. ASSUME NEW i \in done1 + 1 .. Len(lens)
       PROVE  /\ start1[i + 1] = start1[i] + lens[i] + 1
              /\ more[start1[i] + lens[i]] = Newline
              /\ \A j \in start1[i] .. start1[i] + lens[i] - 1 : more[j] = i
  <2>1. i \in from /\ i + 1 \in from /\ i \in done + 1 .. Len(lens)
    BY <1>1
  <2> HIDE DEF from, start1
  <2>2. PICK a, n \in Nat : LineAt(rest, lens, start, i, a, n)
    BY <2>1, FramedLine
  <2>3. PICK b \in Nat : b = start1[i]
    BY <1>4, <2>1
  <2>4. b = a - c /\ b >= 1 /\ start1[i + 1] = start[i + 1] - c /\ start1[i + 1] <= Len(more) + 1
    BY <1>3, <1>4, <2>1, <2>2, <2>3 DEF LineAt
  <2>5. start[i + 1] = a + n + 1
    BY <2>2 DEF LineAt
  <2>6. rest[a + n] = Newline
    BY <2>2 DEF LineAt
  <2>7. \A j \in a .. a + n - 1 : rest[j] = i
    BY <2>2 DEF LineAt
  <2>8. start1[i + 1] = b + n + 1
    BY <1>1, <2>4, <2>5
  <2>9. b + n \in 1 .. Len(more) /\ b + n + c = a + n
    BY <1>1, <2>4, <2>8
  <2>10. more[b + n] = Newline
    BY <1>0, <2>6, <2>9
  <2>11. ASSUME NEW j \in b .. b + n - 1 PROVE more[j] = i
    <3>1. j \in 1 .. Len(more) /\ j + c \in a .. a + n - 1
      BY <1>1, <2>4, <2>9
    <3> QED BY <1>0, <2>7, <3>1
  <2> QED BY <2>2, <2>3, <2>8, <2>10, <2>11 DEF LineAt
<1> HIDE DEF start1
<1>11. FramedBy(more, lens, done1, stray1, start1)
  BY <1>5, <1>6, <1>7, <1>8, <1>9, <1>10 DEF FramedBy
<1> QED BY <1>11

\* Another line at the end.
LEMMA FramedMore ==
  ASSUME NEW rest \in Seq(Nat), NEW lens \in Seq(Lengths), NEW done \in 0 .. Len(lens),
         NEW stray \in {0, 1}, NEW start, FramedBy(rest, lens, done, stray, start),
         NEW n \in Lengths, NEW more \in Seq(Nat), Len(more) = Len(rest) + n + 1,
         \A j \in 1 .. Len(rest) : more[j] = rest[j],
         \A j \in 1 .. n : more[Len(rest) + j] = Len(lens) + 1,
         more[Len(rest) + n + 1] = Newline
  PROVE  \E start1 : FramedBy(more, Append(lens, n), done, stray, start1)
<1> DEFINE lens1 == Append(lens, n)
           last == Len(lens) + 2
           start1 == [i \in done + 1 .. last |-> IF i = last THEN Len(more) + 1 ELSE start[i]]
<1>1. /\ Len(rest) \in Nat /\ Len(lens) \in Nat /\ Len(more) \in Nat /\ n \in Nat /\ n >= 1
      /\ done \in Nat /\ done <= Len(lens)
  BY FramedSays, JsonLinesAssumption DEF Lengths
<1>2. /\ Len(lens1) = Len(lens) + 1 /\ lens1[Len(lens) + 1] = n
      /\ \A i \in 1 .. Len(lens) : lens1[i] = lens[i]
  BY AppendProperties
<1>3. /\ start1[last] = Len(more) + 1
      /\ \A i \in done + 1 .. Len(lens) + 1 : start1[i] = start[i]
  BY <1>1
<1>4. \A i \in done + 1 .. Len(lens) + 1 :
         start[i] \in Nat /\ 1 <= start[i] /\ start[i] <= Len(rest) + 1
  BY FramedSays
<1>5. start[done + 1] = 1 + stray /\ start[Len(lens) + 1] = Len(rest) + 1
  BY FramedSays
<1>6. start1 \in [done + 1 .. last -> 1 .. Len(more) + 1]
  <2>1. ASSUME NEW i \in done + 1 .. last, i # last PROVE start[i] \in 1 .. Len(more) + 1
    <3>1. i \in done + 1 .. Len(lens) + 1
      BY <1>1, <2>1
    <3> QED BY <1>1, <1>4, <3>1
  <2> QED BY <1>1, <2>1
<1> HIDE DEF start1, lens1
<1>7. start1[done + 1] = 1 + stray
  BY <1>1, <1>3, <1>5
<1>8. stray = 1 => more[1] = Newline
  <2> SUFFICES ASSUME stray = 1 PROVE more[1] = Newline
    OBVIOUS
  <2>0. rest[1] = Newline
    BY FramedSays
  <2>1. start[done + 1] = 2 /\ rest[1] = Newline
    BY <1>5, <2>0
  <2>2. 1 \in 1 .. Len(rest)
    <3>1. done + 1 \in done + 1 .. Len(lens) + 1
      BY <1>1
    <3>2. start[done + 1] <= Len(rest) + 1
      BY <1>4, <3>1
    <3>3. PICK l \in Nat : l = Len(rest)
      BY <1>1
    <3>4. 2 <= l + 1
      BY <2>1, <3>2, <3>3
    <3> QED BY <3>3, <3>4
  <2> QED BY <2>1, <2>2
<1>9. ASSUME NEW i \in done + 1 .. last, NEW k \in done + 1 .. last, i <= k
      PROVE  start1[i] <= start1[k]
  <2>1. CASE i = last
    <3>1. k = last
      BY <1>1, <1>9, <2>1
    <3> QED BY <1>1, <1>3, <2>1, <3>1
  <2>2. CASE i # last /\ k = last
    <3>1. i \in done + 1 .. Len(lens) + 1
      BY <1>1, <2>2
    <3>2. start1[i] = start[i] /\ start[i] \in Nat /\ start[i] <= Len(rest) + 1
      BY <1>3, <1>4, <3>1
    <3>3. Len(rest) + 1 <= Len(more) + 1 /\ start1[k] = Len(more) + 1
      BY <1>1, <1>3, <2>2
    <3>4. PICK a \in Nat : a = start[i]
      BY <3>2
    <3>5. PICK l \in Nat, m \in Nat : l = Len(rest) /\ m = Len(more)
      BY <1>1
    <3>6. a <= l + 1 /\ l + 1 <= m + 1 /\ start1[k] = m + 1 /\ start1[i] = a
      BY <3>2, <3>3, <3>4, <3>5
    <3> QED BY <3>4, <3>5, <3>6
  <2>3. CASE i # last /\ k # last
    <3>1. i \in done + 1 .. Len(lens) + 1
      BY <1>1, <2>3
    <3>2. k \in done + 1 .. Len(lens) + 1
      BY <1>1, <2>3
    <3>3. start[i] <= start[k]
      BY <1>9, <3>1, <3>2, FramedSays
    <3> QED BY <1>3, <3>1, <3>2, <3>3
  <2> QED BY <2>1, <2>2, <2>3
<1>10. ASSUME NEW i \in done + 1 .. Len(lens1)
       PROVE  /\ start1[i + 1] = start1[i] + lens1[i] + 1
              /\ more[start1[i] + lens1[i]] = Newline
              /\ \A j \in start1[i] .. start1[i] + lens1[i] - 1 : more[j] = i
  <2>1. CASE i = Len(lens) + 1
    <3>1. start1[i] = Len(rest) + 1 /\ start1[i + 1] = Len(more) + 1 /\ lens1[i] = n
      <4>1. i \in done + 1 .. Len(lens) + 1 /\ i + 1 = last
        BY <1>1, <2>1
      <4> QED BY <1>2, <1>3, <1>5, <2>1, <4>1
    <3>2. ASSUME NEW j \in Len(rest) + 1 .. Len(rest) + 1 + n - 1 PROVE more[j] = i
      <4>1. j - Len(rest) \in 1 .. n /\ Len(rest) + (j - Len(rest)) = j
        BY <1>1
      <4> QED BY <4>1, <2>1
    <3>3. Len(rest) + 1 + n = Len(rest) + n + 1 /\ Len(more) + 1 = Len(rest) + 1 + n + 1
      BY <1>1
    <3> QED BY <3>1, <3>2, <3>3
  <2>2. CASE i # Len(lens) + 1
    <3>0. i \in Nat /\ done + 1 <= i /\ i <= Len(lens)
      <4>1. PICK l \in Nat, d \in Nat : l = Len(lens) /\ d = done /\ Len(lens1) = l + 1
        BY <1>1, <1>2
      <4>2. i \in d + 1 .. l + 1 /\ i # l + 1
        BY <2>2, <4>1
      <4>3. i \in Nat /\ d + 1 <= i /\ i <= l
        BY <4>2
      <4> QED BY <4>1, <4>3
    <3>1. /\ i \in done + 1 .. Len(lens) /\ i \in done + 1 .. Len(lens) + 1
          /\ i + 1 \in done + 1 .. Len(lens) + 1 /\ i \in 1 .. Len(lens)
      BY <1>1, <3>0
    <3>2. start1[i] = start[i] /\ start1[i + 1] = start[i + 1] /\ lens1[i] = lens[i]
      BY <1>2, <1>3, <3>1
    <3>3. PICK a, m \in Nat : LineAt(rest, lens, start, i, a, m)
      BY <3>1, FramedLine
    <3>4. start1[i + 1] = a + m + 1
      BY <3>2, <3>3 DEF LineAt
    <3>5. a >= 1 /\ a + m <= Len(rest)
      BY <3>3 DEF LineAt
    <3>6. rest[a + m] = Newline
      BY <3>3 DEF LineAt
    <3>7. \A j \in a .. a + m - 1 : rest[j] = i
      BY <3>3 DEF LineAt
    <3>8. a + m \in 1 .. Len(rest) /\ \A j \in a .. a + m - 1 : j \in 1 .. Len(rest)
      BY <1>1, <3>5
    <3>9. more[a + m] = Newline
      BY <3>6, <3>8
    <3>10. \A j \in a .. a + m - 1 : more[j] = i
      BY <3>7, <3>8
    <3> QED BY <3>2, <3>3, <3>4, <3>9, <3>10 DEF LineAt
  <2> QED BY <2>1, <2>2
<1>11. FramedBy(more, lens1, done, stray, start1)
  <2>1. Len(lens1) + 1 = last
    BY <1>1, <1>2
  <2> QED BY <2>1, <1>3, <1>6, <1>7, <1>8, <1>9, <1>10 DEF FramedBy
<1> QED BY <1>11 DEF lens1

-----------------------------------------------------------------------------
(***************************************************************************)
(* The rest, block by block.                                               *)
(***************************************************************************)

LEMMA Concat3 ==
  ASSUME NEW r \in Seq(Nat), NEW s \in Seq(Nat), NEW t \in Seq(Nat)
  PROVE  /\ r \o s \o t \in Seq(Nat)
         /\ Len(r) \in Nat /\ Len(s) \in Nat /\ Len(t) \in Nat
         /\ Len(r \o s \o t) = Len(r) + Len(s) + Len(t)
         /\ \A j \in 1 .. Len(r) : (r \o s \o t)[j] = r[j]
         /\ \A j \in 1 .. Len(s) : (r \o s \o t)[Len(r) + j] = s[j]
         /\ \A j \in 1 .. Len(t) : (r \o s \o t)[Len(r) + Len(s) + j] = t[j]
<1>1. Len(r) \in Nat /\ Len(s) \in Nat /\ Len(t) \in Nat
  OBVIOUS
<1>2. /\ r \o s \in Seq(Nat) /\ Len(r \o s) = Len(r) + Len(s)
      /\ \A i \in 1 .. Len(r) + Len(s) : (r \o s)[i] = IF i <= Len(r) THEN r[i] ELSE s[i - Len(r)]
  BY ConcatProperties
<1>3. PICK u \in Seq(Nat) : u = r \o s
  BY <1>2
<1>4. /\ u \o t \in Seq(Nat) /\ Len(u \o t) = Len(u) + Len(t)
      /\ \A i \in 1 .. Len(u) + Len(t) : (u \o t)[i] = IF i <= Len(u) THEN u[i] ELSE t[i - Len(u)]
  BY ConcatProperties
<1>5. Len(u) = Len(r) + Len(s)
  BY <1>2, <1>3
<1>6. \A j \in 1 .. Len(r) : u[j] = r[j]
  BY <1>1, <1>2, <1>3
<1>7. ASSUME NEW j \in 1 .. Len(s) PROVE u[Len(r) + j] = s[j]
  <2>1. Len(r) + j \in 1 .. Len(r) + Len(s) /\ ~(Len(r) + j <= Len(r)) /\ Len(r) + j - Len(r) = j
    BY <1>1
  <2> QED BY <1>2, <1>3, <2>1
<1>8. \A j \in 1 .. Len(r) : (u \o t)[j] = r[j]
  BY <1>1, <1>4, <1>5, <1>6
<1>9. ASSUME NEW j \in 1 .. Len(s) PROVE (u \o t)[Len(r) + j] = s[j]
  <2>1. Len(r) + j \in 1 .. Len(u) + Len(t) /\ Len(r) + j <= Len(u)
    BY <1>1, <1>5
  <2> QED BY <1>4, <1>7, <2>1
<1>10. ASSUME NEW j \in 1 .. Len(t) PROVE (u \o t)[Len(u) + j] = t[j]
  <2>1. Len(u) + j \in 1 .. Len(u) + Len(t) /\ ~(Len(u) + j <= Len(u)) /\ Len(u) + j - Len(u) = j
    BY <1>1, <1>5
  <2> QED BY <1>4, <2>1
<1> QED BY <1>1, <1>3, <1>4, <1>5, <1>8, <1>9, <1>10

LEMMA Associative ==
  ASSUME NEW r \in Seq(Nat), NEW s \in Seq(Nat), NEW t \in Seq(Nat)
  PROVE  (r \o s) \o t = r \o (s \o t)
<1> DEFINE left  == (r \o s) \o t
           right == r \o (s \o t)
<1>1. /\ left \in Seq(Nat) /\ Len(r) \in Nat /\ Len(s) \in Nat /\ Len(t) \in Nat
      /\ Len(left) = Len(r) + Len(s) + Len(t)
      /\ \A j \in 1 .. Len(r) : left[j] = r[j]
      /\ \A j \in 1 .. Len(s) : left[Len(r) + j] = s[j]
      /\ \A j \in 1 .. Len(t) : left[Len(r) + Len(s) + j] = t[j]
  BY Concat3
<1>2. /\ s \o t \in Seq(Nat) /\ Len(s \o t) = Len(s) + Len(t)
      /\ \A i \in 1 .. Len(s) + Len(t) : (s \o t)[i] = IF i <= Len(s) THEN s[i] ELSE t[i - Len(s)]
  BY ConcatProperties
<1>3. PICK u \in Seq(Nat) :
         /\ u = s \o t /\ Len(u) = Len(s) + Len(t)
         /\ \A i \in 1 .. Len(s) + Len(t) : u[i] = IF i <= Len(s) THEN s[i] ELSE t[i - Len(s)]
  BY <1>2
<1>4. /\ r \o u \in Seq(Nat) /\ Len(r \o u) = Len(r) + Len(u)
      /\ \A i \in 1 .. Len(r) + Len(u) : (r \o u)[i] = IF i <= Len(r) THEN r[i] ELSE u[i - Len(r)]
  BY ConcatProperties
<1> HIDE DEF left
<1>5. /\ right \in Seq(Nat) /\ Len(right) = Len(r) + Len(u)
      /\ \A i \in 1 .. Len(r) + Len(u) : right[i] = IF i <= Len(r) THEN r[i] ELSE u[i - Len(r)]
  BY <1>4, <1>3
<1> HIDE DEF right
<1>6. Len(left) = Len(right)
  BY <1>1, <1>3, <1>5
<1>7. ASSUME NEW i \in 1 .. Len(left) PROVE left[i] = right[i]
  <2>1. i \in 1 .. Len(r) + Len(u)
    BY <1>5, <1>6
  <2>2. CASE i <= Len(r)
    <3>1. i \in 1 .. Len(r) /\ right[i] = r[i]
      BY <1>1, <1>5, <2>1, <2>2
    <3> QED BY <1>1, <3>1
  <2>3. CASE ~(i <= Len(r))
    <3>1. Len(r) + Len(u) = Len(r) + (Len(s) + Len(t))
      BY <1>3
    <3>2. i - Len(r) \in 1 .. Len(s) + Len(t)
      BY <1>1, <2>1, <2>3, <3>1
    <3>3. PICK k \in 1 .. Len(s) + Len(t) : k = i - Len(r)
      BY <3>2
    <3>4. right[i] = u[k]
      BY <1>5, <2>1, <2>3, <3>3
    <3>5. CASE k <= Len(s)
      <4>1. k \in 1 .. Len(s) /\ i = Len(r) + k /\ u[k] = s[k]
        BY <1>1, <1>3, <3>3, <3>5
      <4> QED BY <1>1, <3>4, <4>1
    <3>6. CASE ~(k <= Len(s))
      <4>1. k - Len(s) \in 1 .. Len(t) /\ i = Len(r) + Len(s) + (k - Len(s))
        BY <1>1, <3>3, <3>6
      <4>2. u[k] = t[k - Len(s)]
        BY <1>3, <3>6
      <4> QED BY <1>1, <3>4, <4>1, <4>2
    <3> QED BY <3>5, <3>6
  <2> QED BY <2>2, <2>3
<1>8. left = right
  BY <1>1, <1>5, <1>6, <1>7, SeqEqual
<1> QED BY <1>8 DEF left, right

\* What Consume leaves.
LEMMA ConsumeLeaves ==
  ASSUME NEW s \in Seq(Nat), NEW n \in 0 .. Len(s)
  PROVE  /\ Consume(s, n) \in Seq(Nat)
         /\ Len(Consume(s, n)) = Len(s) - n
         /\ \A j \in 1 .. Len(s) - n : Consume(s, n)[j] = s[j + n]
<1>1. Len(s) \in Nat /\ n \in Nat /\ n <= Len(s)
  OBVIOUS
<1>2. \A i \in n + 1 .. Len(s) : s[i] \in Nat
  BY <1>1, ElementOfSeq
<1>3. /\ SubSeq(s, n + 1, Len(s)) \in Seq(Nat)
      /\ Len(SubSeq(s, n + 1, Len(s))) = IF n + 1 <= Len(s) THEN Len(s) - (n + 1) + 1 ELSE 0
      /\ \A i \in 1 .. Len(s) - (n + 1) + 1 : SubSeq(s, n + 1, Len(s))[i] = s[n + 1 + i - 1]
  BY <1>1, <1>2, SubSeqProperties
<1>4. Len(s) - (n + 1) + 1 = Len(s) - n /\ \A i \in Nat : n + 1 + i - 1 = i + n
  BY <1>1
<1>5. Len(SubSeq(s, n + 1, Len(s))) = Len(s) - n
  BY <1>1, <1>3
<1>6. \A i \in 1 .. Len(s) - n : SubSeq(s, n + 1, Len(s))[i] = s[i + n]
  BY <1>3, <1>4
<1> QED BY <1>3, <1>5, <1>6 DEF Consume

\* What precedes position p.
LEMMA PrefixOf ==
  ASSUME NEW s \in Seq(Nat), NEW n \in 0 .. Len(s)
  PROVE  /\ SubSeq(s, 1, n) \in Seq(Nat)
         /\ Len(SubSeq(s, 1, n)) = n
         /\ \A j \in 1 .. n : SubSeq(s, 1, n)[j] = s[j]
<1>1. Len(s) \in Nat /\ n \in Nat /\ n <= Len(s)
  OBVIOUS
<1>2. \A i \in 1 .. n : s[i] \in Nat
  BY <1>1, ElementOfSeq
<1>3. /\ SubSeq(s, 1, n) \in Seq(Nat)
      /\ Len(SubSeq(s, 1, n)) = IF 1 <= n THEN n - 1 + 1 ELSE 0
      /\ \A i \in 1 .. n - 1 + 1 : SubSeq(s, 1, n)[i] = s[1 + i - 1]
  BY <1>1, <1>2, SubSeqProperties
<1>4. Len(SubSeq(s, 1, n)) = n
  BY <1>1, <1>3
<1>5. \A i \in 1 .. n : SubSeq(s, 1, n)[i] = s[i]
  BY <1>1, <1>3
<1> QED BY <1>3, <1>4, <1>5

\* Dropping the first blocks of held, and the buffer, drops the first blocks.
LEMMA ConsumedRest ==
  ASSUME NEW r \in Seq(Nat), NEW s \in Seq(Nat), NEW t \in Seq(Nat), NEW n \in 0 .. Len(s)
  PROVE  RestAfter(<<>> \o Consume(s, n) \o t, r \o s \o t, Len(r) + n)
<1> DEFINE u == Consume(s, n)
           more == <<>> \o u \o t
           all == r \o s \o t
<1>1. Len(s) \in Nat /\ n \in Nat /\ n <= Len(s) /\ <<>> \in Seq(Nat) /\ Len(<<>>) = 0
  OBVIOUS
<1>2. u \in Seq(Nat) /\ Len(u) = Len(s) - n /\ \A j \in 1 .. Len(s) - n : u[j] = s[j + n]
  BY ConsumeLeaves
<1> HIDE DEF u
<1>3. /\ more \in Seq(Nat) /\ Len(t) \in Nat /\ Len(u) \in Nat
      /\ Len(more) = Len(u) + Len(t)
      /\ \A j \in 1 .. Len(u) + Len(t) : more[j] = IF j <= Len(u) THEN u[j] ELSE t[j - Len(u)]
  <2>1. more = u \o t
    BY <1>2, ConcatEmptySeq
  <2>2. /\ u \o t \in Seq(Nat) /\ Len(u \o t) = Len(u) + Len(t)
        /\ \A j \in 1 .. Len(u) + Len(t) : (u \o t)[j] = IF j <= Len(u) THEN u[j] ELSE t[j - Len(u)]
    BY <1>2, ConcatProperties
  <2> QED BY <1>2, <2>1, <2>2
<1>4. /\ all \in Seq(Nat) /\ Len(r) \in Nat
      /\ Len(all) = Len(r) + Len(s) + Len(t)
      /\ \A j \in 1 .. Len(s) : all[Len(r) + j] = s[j]
      /\ \A j \in 1 .. Len(t) : all[Len(r) + Len(s) + j] = t[j]
  BY Concat3
<1> HIDE DEF more, all
<1>5. Len(more) = Len(all) - (Len(r) + n) /\ Len(r) + n \in 0 .. Len(all)
  BY <1>1, <1>2, <1>3, <1>4
<1>6. ASSUME NEW j \in 1 .. Len(more) PROVE more[j] = all[j + (Len(r) + n)]
  <2>1. CASE j <= Len(u)
    <3>1. j \in 1 .. Len(u) /\ j \in 1 .. Len(s) - n /\ j + n \in 1 .. Len(s)
      BY <1>1, <1>2, <1>3, <2>1
    <3>2. more[j] = s[j + n]
      <4>1. j \in 1 .. Len(u) + Len(t)
        BY <1>3, <2>1
      <4>2. more[j] = u[j]
        BY <1>3, <2>1, <4>1
      <4> QED BY <1>2, <3>1, <4>2
    <3>3. all[Len(r) + (j + n)] = s[j + n]
      BY <1>4, <3>1
    <3>4. Len(r) + (j + n) = j + (Len(r) + n)
      BY <1>1, <1>4
    <3> QED BY <3>2, <3>3, <3>4
  <2>2. CASE ~(j <= Len(u))
    <3> DEFINE k == j - Len(u)
    <3>1. k \in 1 .. Len(t) /\ j \in 1 .. Len(u) + Len(t)
      BY <1>3, <2>2
    <3>2. more[j] = t[k]
      BY <1>3, <2>2, <3>1
    <3>3. all[Len(r) + Len(s) + k] = t[k]
      BY <1>4, <3>1
    <3>4. Len(r) + Len(s) + k = j + (Len(r) + n)
      BY <1>1, <1>2, <1>3, <1>4
    <3> QED BY <3>2, <3>3, <3>4
  <2> QED BY <2>1, <2>2
<1>7. RestAfter(more, all, Len(r) + n)
  BY <1>3, <1>5, <1>6 DEF RestAfter
<1> QED BY <1>7 DEF more, all, u

-----------------------------------------------------------------------------
(***************************************************************************)
(* The invariant of a pipe.                                                *)
(***************************************************************************)

\* What the reader has yet to take.
Rest(p) == p.buffer \o p.held \o p.wire

\* The lines that came out are the first ones, and the rest is in frames; it begins
\* with a stray newline only behind a line that came in pieces.
RestFramed(p) ==
  \E done \in 0 .. Len(p.lengths), stray \in {0, 1} : \E start :
    /\ FramedBy(Rest(p), p.lengths, done, stray, start)
    /\ {p.taken[j] : j \in 1 .. Len(p.taken)} \ {Empty} = 1 .. done
    /\ p.cut = {} => stray = 0 /\ done = Len(p.taken)

\* Where recv_raw is in its loop.
LastLenIs(p) ==
  /\ p.last_len = NoLen <=> p.buffer # <<>>
  /\ p.last_len \in 1 .. Capacity => p.last_len = Len(p.held) /\ Position(p.held) = 0

\* Until a line came in pieces, the k-th recv returns the k-th line.
OwnUntilCut(p) ==
  \A k \in 1 .. Len(p.taken) : (\A j \in 1 .. k - 1 : j \notin p.cut) => p.taken[k] = k

PipeOK(p) ==
  /\ p \in Pipe
  /\ Len(p.held) <= Capacity
  /\ p.cut \subseteq 1 .. Len(p.taken)

PipeInv(p) ==
  /\ PipeOK(p)
  /\ RestFramed(p)
  /\ LastLenIs(p)
  /\ Intact(p)
  /\ OwnUntilCut(p)

\* What the types say, in the pieces that are used.
LEMMA PipeSays ==
  ASSUME NEW p, PipeOK(p)
  PROVE  /\ p.buffer \in Seq(Nat) /\ p.held \in Seq(Nat) /\ p.wire \in Seq(Nat)
         /\ p.buffer \in Seq(Nat \ {Newline})
         /\ p.lengths \in Seq(Lengths) /\ p.taken \in Seq(Nat)
         /\ p.last_len \in 0 .. NoLen /\ p.last_len \in Nat
         /\ Len(p.buffer) \in Nat /\ Len(p.held) \in Nat /\ Len(p.wire) \in Nat
         /\ Len(p.lengths) \in Nat /\ Len(p.taken) \in Nat
         /\ Len(p.held) <= Capacity
         /\ Capacity \in Nat /\ Capacity >= 1 /\ NoLen \in Nat /\ NoLen = Capacity + 1
<1>1. /\ p.buffer \in Seq(Nat \ {Newline}) /\ p.held \in Seq(Nat) /\ p.wire \in Seq(Nat)
      /\ p.lengths \in Seq(Lengths) /\ p.taken \in Seq(Nat) /\ p.last_len \in 0 .. NoLen
  BY DEF PipeOK, Pipe
<1>2. Nat \ {Newline} \subseteq Nat
  OBVIOUS
<1>3. p.buffer \in Seq(Nat)
  BY <1>1, <1>2, SeqMonotonic
<1>4. /\ Len(p.buffer) \in Nat /\ Len(p.held) \in Nat /\ Len(p.wire) \in Nat
      /\ Len(p.lengths) \in Nat /\ Len(p.taken) \in Nat
  BY <1>1, <1>3
<1>5. Capacity \in Nat /\ Capacity >= 1 /\ NoLen \in Nat /\ NoLen = Capacity + 1
  BY JsonLinesAssumption DEF NoLen
<1>6. Len(p.held) <= Capacity
  BY DEF PipeOK
<1> QED BY <1>1, <1>3, <1>4, <1>5, <1>6

LEMMA RestSays ==
  ASSUME NEW p, PipeOK(p)
  PROVE  /\ Rest(p) \in Seq(Nat) /\ Len(Rest(p)) \in Nat
         /\ Len(Rest(p)) = Len(p.buffer) + Len(p.held) + Len(p.wire)
         /\ \A j \in 1 .. Len(p.buffer) : Rest(p)[j] = p.buffer[j]
         /\ \A j \in 1 .. Len(p.held) : Rest(p)[Len(p.buffer) + j] = p.held[j]
<1>1. p.buffer \in Seq(Nat) /\ p.held \in Seq(Nat) /\ p.wire \in Seq(Nat)
  BY PipeSays
<1>2. PICK r \in Seq(Nat), s \in Seq(Nat), t \in Seq(Nat) : r = p.buffer /\ s = p.held /\ t = p.wire
  BY <1>1
<1>3. PICK u : u = r \o s \o t
  OBVIOUS
<1>4. /\ u \in Seq(Nat) /\ Len(u) = Len(r) + Len(s) + Len(t)
      /\ \A j \in 1 .. Len(r) : u[j] = r[j]
      /\ \A j \in 1 .. Len(s) : u[Len(r) + j] = s[j]
  BY <1>3, Concat3
<1>5. Rest(p) = u
  BY <1>2, <1>3 DEF Rest
<1>6. Len(u) \in Nat
  BY <1>4
<1> QED BY <1>2, <1>4, <1>5, <1>6

\* The newline in the BufReader.
LEMMA HeldNewline ==
  ASSUME NEW p, PipeOK(p), Position(p.held) # 0
  PROVE  /\ Position(p.held) \in 1 .. Len(p.held) /\ Position(p.held) \in Nat
         /\ Position(p.held) - 1 \in 0 .. Len(p.held) /\ Position(p.held) \in 0 .. Len(p.held)
         /\ Position(p.held) - 1 # Position(p.held)
<1>1. p.held \in Seq(Nat) /\ Len(p.held) \in Nat
  BY PipeSays
<1>2. Position(p.held) \in 0 .. Len(p.held)
  BY <1>1, PositionIsFirst
<1> QED BY <1>1, <1>2

\* A new pipe.
LEMMA NewPipeInv == PipeInv(NewPipe)
<1>1. Len(<<>>) = 0 /\ DOMAIN <<>> = {} /\ \A S : <<>> \in Seq(S)
  OBVIOUS
<1>2. /\ NewPipe.wire = <<>> /\ NewPipe.held = <<>> /\ NewPipe.last_len = 0
      /\ NewPipe.buffer = <<>> /\ NewPipe.lengths = <<>> /\ NewPipe.taken = <<>> /\ NewPipe.cut = {}
  BY DEF NewPipe
<1>3. PipeOK(NewPipe)
  <2>1. 0 \in 0 .. NoLen /\ 0 <= Capacity
    BY JsonLinesAssumption DEF NoLen
  <2>2. NewPipe \in Pipe
    BY <1>1, <2>1 DEF NewPipe, Pipe
  <2> QED BY <1>1, <1>2, <2>1, <2>2 DEF PipeOK
<1>4. RestFramed(NewPipe)
  <2>1. Rest(NewPipe) = <<>>
    BY <1>1, <1>2, ConcatEmptySeq DEF Rest
  <2> DEFINE start == [i \in {1} |-> 1]
  <2>2. FramedBy(<<>>, <<>>, 0, 0, start)
    BY <1>1 DEF FramedBy
  <2>3. 0 \in 0 .. Len(NewPipe.lengths) /\ Len(NewPipe.taken) = 0
    BY <1>1, <1>2
  <2>4. {NewPipe.taken[j] : j \in 1 .. Len(NewPipe.taken)} \ {Empty} = 1 .. 0
    BY <2>3
  <2> HIDE DEF start
  <2> QED BY <1>2, <2>1, <2>2, <2>3, <2>4 DEF RestFramed
<1>5. LastLenIs(NewPipe)
  BY <1>2, JsonLinesAssumption DEF LastLenIs, NoLen
<1>6. Intact(NewPipe) /\ OwnUntilCut(NewPipe)
  BY <1>1, <1>2 DEF Intact, OwnUntilCut
<1> QED BY <1>3, <1>4, <1>5, <1>6 DEF PipeInv

\* What the reader took does not change.
SameTaken(p, q) == q.taken = p.taken /\ q.cut = p.cut

LEMMA SameTakenKeeps ==
  ASSUME NEW p, NEW q, PipeInv(p), SameTaken(p, q)
  PROVE  Intact(q) /\ OwnUntilCut(q)
BY DEF PipeInv, SameTaken, Intact, OwnUntilCut
-----------------------------------------------------------------------------
(***************************************************************************)
(* The steps that take no line.                                            *)
(***************************************************************************)

\* The invariant of a pipe whose rest, lines and history are as before.
LEMMA SameRestKeeps ==
  ASSUME NEW p, NEW q, PipeInv(p), PipeOK(q), Rest(q) = Rest(p), q.lengths = p.lengths,
         SameTaken(p, q), LastLenIs(q)
  PROVE  PipeInv(q)
<1>1. RestFramed(q)
  BY DEF PipeInv, RestFramed, SameTaken
<1> QED BY <1>1, SameTakenKeeps DEF PipeInv

LEMMA NoteLengthInv == ASSUME NEW p, NEW q, PipeInv(p), NoteLength(p, q) PROVE PipeInv(q)
<1>1. PipeOK(p) /\ LastLenIs(p)
  BY DEF PipeInv
<1>2. /\ p.held # <<>> /\ Position(p.held) = 0 /\ p.last_len < Len(p.held)
      /\ q = [p EXCEPT !.last_len = Len(p.held)]
  BY DEF NoteLength
<1>3. /\ q.wire = p.wire /\ q.held = p.held /\ q.last_len = Len(p.held) /\ q.buffer = p.buffer
      /\ q.lengths = p.lengths /\ q.taken = p.taken /\ q.cut = p.cut
  BY <1>1, <1>2 DEF PipeOK, Pipe
<1>4. Len(p.held) \in 1 .. Capacity /\ Len(p.held) \in 0 .. NoLen /\ Len(p.held) # NoLen /\ p.last_len # NoLen
  BY <1>1, <1>2, PipeSays
<1>5. PipeOK(q)
  <2>1. q \in Pipe
    BY <1>1, <1>2, <1>4 DEF PipeOK, Pipe
  <2> QED BY <1>1, <1>3, <2>1 DEF PipeOK
<1>6. Rest(q) = Rest(p)
  BY <1>3 DEF Rest
<1>7. LastLenIs(q)
  BY <1>1, <1>2, <1>3, <1>4 DEF LastLenIs
<1> QED BY <1>3, <1>5, <1>6, <1>7, SameRestKeeps DEF SameTaken

LEMMA CollectInv == ASSUME NEW p, NEW q, PipeInv(p), Collect(p, q) PROVE PipeInv(q)
<1>1. PipeOK(p)
  BY DEF PipeInv
<1>2. /\ p.held # <<>> /\ Position(p.held) = 0
      /\ q = [p EXCEPT !.buffer = p.buffer \o p.held, !.held = <<>>, !.last_len = NoLen]
  BY <1>1 DEF Collect, PipeOK, Pipe
<1>3. /\ q.wire = p.wire /\ q.held = <<>> /\ q.last_len = NoLen /\ q.buffer = p.buffer \o p.held
      /\ q.lengths = p.lengths /\ q.taken = p.taken /\ q.cut = p.cut
  BY <1>1, <1>2 DEF PipeOK, Pipe
<1>4. p.held \in Seq(Nat \ {Newline})
  <2>1. ASSUME NEW j \in 1 .. Len(p.held) PROVE p.held[j] \in Nat \ {Newline}
    <3>1. p.held \in Seq(Nat)
      BY <1>1, PipeSays
    <3>2. p.held[j] # Newline
      BY <1>2, <3>1, PositionIsFirst
    <3>3. p.held[j] \in Nat
      BY <3>1, ElementOfSeq
    <3> QED BY <3>2, <3>3
  <2>2. p.held = [j \in 1 .. Len(p.held) |-> p.held[j]] /\ Len(p.held) \in Nat
    <3>1. p.held \in Seq(Nat)
      BY <1>1, PipeSays
    <3> QED BY <3>1
  <2> HIDE DEF Newline
  <2>3. [j \in 1 .. Len(p.held) |-> p.held[j]] \in Seq(Nat \ {Newline})
    BY <2>1, <2>2, IsASeq
  <2> QED BY <2>2, <2>3
<1>5. q.buffer \in Seq(Nat \ {Newline}) /\ Len(q.buffer) = Len(p.buffer) + Len(p.held)
  <2>1. p.buffer \in Seq(Nat \ {Newline})
    BY <1>1, PipeSays
  <2> QED BY <1>3, <1>4, <2>1, ConcatProperties
<1>6. PipeOK(q)
  <2>1. NoLen \in 0 .. NoLen /\ <<>> \in Seq(Nat) /\ Len(<<>>) = 0 /\ 0 <= Capacity
    BY <1>1, PipeSays
  <2>2. q \in Pipe
    BY <1>1, <1>2, <1>3, <1>5, <2>1 DEF PipeOK, Pipe
  <2> QED BY <1>1, <1>3, <2>1, <2>2 DEF PipeOK
<1>7. Rest(q) = Rest(p)
  <2>1. p.buffer \o p.held \in Seq(Nat)
    <3>1. p.buffer \in Seq(Nat) /\ p.held \in Seq(Nat)
      BY <1>1, PipeSays
    <3> QED BY <3>1, ConcatProperties
  <2>2. (p.buffer \o p.held) \o <<>> = p.buffer \o p.held
    BY <2>1, ConcatEmptySeq
  <2> QED BY <1>3, <2>2 DEF Rest
<1>8. LastLenIs(q)
  <2>1. Len(p.held) # 0
    <3>1. p.held \in Seq(Nat)
      BY <1>1, PipeSays
    <3> QED BY <1>2, <3>1
  <2>2. Len(q.buffer) # 0
    <3>1. PICK a \in Nat, b \in Nat : a = Len(p.buffer) /\ b = Len(p.held)
      BY <1>1, PipeSays
    <3>2. b # 0 /\ Len(q.buffer) = a + b
      BY <1>5, <2>1, <3>1
    <3> QED BY <3>2
  <2>3. q.buffer # <<>>
    BY <2>2
  <2>4. NoLen \notin 1 .. Capacity
    BY <1>1, PipeSays
  <2> QED BY <1>3, <2>3, <2>4 DEF LastLenIs
<1> QED BY <1>3, <1>6, <1>7, <1>8, SameRestKeeps DEF SameTaken

\* Cutting a sequence and putting it together again.
LEMMA CutSeq ==
  ASSUME NEW s \in Seq(Nat), NEW n \in 0 .. Len(s)
  PROVE  SubSeq(s, 1, n) \o Consume(s, n) = s
<1>1. PICK u, v : u = SubSeq(s, 1, n) /\ v = Consume(s, n)
  OBVIOUS
<1>2. u \in Seq(Nat) /\ Len(u) = n /\ \A j \in 1 .. n : u[j] = s[j]
  BY <1>1, PrefixOf
<1>3. v \in Seq(Nat) /\ Len(v) = Len(s) - n /\ \A j \in 1 .. Len(s) - n : v[j] = s[j + n]
  BY <1>1, ConsumeLeaves
<1>4. PICK all : all = u \o v
  OBVIOUS
<1>5. /\ all \in Seq(Nat) /\ Len(all) = Len(u) + Len(v)
      /\ \A j \in 1 .. Len(u) + Len(v) : all[j] = IF j <= Len(u) THEN u[j] ELSE v[j - Len(u)]
  BY <1>2, <1>3, <1>4, ConcatProperties
<1>6. Len(s) \in Nat /\ n \in Nat /\ n <= Len(s)
  OBVIOUS
<1>7. Len(all) = Len(s)
  BY <1>2, <1>3, <1>5, <1>6
<1>8. ASSUME NEW j \in 1 .. Len(s) PROVE all[j] = s[j]
  <2>1. j \in 1 .. Len(u) + Len(v)
    BY <1>5, <1>7
  <2>2. CASE j <= n
    BY <1>2, <1>5, <1>6, <2>1, <2>2
  <2>3. CASE ~(j <= n)
    <3>1. j - n \in 1 .. Len(s) - n /\ j - n + n = j
      BY <1>6, <2>3
    <3>2. all[j] = v[j - n]
      BY <1>2, <1>5, <2>1, <2>3
    <3> QED BY <1>3, <3>1, <3>2
  <2> QED BY <2>2, <2>3
<1>9. all = s
  BY <1>5, <1>7, <1>8, SeqEqual
<1> QED BY <1>1, <1>4, <1>9

LEMMA FillBufInv == ASSUME NEW p, NEW q, PipeInv(p), FillBuf(p, q) PROVE PipeInv(q)
<1>1. PipeOK(p) /\ LastLenIs(p)
  BY DEF PipeInv
<1>2. PICK n \in 1 .. Capacity :
         /\ n <= Len(p.wire)
         /\ q = [p EXCEPT !.held = SubSeq(p.wire, 1, n), !.wire = Consume(p.wire, n)]
  BY <1>1 DEF FillBuf, PipeOK, Pipe
<1>3. p.held = <<>>
  BY DEF FillBuf
<1>4. n \in 0 .. Len(p.wire) /\ n <= Capacity
  BY <1>1, <1>2, PipeSays
<1>5. /\ q.wire = Consume(p.wire, n) /\ q.held = SubSeq(p.wire, 1, n) /\ q.last_len = p.last_len
      /\ q.buffer = p.buffer /\ q.lengths = p.lengths /\ q.taken = p.taken /\ q.cut = p.cut
  BY <1>1, <1>2 DEF PipeOK, Pipe
<1>6. q.held \in Seq(Nat) /\ Len(q.held) = n /\ q.wire \in Seq(Nat)
  <2>1. p.wire \in Seq(Nat)
    BY <1>1, PipeSays
  <2> QED BY <1>4, <1>5, <2>1, PrefixOf, ConsumeLeaves
<1>7. PipeOK(q)
  <2>1. q \in Pipe
    BY <1>1, <1>2, <1>5, <1>6 DEF PipeOK, Pipe
  <2> QED BY <1>1, <1>4, <1>5, <1>6, <2>1 DEF PipeOK
<1>8. Rest(q) = Rest(p)
  <2>1. p.wire \in Seq(Nat) /\ p.buffer \in Seq(Nat)
    BY <1>1, PipeSays
  <2>2. q.held \o q.wire = p.wire
    BY <1>4, <1>5, <2>1, CutSeq
  <2>3. (p.buffer \o q.held) \o q.wire = p.buffer \o (q.held \o q.wire)
    BY <1>6, <2>1, Associative
  <2>4. p.buffer \o p.held = p.buffer
    BY <1>3, <2>1, ConcatEmptySeq
  <2> QED BY <1>5, <2>2, <2>3, <2>4 DEF Rest
<1>9. LastLenIs(q)
  <2>1. Len(p.held) = 0
    BY <1>3
  <2>2. p.last_len \notin 1 .. Capacity
    BY <1>1, <2>1 DEF LastLenIs
  <2> QED BY <1>1, <1>5, <2>2 DEF LastLenIs
<1> QED BY <1>5, <1>7, <1>8, <1>9, SameRestKeeps DEF SameTaken

LEMMA WriteInv ==
  ASSUME NEW p, NEW q, NEW n \in Lengths, PipeInv(p), Write(p, q, n) PROVE PipeInv(q)
<1>1. PipeOK(p) /\ LastLenIs(p)
  BY DEF PipeInv
<1>2. PICK doc, line : doc = Document(Len(p.lengths) + 1, n) /\ line = Append(doc, Newline)
  OBVIOUS
<1>3. q = [p EXCEPT !.wire = p.wire \o line, !.lengths = Append(p.lengths, n)]
  BY <1>1, <1>2 DEF Write, PipeOK, Pipe
<1>4. /\ q.wire = p.wire \o line /\ q.lengths = Append(p.lengths, n)
      /\ q.held = p.held /\ q.last_len = p.last_len
      /\ q.buffer = p.buffer /\ q.taken = p.taken /\ q.cut = p.cut
  BY <1>1, <1>3 DEF PipeOK, Pipe
<1>5. n \in Nat /\ n >= 1 /\ Newline \in Nat /\ Len(p.lengths) + 1 \in Nat /\ Len(p.lengths) \in Nat
  <2>1. Len(p.lengths) \in Nat
    BY <1>1, PipeSays
  <2> QED BY <2>1, JsonLinesAssumption DEF Lengths, Newline
<1>6. doc \in Seq(Nat) /\ Len(doc) = n /\ \A j \in 1 .. n : doc[j] = Len(p.lengths) + 1
  BY <1>2, <1>5 DEF Document
<1>7. /\ line \in Seq(Nat) /\ Len(line) = n + 1 /\ line[n + 1] = Newline
      /\ \A j \in 1 .. n : line[j] = Len(p.lengths) + 1
  BY <1>2, <1>5, <1>6, AppendProperties
<1>8. PipeOK(q)
  <2>1. p.wire \in Seq(Nat) /\ p.lengths \in Seq(Lengths)
    BY <1>1, PipeSays
  <2>2. p.wire \o line \in Seq(Nat)
    BY <1>7, <2>1, ConcatProperties
  <2>3. Append(p.lengths, n) \in Seq(Lengths)
    BY <2>1, AppendProperties
  <2>4. q \in Pipe
    BY <1>1, <1>3, <2>2, <2>3 DEF PipeOK, Pipe
  <2> QED BY <1>1, <1>4, <2>4 DEF PipeOK
<1>9. PICK rest, more : rest = Rest(p) /\ more = Rest(q)
  OBVIOUS
<1>10. rest \in Seq(Nat) /\ Len(rest) \in Nat
  BY <1>1, <1>9, RestSays
<1>11. more = rest \o line
  <2>1. p.buffer \in Seq(Nat) /\ p.held \in Seq(Nat) /\ p.wire \in Seq(Nat)
    BY <1>1, PipeSays
  <2>2. p.buffer \o p.held \in Seq(Nat)
    BY <2>1, ConcatProperties
  <2>3. (p.buffer \o p.held) \o (p.wire \o line) = ((p.buffer \o p.held) \o p.wire) \o line
    BY <1>7, <2>1, <2>2, Associative
  <2> QED BY <1>4, <1>9, <2>3 DEF Rest
<1>12. /\ more \in Seq(Nat) /\ Len(more) = Len(rest) + Len(line)
       /\ \A i \in 1 .. Len(rest) + Len(line) :
             more[i] = IF i <= Len(rest) THEN rest[i] ELSE line[i - Len(rest)]
  BY <1>7, <1>10, <1>11, ConcatProperties
<1>13. Len(more) = Len(rest) + n + 1 /\ \A j \in 1 .. Len(rest) : more[j] = rest[j]
  <2>1. PICK l \in Nat, m \in Nat : l = Len(rest) /\ m = Len(line) /\ m = n + 1
    BY <1>5, <1>7, <1>10
  <2>2. Len(more) = l + m
    BY <1>12, <2>1
  <2>3. Len(more) = l + n + 1
    BY <1>5, <2>1, <2>2
  <2>4. ASSUME NEW j \in 1 .. l PROVE more[j] = rest[j]
    <3>1. j \in 1 .. l + m /\ j <= l
      BY <2>1
    <3> QED BY <1>12, <2>1, <3>1
  <2> QED BY <2>1, <2>3, <2>4
<1>14. ASSUME NEW j \in 1 .. n + 1 PROVE more[Len(rest) + j] = line[j]
  <2>1. /\ Len(rest) + j \in 1 .. Len(rest) + Len(line) /\ ~(Len(rest) + j <= Len(rest))
        /\ Len(rest) + j - Len(rest) = j
    BY <1>5, <1>7, <1>10
  <2> QED BY <1>12, <2>1
<1>15. n + 1 \in 1 .. n + 1 /\ \A j \in 1 .. n : j \in 1 .. n + 1
  BY <1>5
<1>16. \A j \in 1 .. n : more[Len(rest) + j] = Len(p.lengths) + 1
  BY <1>7, <1>14, <1>15
<1>17. more[Len(rest) + n + 1] = Newline
  <2>1. more[Len(rest) + (n + 1)] = Newline
    BY <1>7, <1>14, <1>15
  <2>2. Len(rest) + (n + 1) = Len(rest) + n + 1
    BY <1>5, <1>10
  <2> QED BY <2>1, <2>2
<1>18. RestFramed(q)
  <2>1. PICK done \in 0 .. Len(p.lengths), stray \in {0, 1} : \E start :
           /\ FramedBy(rest, p.lengths, done, stray, start)
           /\ {p.taken[j] : j \in 1 .. Len(p.taken)} \ {Empty} = 1 .. done
           /\ p.cut = {} => stray = 0 /\ done = Len(p.taken)
    BY <1>9 DEF PipeInv, RestFramed
  <2>2. PICK start : /\ FramedBy(rest, p.lengths, done, stray, start)
                     /\ {p.taken[j] : j \in 1 .. Len(p.taken)} \ {Empty} = 1 .. done
                     /\ p.cut = {} => stray = 0 /\ done = Len(p.taken)
    BY <2>1
  <2>3. PICK lens \in Seq(Lengths) : lens = p.lengths
    BY <1>1, PipeSays
  <2>4. done \in 0 .. Len(lens) /\ FramedBy(rest, lens, done, stray, start)
    BY <2>2, <2>3
  <2>5. \A j \in 1 .. n : more[Len(rest) + j] = Len(lens) + 1
    BY <1>16, <2>3
  <2>6. PICK start1 : FramedBy(more, Append(lens, n), done, stray, start1)
    BY <1>10, <1>12, <1>13, <1>17, <2>4, <2>5, FramedMore
  <2>7. done \in 0 .. Len(Append(lens, n))
    <3>1. Len(Append(lens, n)) = Len(lens) + 1 /\ Len(lens) \in Nat
      BY AppendProperties
    <3> QED BY <2>4, <3>1
  <2> QED BY <1>4, <1>9, <2>2, <2>3, <2>6, <2>7 DEF RestFramed
<1>19. LastLenIs(q)
  BY <1>1, <1>4 DEF LastLenIs
<1>20. Intact(q) /\ OwnUntilCut(q)
  BY <1>4, SameTakenKeeps DEF SameTaken
<1> QED BY <1>8, <1>18, <1>19, <1>20 DEF PipeInv

-----------------------------------------------------------------------------
(***************************************************************************)
(* The steps that take a line.                                             *)
(***************************************************************************)

\* line is what stands before the first newline, at position at, of rest.
LineEnds(rest, at, line) ==
  /\ at \in 1 .. Len(rest) /\ rest[at] = Newline
  /\ \A j \in 1 .. at - 1 : rest[j] # Newline
  /\ line \in Seq(Nat) /\ Len(line) = at - 1
  /\ \A j \in 1 .. at - 1 : line[j] = rest[j]

\* Which way Parse goes: the line is the document of the next line, or it is the
\* stray newline's and empty.
StrayOrNext(p, done, stray, at, line) ==
  \/ stray = 1 /\ at = 1 /\ Parse(p, line) = Empty
  \/ /\ stray = 0 /\ done < Len(p.lengths) /\ at = p.lengths[done + 1] + 1
     /\ Parse(p, line) = done + 1

LEMMA ParsedLine ==
  ASSUME NEW p, PipeOK(p), NEW rest \in Seq(Nat), NEW done \in 0 .. Len(p.lengths),
         NEW stray \in {0, 1}, NEW start,
         FramedBy(rest, p.lengths, done, stray, start),
         NEW at, NEW line, LineEnds(rest, at, line)
  PROVE  StrayOrNext(p, done, stray, at, line)
<1> DEFINE next == done + 1
<1>0. /\ at \in 1 .. Len(rest) /\ rest[at] = Newline
      /\ \A j \in 1 .. at - 1 : rest[j] # Newline
      /\ line \in Seq(Nat) /\ Len(line) = at - 1
      /\ \A j \in 1 .. at - 1 : line[j] = rest[j]
  BY DEF LineEnds
<1>1. PICK lens \in Seq(Lengths) : lens = p.lengths
  BY PipeSays
<1>2. \A i \in DOMAIN lens : lens[i] \in Nat /\ lens[i] >= 1 /\ i \in Nat /\ i >= 1
  <2> TAKE i \in DOMAIN lens
  <2>1. i \in 1 .. Len(lens)
    OBVIOUS
  <2>2. lens[i] \in 1 .. MaxLength
    BY <2>1, ElementOfSeq DEF Lengths
  <2> QED BY <2>1, <2>2, JsonLinesAssumption
<1>3. \A i \in DOMAIN lens : /\ DOMAIN Document(i, lens[i]) = 1 .. lens[i]
                             /\ \A j \in 1 .. lens[i] : Document(i, lens[i])[j] = i
  BY DEF Document
<1>4. DOMAIN line = 1 .. at - 1
  BY <1>0
<1>5. Parse(p, line) = IF \E i \in DOMAIN lens : line = Document(i, lens[i])
                       THEN CHOOSE i \in DOMAIN lens : line = Document(i, lens[i])
                       ELSE Empty
  BY <1>1, Zenon DEF Parse
<1>6. CASE stray = 1 /\ at = 1
  <2>1. ASSUME NEW i \in DOMAIN lens PROVE line # Document(i, lens[i])
    <3>1. 1 \in 1 .. lens[i] /\ 1 \notin 1 .. at - 1
      BY <1>2, <1>6
    <3> QED BY <1>3, <1>4, <3>1
  <2>2. Parse(p, line) = Empty
    BY <1>5, <2>1
  <2> QED BY <1>6, <2>2 DEF StrayOrNext
<1>7. CASE /\ stray = 0 /\ done < Len(lens)
           /\ at = lens[next] + 1
           /\ \A j \in 1 .. at - 1 : rest[j] = next
  <2>1. next \in DOMAIN lens
    BY <1>1, <1>7
  <2>2. PICK n \in Nat : n = lens[next] /\ n >= 1 /\ at - 1 = n
    <3>1. lens[next] \in Nat /\ lens[next] >= 1
      BY <1>2, <2>1
    <3>2. at = lens[next] + 1
      BY <1>7
    <3> QED BY <3>1, <3>2
  <2>3. line = Document(next, lens[next])
    <3>1. line = [j \in 1 .. n |-> line[j]]
      BY <1>0, <1>4, <2>2
    <3>2. \A j \in 1 .. n : line[j] = next
      BY <1>0, <1>7, <2>2
    <3>3. line = [j \in 1 .. n |-> next]
      BY <3>1, <3>2
    <3> QED BY <2>2, <3>3 DEF Document
  <2>4. ASSUME NEW i \in DOMAIN lens, line = Document(i, lens[i]) PROVE i = next
    <3>1. 1 \in 1 .. lens[i] /\ 1 \in 1 .. lens[next]
      BY <1>2, <2>1
    <3>2. line[1] = i /\ line[1] = next
      BY <1>3, <2>1, <2>3, <2>4, <3>1
    <3> QED BY <3>2
  <2>5. PICK c : c = CHOOSE i \in DOMAIN lens : line = Document(i, lens[i])
    OBVIOUS
  <2>6. c \in DOMAIN lens /\ line = Document(c, lens[c])
    BY <2>1, <2>3, <2>5
  <2>7. Parse(p, line) = next
    BY <1>5, <2>1, <2>3, <2>4, <2>5, <2>6
  <2> QED BY <1>1, <1>7, <2>7 DEF StrayOrNext
<1>8. FramedBy(rest, lens, done, stray, start) /\ done \in 0 .. Len(lens)
  BY <1>1
<1>9. \/ stray = 1 /\ at = 1
      \/ /\ stray = 0 /\ done < Len(lens)
         /\ at = lens[done + 1] + 1
         /\ \A j \in 1 .. at - 1 : rest[j] = done + 1
  BY <1>0, <1>8, FirstNewline
<1> QED BY <1>6, <1>7, <1>9

\* Where the newline in the BufReader is in the rest, and the line before it.
LEMMA TakenLine ==
  ASSUME NEW p, PipeOK(p), Position(p.held) # 0
  PROVE  LineEnds(Rest(p), Len(p.buffer) + Position(p.held),
                  p.buffer \o SubSeq(p.held, 1, Position(p.held) - 1))
<1>0. PICK buffer \in Seq(Nat), held \in Seq(Nat), wire \in Seq(Nat) :
         buffer = p.buffer /\ held = p.held /\ wire = p.wire
  BY PipeSays
<1>1. PICK rest, P, head :
         /\ buffer = p.buffer /\ held = p.held /\ wire = p.wire /\ rest = Rest(p)
         /\ P = Position(held) /\ head = SubSeq(held, 1, P - 1)
  BY <1>0
<1>2. /\ P \in 1 .. Len(held) /\ held[P] = Newline
      /\ \A j \in 1 .. P - 1 : held[j] # Newline
  <2>1. P = Position(held) /\ P # 0
    BY <1>1
  <2>2. P \in 0 .. Len(held) /\ Len(held) \in Nat
    BY <2>1, PositionIsFirst
  <2>3. held[P] = Newline /\ \A j \in 1 .. P - 1 : held[j] # Newline
    BY <2>1, PositionIsFirst
  <2> QED BY <2>1, <2>2, <2>3
<1>3. /\ Len(buffer) \in Nat /\ Len(held) \in Nat /\ Len(wire) \in Nat
      /\ Len(rest) = Len(buffer) + Len(held) + Len(wire)
      /\ \A j \in 1 .. Len(buffer) : rest[j] = buffer[j]
      /\ \A j \in 1 .. Len(held) : rest[Len(buffer) + j] = held[j]
  <2>1. Len(buffer) \in Nat /\ Len(held) \in Nat /\ Len(wire) \in Nat
    OBVIOUS
  <2>2. /\ Len(rest) = Len(p.buffer) + Len(p.held) + Len(p.wire)
        /\ \A j \in 1 .. Len(p.buffer) : rest[j] = p.buffer[j]
        /\ \A j \in 1 .. Len(p.held) : rest[Len(p.buffer) + j] = p.held[j]
    BY <1>1, RestSays
  <2>3. buffer = p.buffer /\ held = p.held /\ wire = p.wire
    BY <1>1
  <2> QED BY <2>1, <2>2, <2>3, Zenon
<1>4. PICK at, line : at = Len(buffer) + P /\ line = buffer \o head
  OBVIOUS
<1>5. P \in Nat /\ P >= 1 /\ P <= Len(held) /\ P - 1 \in 0 .. Len(held)
  BY <1>2, <1>3
<1>6. head \in Seq(Nat) /\ Len(head) = P - 1 /\ \A j \in 1 .. P - 1 : head[j] = held[j]
  BY <1>1, <1>5, PrefixOf
<1>7. /\ line \in Seq(Nat) /\ Len(line) = Len(buffer) + Len(head)
      /\ \A j \in 1 .. Len(buffer) + Len(head) :
            line[j] = IF j <= Len(buffer) THEN buffer[j] ELSE head[j - Len(buffer)]
  <2>1. /\ buffer \o head \in Seq(Nat) /\ Len(buffer \o head) = Len(buffer) + Len(head)
        /\ \A j \in 1 .. Len(buffer) + Len(head) :
              (buffer \o head)[j] = IF j <= Len(buffer) THEN buffer[j] ELSE head[j - Len(buffer)]
    BY <1>6, ConcatProperties
  <2>2. line = buffer \o head
    BY <1>4
  <2> QED BY <2>1, <2>2, Zenon
<1>8. at \in 1 .. Len(rest) /\ rest[at] = Newline
  <2>1. at = Len(buffer) + P
    BY <1>4
  <2>2. at \in 1 .. Len(rest)
    BY <1>3, <1>5, <2>1
  <2>3. rest[Len(buffer) + P] = held[P]
    BY <1>2, <1>3
  <2> QED BY <1>2, <2>1, <2>2, <2>3
<1>9. Len(line) = at - 1
  <2>1. Len(line) = Len(buffer) + (P - 1)
    BY <1>6, <1>7
  <2>2. PICK b \in Nat : b = Len(buffer) /\ at = b + P
    BY <1>3, <1>4
  <2>3. Len(line) = b + (P - 1)
    BY <2>1, <2>2
  <2> QED BY <1>5, <2>2, <2>3
<1>10. ASSUME NEW j \in 1 .. at - 1 PROVE line[j] = rest[j] /\ rest[j] # Newline
  <2>1. j \in 1 .. Len(buffer) + Len(head)
    BY <1>3, <1>4, <1>5, <1>6
  <2>2. CASE j <= Len(buffer)
    <3>1. j \in 1 .. Len(buffer)
      BY <1>3, <2>2
    <3>2. buffer[j] \in Nat \ {Newline}
      <4>1. buffer \in Seq(Nat \ {Newline})
        BY <1>1, PipeSays
      <4> QED BY <3>1, <4>1, ElementOfSeq
    <3>3. line[j] = buffer[j] /\ rest[j] = buffer[j]
      BY <1>3, <1>7, <2>1, <2>2, <3>1
    <3> QED BY <3>2, <3>3
  <2>3. CASE ~(j <= Len(buffer))
    <3>1. PICK k : k = j - Len(buffer)
      OBVIOUS
    <3>2. k \in 1 .. P - 1 /\ k \in 1 .. Len(held) /\ Len(buffer) + k = j
      <4>1. PICK b \in Nat, h \in Nat : b = Len(buffer) /\ h = Len(held) /\ at = b + P
        BY <1>3, <1>4
      <4>2. j \in Nat /\ 1 <= j /\ j <= b + P - 1
        BY <1>5, <4>1
      <4>3. k = j - b /\ ~(j <= b) /\ P <= h
        BY <1>5, <2>3, <3>1, <4>1
      <4>4. k \in 1 .. P - 1 /\ k \in 1 .. h /\ b + k = j
        BY <1>5, <4>2, <4>3
      <4> QED BY <4>1, <4>4
    <3>3. line[j] = head[k]
      BY <1>7, <2>1, <2>3, <3>1
    <3>4. rest[j] = held[k]
      BY <1>3, <3>2
    <3> QED BY <1>2, <1>6, <3>2, <3>3, <3>4
  <2> QED BY <2>2, <2>3
<1>11. LineEnds(rest, at, line)
  BY <1>7, <1>8, <1>9, <1>10 DEF LineEnds
<1>12. /\ rest = Rest(p) /\ at = Len(p.buffer) + Position(p.held)
       /\ line = p.buffer \o SubSeq(p.held, 1, Position(p.held) - 1)
  BY <1>1, <1>4
<1> QED BY <1>11, <1>12

\* recv has returned a line that ends n blocks into the BufReader: with its newline
\* if it was there whole, and without if it came in pieces.
Returned(p, q, n) ==
  /\ n \in {Position(p.held), Position(p.held) - 1}
  /\ q.held = Consume(p.held, n) /\ q.last_len = 0 /\ q.buffer = <<>>
  /\ q.wire = p.wire /\ q.lengths = p.lengths
  /\ q.taken = Append(p.taken, Parse(p, p.buffer \o SubSeq(p.held, 1, Position(p.held) - 1)))
  /\ n = Position(p.held) => p.buffer = <<>> /\ q.cut = p.cut
  /\ n = Position(p.held) - 1 => p.buffer # <<>> /\ q.cut = p.cut \cup {Len(p.taken) + 1}

\* The line that was taken is the next one, or the stray newline's.
TookNext(p, q, done, stray, done1, stray1, start1) ==
  /\ q.taken = Append(p.taken, IF stray = 1 THEN Empty ELSE done + 1)
  /\ done1 = (IF stray = 1 THEN done ELSE done + 1)
  /\ done1 <= Len(p.lengths)
  /\ FramedBy(Rest(q), p.lengths, done1, stray1, start1)
  /\ q.cut = {} => stray1 = 0

LEMMA ReturnedNext ==
  ASSUME NEW p, PipeOK(p), NEW q, PipeOK(q), Position(p.held) # 0,
         NEW n, Returned(p, q, n),
         NEW done \in 0 .. Len(p.lengths), NEW stray \in {0, 1}, NEW start,
         FramedBy(Rest(p), p.lengths, done, stray, start),
         stray = 1 => n = Position(p.held) \/ p.cut # {}
  PROVE  \E done1 \in Nat, stray1 \in {0, 1} : \E start1 :
           TookNext(p, q, done, stray, done1, stray1, start1)
<1>0. PICK rest \in Seq(Nat), more \in Seq(Nat), lens \in Seq(Lengths) :
         rest = Rest(p) /\ more = Rest(q) /\ lens = p.lengths
  BY PipeSays, RestSays
<1>1. PICK P, b, line :
         /\ rest = Rest(p) /\ more = Rest(q) /\ lens = p.lengths
         /\ P = Position(p.held) /\ b = Len(p.buffer)
         /\ line = p.buffer \o SubSeq(p.held, 1, P - 1)
  BY <1>0
<1>2. /\ P \in Nat /\ P >= 1 /\ P \in 1 .. Len(p.held) /\ b \in Nat
      /\ n \in {P, P - 1} /\ n \in Nat /\ n \in 0 .. Len(p.held)
  <2>1. P \in 1 .. Len(p.held) /\ P \in Nat /\ P - 1 \in 0 .. Len(p.held) /\ P \in 0 .. Len(p.held)
    BY <1>1, HeldNewline
  <2>2. b \in Nat /\ Len(p.held) \in Nat
    BY <1>1, PipeSays
  <2>3. n = P \/ n = P - 1
    BY <1>1 DEF Returned
  <2> QED BY <2>1, <2>2, <2>3
<1>3. PICK at \in Nat, c \in Nat : at = b + P /\ c = b + n
  <2>1. b + P \in Nat /\ b + n \in Nat
    BY <1>2
  <2> QED BY <2>1
<1>4. LineEnds(rest, at, line)
  <2>1. /\ rest = Rest(p) /\ at = Len(p.buffer) + Position(p.held)
        /\ line = p.buffer \o SubSeq(p.held, 1, Position(p.held) - 1)
    BY <1>1, <1>3
  <2> QED BY <2>1, TakenLine
<1>5. FramedBy(rest, lens, done, stray, start) /\ done \in 0 .. Len(lens) /\ done \in Nat /\ Len(lens) \in Nat
  BY <1>1
<1>6. \/ stray = 1 /\ at = 1 /\ Parse(p, line) = Empty
      \/ /\ stray = 0 /\ done < Len(lens) /\ at = lens[done + 1] + 1
         /\ Parse(p, line) = done + 1
  <2>1. FramedBy(rest, p.lengths, done, stray, start)
    BY <1>1
  <2>2. StrayOrNext(p, done, stray, at, line)
    BY <1>4, <2>1, ParsedLine
  <2>3. lens = p.lengths
    BY <1>1
  <2> QED BY <2>2, <2>3, Zenon DEF StrayOrNext
<1>7. RestAfter(more, rest, c)
  <2>1. p.buffer \in Seq(Nat) /\ p.held \in Seq(Nat) /\ p.wire \in Seq(Nat)
    BY PipeSays
  <2>2. more = <<>> \o Consume(p.held, n) \o p.wire
    BY <1>1 DEF Rest, Returned
  <2>3. rest = p.buffer \o p.held \o p.wire
    BY <1>1 DEF Rest
  <2>4. RestAfter(<<>> \o Consume(p.held, n) \o p.wire, p.buffer \o p.held \o p.wire, Len(p.buffer) + n)
    BY <1>2, <2>1, ConsumedRest
  <2> QED BY <1>1, <1>3, <2>2, <2>3, <2>4
<1>8. \A done1 \in done .. Len(lens), stray1 \in {0, 1} :
         /\ start[done1 + 1] = c + 1 + stray1
         /\ stray1 = 1 => rest[c + 1] = Newline
         => \E start1 : FramedBy(more, lens, done1, stray1, start1)
  <2> TAKE done1 \in done .. Len(lens), stray1 \in {0, 1}
  <2> HAVE start[done1 + 1] = c + 1 + stray1 /\ (stray1 = 1 => rest[c + 1] = Newline)
  <2> QED BY <1>5, <1>7, FramedRest
<1>9. start[done + 1] = 1 + stray
  BY <1>5, FramedSays
<1>10. q.taken = Append(p.taken, Parse(p, line))
  BY <1>1 DEF Returned
<1>11. CASE stray = 1
  <2>1. at = 1 /\ Parse(p, line) = Empty
    BY <1>6, <1>11
  <2>2. b = 0 /\ P = 1
    BY <1>2, <1>3, <2>1
  <2>3. n = P
    <3>1. p.buffer = <<>>
      <4>1. p.buffer \in Seq(Nat) /\ Len(p.buffer) = 0
        BY <1>1, <2>2, PipeSays
      <4> QED BY <4>1
    <3>2. n = P - 1 => p.buffer # <<>>
      BY <1>1 DEF Returned
    <3> QED BY <1>2, <3>1, <3>2
  <2>4. c = 1 /\ done \in done .. Len(lens) /\ start[done + 1] = c + 1 + 0
    BY <1>3, <1>5, <1>9, <1>11, <2>2, <2>3
  <2>5. PICK start1 : FramedBy(more, lens, done, 0, start1)
    BY <1>8, <2>4
  <2>6. TookNext(p, q, done, stray, done, 0, start1)
    BY <1>1, <1>5, <1>10, <1>11, <2>1, <2>5 DEF TookNext
  <2> QED BY <1>5, <2>6
<1>12. CASE stray = 0
  <2>1. done < Len(lens) /\ at = lens[done + 1] + 1 /\ Parse(p, line) = done + 1
    BY <1>6, <1>12
  <2>2. done + 1 \in done .. Len(lens) /\ done + 1 \in done + 1 .. Len(lens) /\ done + 1 \in Nat
    BY <1>5, <2>1
  <2>3. start[done + 1 + 1] = at + 1
    <3>1. PICK a, m \in Nat : LineAt(rest, lens, start, done + 1, a, m)
      BY <1>5, <2>2, FramedLine
    <3>2. a = 1 /\ at = m + 1
      BY <1>9, <1>12, <2>1, <3>1 DEF LineAt
    <3> QED BY <3>1, <3>2 DEF LineAt
  <2>4. q.taken = Append(p.taken, IF stray = 1 THEN Empty ELSE done + 1)
    BY <1>10, <1>12, <2>1
  <2>5. CASE n = P
    <3>1. start[done + 1 + 1] = c + 1 + 0
      BY <1>2, <1>3, <2>3, <2>5
    <3>2. PICK start1 : FramedBy(more, lens, done + 1, 0, start1)
      BY <1>8, <2>2, <3>1
    <3>3. TookNext(p, q, done, stray, done + 1, 0, start1)
      BY <1>1, <1>5, <1>12, <2>1, <2>4, <3>2 DEF TookNext
    <3> QED BY <2>2, <3>3
  <2>6. CASE n = P - 1
    <3>1. start[done + 1 + 1] = c + 1 + 1 /\ c + 1 = at
      BY <1>2, <1>3, <2>3, <2>6
    <3>2. rest[c + 1] = Newline
      BY <1>4, <3>1 DEF LineEnds
    <3>3. PICK start1 : FramedBy(more, lens, done + 1, 1, start1)
      BY <1>8, <2>2, <3>1, <3>2
    <3>4. q.cut # {}
      BY <1>1, <2>6 DEF Returned
    <3>5. TookNext(p, q, done, stray, done + 1, 1, start1)
      BY <1>1, <1>5, <1>12, <2>1, <2>4, <3>3, <3>4 DEF TookNext
    <3> QED BY <2>2, <3>5
  <2> QED BY <1>2, <2>5, <2>6
<1> QED BY <1>11, <1>12

\* The history of a pipe, with one line more.
LEMMA TookNextKeeps ==
  ASSUME NEW p, PipeInv(p), NEW q, PipeOK(q), NEW n, Returned(p, q, n), LastLenIs(q),
         Position(p.held) # 0
  PROVE  PipeInv(q)
<1>1. PipeOK(p)
  BY DEF PipeInv
<1>2. PICK done \in 0 .. Len(p.lengths), stray \in {0, 1} : \E start :
         /\ FramedBy(Rest(p), p.lengths, done, stray, start)
         /\ {p.taken[j] : j \in 1 .. Len(p.taken)} \ {Empty} = 1 .. done
         /\ p.cut = {} => stray = 0 /\ done = Len(p.taken)
  BY DEF PipeInv, RestFramed
<1>3. PICK start : /\ FramedBy(Rest(p), p.lengths, done, stray, start)
                   /\ {p.taken[j] : j \in 1 .. Len(p.taken)} \ {Empty} = 1 .. done
                   /\ p.cut = {} => stray = 0 /\ done = Len(p.taken)
  BY <1>2
<1>4. stray = 1 => n = Position(p.held) \/ p.cut # {}
  BY <1>3
<1>5. PICK done1 \in Nat, stray1 \in {0, 1} : \E start1 :
         TookNext(p, q, done, stray, done1, stray1, start1)
  <2>1. FramedBy(Rest(p), p.lengths, done, stray, start)
    BY <1>3
  <2>2. PICK s : s = start
    OBVIOUS
  <2> QED BY <1>1, <1>4, <2>1, ReturnedNext, Zenon
<1>6. PICK start1 : TookNext(p, q, done, stray, done1, stray1, start1)
  BY <1>5
<1>7. PICK new \in Nat : new = IF stray = 1 THEN Empty ELSE done + 1
  BY DEF Empty
<1>8. PICK len \in Nat : len = Len(p.taken)
  BY <1>1, PipeSays
<1>9. /\ Len(q.taken) = len + 1 /\ q.taken[len + 1] = new
      /\ \A j \in 1 .. len : q.taken[j] = p.taken[j]
  <2>1. q.taken = Append(p.taken, new)
    BY <1>6, <1>7 DEF TookNext
  <2>2. p.taken \in Seq(Nat)
    BY <1>1, PipeSays
  <2> QED BY <1>8, <2>1, <2>2, AppendProperties
<1>10. q.lengths = p.lengths /\ p.cut \subseteq q.cut /\ q.cut \subseteq p.cut \cup {len + 1}
  BY <1>8 DEF Returned
<1>11. {p.taken[j] : j \in 1 .. len} \ {Empty} = 1 .. done
  BY <1>3, <1>8
<1>12. RestFramed(q)
  <2>1. {q.taken[j] : j \in 1 .. len + 1} = {p.taken[j] : j \in 1 .. len} \cup {new}
    <3>1. \A j \in 1 .. len + 1 : j \in 1 .. len \/ j = len + 1
      OBVIOUS
    <3>2. len + 1 \in 1 .. len + 1 /\ \A j \in 1 .. len : j \in 1 .. len + 1
      OBVIOUS
    <3> QED BY <1>9, <3>1, <3>2
  <2>2. done1 = (IF stray = 1 THEN done ELSE done + 1) /\ done \in Nat
    BY <1>6 DEF TookNext
  <2>3. {q.taken[j] : j \in 1 .. len + 1} \ {Empty} = 1 .. done1
    <3>1. CASE stray = 1
      BY <1>7, <1>11, <2>1, <2>2, <3>1
    <3>2. CASE stray = 0
      <4>1. new = done + 1 /\ new # Empty /\ done1 = done + 1
        BY <1>7, <2>2, <3>2 DEF Empty
      <4>2. 1 .. done + 1 = (1 .. done) \cup {done + 1}
        BY <2>2
      <4> QED BY <1>11, <2>1, <4>1, <4>2
    <3> QED BY <3>1, <3>2
  <2>4. q.cut = {} => stray1 = 0 /\ done1 = len + 1
    <3> SUFFICES ASSUME q.cut = {} PROVE stray1 = 0 /\ done1 = len + 1
      OBVIOUS
    <3>1. p.cut = {}
      BY <1>10
    <3>2. stray = 0 /\ done = len
      BY <1>3, <1>8, <3>1
    <3> QED BY <1>6, <2>2, <3>2 DEF TookNext
  <2>5. done1 \in 0 .. Len(q.lengths)
    <3>1. done1 <= Len(q.lengths)
      BY <1>6, <1>10 DEF TookNext
    <3>2. Len(q.lengths) \in Nat
      BY PipeSays
    <3> QED BY <3>1, <3>2
  <2>6. FramedBy(Rest(q), q.lengths, done1, stray1, start1)
    BY <1>6, <1>10 DEF TookNext
  <2> QED BY <1>9, <2>3, <2>4, <2>5, <2>6 DEF RestFramed
<1>13. Intact(q)
  <2>1. DOMAIN q.taken = 1 .. len + 1 /\ DOMAIN p.taken = 1 .. len
    <3>1. q.taken \in Seq(Nat) /\ p.taken \in Seq(Nat)
      BY <1>1, PipeSays
    <3> QED BY <1>8, <1>9, <3>1
  <2> SUFFICES ASSUME NEW k \in 1 .. len + 1, q.taken[k] # Empty
               PROVE  {q.taken[j] : j \in 1 .. k - 1} \ {Empty} = 1 .. q.taken[k] - 1
    BY <2>1 DEF Intact
  <2>2. \A j \in 1 .. k - 1 : q.taken[j] = p.taken[j]
    BY <1>9
  <2>3. {q.taken[j] : j \in 1 .. k - 1} = {p.taken[j] : j \in 1 .. k - 1}
    BY <2>2
  <2>4. CASE k \in 1 .. len
    <3>1. q.taken[k] = p.taken[k]
      BY <1>9, <2>4
    <3>2. {p.taken[j] : j \in 1 .. k - 1} \ {Empty} = 1 .. p.taken[k] - 1
      BY <2>1, <2>4, <3>1 DEF PipeInv, Intact
    <3> QED BY <2>3, <3>1, <3>2
  <2>5. CASE k = len + 1
    <3>1. k - 1 = len /\ q.taken[k] = new
      BY <1>9, <2>5
    <3>2. new = done + 1 /\ new - 1 = done
      BY <1>7, <3>1
    <3> QED BY <1>11, <2>3, <3>1, <3>2
  <2> QED BY <2>4, <2>5
<1>14. OwnUntilCut(q)
  <2> SUFFICES ASSUME NEW k \in 1 .. len + 1, \A j \in 1 .. k - 1 : j \notin q.cut
               PROVE  q.taken[k] = k
    BY <1>9 DEF OwnUntilCut
  <2>1. \A j \in 1 .. k - 1 : j \notin p.cut
    BY <1>10
  <2>2. CASE k \in 1 .. len
    <3>1. p.taken[k] = k
      BY <1>8, <2>1, <2>2 DEF PipeInv, OwnUntilCut
    <3> QED BY <1>9, <2>2, <3>1
  <2>3. CASE k = len + 1
    <3>1. p.cut \subseteq 1 .. len
      BY <1>1, <1>8 DEF PipeOK
    <3>2. p.cut = {}
      BY <2>1, <2>3, <3>1
    <3>3. stray = 0 /\ done = len
      BY <1>3, <1>8, <3>2
    <3> QED BY <1>7, <1>9, <2>3, <3>3
  <2> QED BY <2>2, <2>3
<1> QED BY <1>12, <1>13, <1>14 DEF PipeInv

\* What Return and ReturnCut make of a pipe.
LEMMA ReturnFields ==
  ASSUME NEW p, PipeOK(p), NEW line, NEW n \in 0 .. Len(p.held)
  PROVE  LET q == Return(p, line, n) IN
         /\ q \in Pipe /\ Len(q.held) <= Capacity
         /\ q.held = Consume(p.held, n) /\ q.last_len = 0 /\ q.buffer = <<>>
         /\ q.wire = p.wire /\ q.lengths = p.lengths
         /\ q.taken = Append(p.taken, Parse(p, line)) /\ q.cut = p.cut
<1> DEFINE q == Return(p, line, n)
<1>1. PICK new : new = Parse(p, line)
  OBVIOUS
<1>2. PICK left : left = Consume(p.held, n)
  OBVIOUS
<1>3. q = [p EXCEPT !.held = left, !.last_len = 0, !.buffer = <<>>, !.taken = Append(p.taken, new)]
  BY <1>1, <1>2 DEF Return, PipeOK, Pipe
<1>4. new \in Nat
  <2>1. p.lengths \in Seq(Lengths)
    BY PipeSays
  <2>2. DOMAIN p.lengths \subseteq Nat
    BY <2>1
  <2>3. CASE \E i \in DOMAIN p.lengths : line = Document(i, p.lengths[i])
    <3>1. new \in DOMAIN p.lengths
      BY <1>1, <2>3 DEF Parse
    <3> QED BY <2>2, <3>1
  <2>4. CASE ~\E i \in DOMAIN p.lengths : line = Document(i, p.lengths[i])
    BY <1>1, <2>4 DEF Parse, Empty
  <2> QED BY <2>3, <2>4
<1>5. left \in Seq(Nat) /\ Len(left) = Len(p.held) - n
  <2>1. p.held \in Seq(Nat)
    BY PipeSays
  <2> QED BY <1>2, <2>1, ConsumeLeaves
<1>6. Len(left) <= Capacity
  <2>1. Len(p.held) \in Nat /\ Len(p.held) <= Capacity /\ Capacity \in Nat
    BY PipeSays
  <2>2. n \in Nat
    BY <2>1
  <2> QED BY <1>5, <2>1, <2>2
<1>7. Append(p.taken, new) \in Seq(Nat)
  <2>1. p.taken \in Seq(Nat)
    BY PipeSays
  <2> QED BY <1>4, <2>1, AppendProperties
<1>8. 0 \in 0 .. NoLen /\ <<>> \in Seq(Nat \ {Newline})
  <2>1. NoLen \in Nat
    BY PipeSays
  <2> QED BY <2>1
<1>9. p \in Pipe
  BY DEF PipeOK
<1> HIDE DEF q
<1>10. q \in Pipe
  BY <1>3, <1>5, <1>7, <1>8, <1>9 DEF Pipe
<1>11. /\ q.held = left /\ q.last_len = 0 /\ q.buffer = <<>> /\ q.wire = p.wire
       /\ q.lengths = p.lengths /\ q.taken = Append(p.taken, new) /\ q.cut = p.cut
  BY <1>3, <1>9 DEF Pipe
<1> QED BY <1>1, <1>2, <1>6, <1>10, <1>11 DEF q

LEMMA TakeLineInv == ASSUME NEW p, NEW q, PipeInv(p), TakeLine(p, q) PROVE PipeInv(q)
<1>1. PipeOK(p) /\ LastLenIs(p)
  BY DEF PipeInv
<1>2. p.last_len < Len(p.held) /\ Position(p.held) # 0
  BY DEF TakeLine
<1>3. PICK P, line : P = Position(p.held) /\ line = SubSeq(p.held, 1, P - 1)
  OBVIOUS
<1>4. P \in Nat /\ P \in 0 .. Len(p.held) /\ P - 1 \in 0 .. Len(p.held) /\ P - 1 # P
  BY <1>1, <1>2, <1>3, HeldNewline
<1>5. q = Return(p, line, P)
  <2>1. q = Return(p, line, P - 1 + 1)
    BY <1>3 DEF TakeLine
  <2>2. P - 1 + 1 = P
    BY <1>4
  <2> QED BY <2>1, <2>2
<1>6. /\ q \in Pipe /\ Len(q.held) <= Capacity
      /\ q.held = Consume(p.held, P) /\ q.last_len = 0 /\ q.buffer = <<>>
      /\ q.wire = p.wire /\ q.lengths = p.lengths
      /\ q.taken = Append(p.taken, Parse(p, line)) /\ q.cut = p.cut
  BY <1>1, <1>4, <1>5, ReturnFields
<1>7. p.buffer = <<>>
  <2>1. p.last_len # NoLen
    BY <1>1, <1>2, PipeSays
  <2> QED BY <1>1, <2>1 DEF LastLenIs
<1>8. p.buffer \o line = line
  <2>1. p.held \in Seq(Nat)
    BY <1>1, PipeSays
  <2>2. line \in Seq(Nat)
    BY <1>3, <1>4, <2>1, PrefixOf
  <2> QED BY <1>7, <2>2, ConcatEmptySeq
<1>9. Returned(p, q, P)
  BY <1>3, <1>4, <1>6, <1>7, <1>8 DEF Returned
<1>10. PipeOK(q)
  <2>1. p.taken \in Seq(Nat)
    BY <1>1, PipeSays
  <2>2. PICK new : q.taken = Append(p.taken, new)
    BY <1>6
  <2>3. Len(q.taken) = Len(p.taken) + 1 /\ Len(p.taken) \in Nat
    BY <2>1, <2>2
  <2>4. 1 .. Len(p.taken) \subseteq 1 .. Len(q.taken)
    BY <2>3
  <2> QED BY <1>1, <1>6, <2>4 DEF PipeOK
<1>11. LastLenIs(q)
  <2>1. 0 # NoLen /\ 0 \notin 1 .. Capacity
    BY <1>1, PipeSays
  <2> QED BY <1>6, <2>1 DEF LastLenIs
<1> QED BY <1>2, <1>9, <1>10, <1>11, TookNextKeeps

LEMMA CollectLineInv == ASSUME NEW p, NEW q, PipeInv(p), CollectLine(p, q) PROVE PipeInv(q)
<1>1. PipeOK(p) /\ LastLenIs(p)
  BY DEF PipeInv
<1>2. ~(p.last_len < Len(p.held)) /\ Position(p.held) # 0 /\ p.held # <<>>
  BY DEF CollectLine
<1>3. PICK P, line, r : /\ P = Position(p.held) /\ line = p.buffer \o SubSeq(p.held, 1, P - 1)
                        /\ r = Return(p, line, P - 1)
  OBVIOUS
<1>4. P \in Nat /\ P - 1 \in 0 .. Len(p.held) /\ P - 1 # P
  BY <1>1, <1>2, <1>3, HeldNewline
<1>5. q = [r EXCEPT !.cut = r.cut \cup {Len(p.taken) + 1}]
  BY <1>3 DEF CollectLine, ReturnCut
<1>6. /\ r \in Pipe /\ Len(r.held) <= Capacity
      /\ r.held = Consume(p.held, P - 1) /\ r.last_len = 0 /\ r.buffer = <<>>
      /\ r.wire = p.wire /\ r.lengths = p.lengths
      /\ r.taken = Append(p.taken, Parse(p, line)) /\ r.cut = p.cut
  BY <1>1, <1>3, <1>4, ReturnFields
<1>7. /\ q.held = r.held /\ q.last_len = r.last_len /\ q.buffer = r.buffer
      /\ q.wire = r.wire /\ q.lengths = r.lengths /\ q.taken = r.taken
      /\ q.cut = p.cut \cup {Len(p.taken) + 1}
  BY <1>5, <1>6 DEF Pipe
<1>8. p.buffer # <<>>
  <2>1. p.last_len \notin 1 .. Capacity
    BY <1>1, <1>2 DEF LastLenIs
  <2>2. Len(p.held) # 0
    <3>1. p.held \in Seq(Nat)
      BY <1>1, PipeSays
    <3> QED BY <1>2, <3>1
  <2>3. /\ p.last_len \in Nat /\ p.last_len \in 0 .. NoLen /\ NoLen = Capacity + 1 /\ Capacity \in Nat
        /\ Len(p.held) \in Nat
    BY <1>1, PipeSays
  <2>4. p.last_len = NoLen
    BY <1>2, <2>1, <2>2, <2>3
  <2> QED BY <1>1, <2>4 DEF LastLenIs
<1>9. Returned(p, q, P - 1)
  BY <1>3, <1>4, <1>6, <1>7, <1>8 DEF Returned
<1>10. PipeOK(q)
  <2>1. p.taken \in Seq(Nat)
    BY <1>1, PipeSays
  <2>2. PICK new : q.taken = Append(p.taken, new)
    BY <1>6, <1>7
  <2>3. Len(q.taken) = Len(p.taken) + 1 /\ Len(p.taken) \in Nat
    BY <2>1, <2>2
  <2>4. 1 .. Len(p.taken) \subseteq 1 .. Len(q.taken) /\ Len(p.taken) + 1 \in 1 .. Len(q.taken)
    BY <2>3
  <2>5. q.cut \subseteq 1 .. Len(q.taken)
    BY <1>1, <1>7, <2>4 DEF PipeOK
  <2>6. q.cut \in SUBSET (Nat \ {0})
    BY <2>3, <2>5
  <2>7. q \in Pipe
    <3>1. r.cut \cup {Len(p.taken) + 1} \in SUBSET (Nat \ {0})
      BY <1>6, <1>7, <2>6
    <3> QED BY <1>5, <1>6, <3>1 DEF Pipe
  <2> QED BY <1>6, <1>7, <2>5, <2>7 DEF PipeOK
<1>11. LastLenIs(q)
  <2>1. 0 # NoLen /\ 0 \notin 1 .. Capacity
    BY <1>1, PipeSays
  <2> QED BY <1>6, <1>7, <2>1 DEF LastLenIs
<1> QED BY <1>2, <1>9, <1>10, <1>11, TookNextKeeps

LEMMA RecvInv == ASSUME NEW p, NEW q, PipeInv(p), Recv(p, q) PROVE PipeInv(q)
<1>1. CASE FillBuf(p, q)
  BY <1>1, FillBufInv
<1>2. CASE TakeLine(p, q)
  BY <1>2, TakeLineInv
<1>3. CASE NoteLength(p, q)
  BY <1>3, NoteLengthInv
<1>4. CASE Collect(p, q)
  BY <1>4, CollectInv
<1>5. CASE CollectLine(p, q)
  BY <1>5, CollectLineInv
<1> QED BY <1>1, <1>2, <1>3, <1>4, <1>5 DEF Recv

\* A step of recv_raw writes nothing, and takes no line back.
LEMMA RecvTakes ==
  ASSUME NEW p, NEW q, PipeOK(p), Recv(p, q)
  PROVE  q.lengths = p.lengths /\ Len(q.taken) >= Len(p.taken)
<1>1. Len(p.taken) \in Nat /\ p.taken \in Seq(Nat)
  BY PipeSays
<1>2. p \in Pipe
  BY DEF PipeOK
<1>3. ASSUME q.lengths = p.lengths, q.taken = p.taken
      PROVE  q.lengths = p.lengths /\ Len(q.taken) >= Len(p.taken)
  BY <1>1, <1>3
<1>4. ASSUME NEW new, q.lengths = p.lengths, q.taken = Append(p.taken, new)
      PROVE  q.lengths = p.lengths /\ Len(q.taken) >= Len(p.taken)
  <2>1. Len(q.taken) = Len(p.taken) + 1
    BY <1>1, <1>4
  <2> QED BY <1>1, <1>4, <2>1
<1>5. CASE FillBuf(p, q)
  BY <1>2, <1>3, <1>5 DEF FillBuf, Pipe
<1>6. CASE NoteLength(p, q)
  BY <1>2, <1>3, <1>6 DEF NoteLength, Pipe
<1>7. CASE Collect(p, q)
  BY <1>2, <1>3, <1>7 DEF Collect, Pipe
<1>8. CASE TakeLine(p, q)
  <2>1. PICK line, n : q = Return(p, line, n)
    BY <1>8 DEF TakeLine
  <2>2. q.lengths = p.lengths /\ q.taken = Append(p.taken, Parse(p, line))
    BY <1>2, <2>1 DEF Return, Pipe
  <2> QED BY <1>4, <2>2
<1>9. CASE CollectLine(p, q)
  <2>1. PICK line, n : q = ReturnCut(p, line, n)
    BY <1>9 DEF CollectLine
  <2>2. q.lengths = p.lengths /\ q.taken = Append(p.taken, Parse(p, line))
    BY <1>2, <2>1 DEF ReturnCut, Return, Pipe
  <2> QED BY <1>4, <2>2
<1> QED BY <1>5, <1>6, <1>7, <1>8, <1>9 DEF Recv

\* A write adds one line.
LEMMA WriteAdds ==
  ASSUME NEW p, NEW q, NEW n, PipeOK(p), Write(p, q, n)
  PROVE  q.taken = p.taken /\ Len(q.lengths) = Len(p.lengths) + 1
<1>1. q.taken = p.taken /\ q.lengths = Append(p.lengths, n)
  BY DEF PipeOK, Pipe, Write
<1>2. p.lengths \in Seq(Lengths)
  BY PipeSays
<1> QED BY <1>1, <1>2

-----------------------------------------------------------------------------
(***************************************************************************)
(* The theorems.                                                           *)
(***************************************************************************)

\* The server answers what it took, one line for each.
OneForEach == Len(responses.lengths) <= Len(commands.taken)

IInv ==
  /\ PipeInv(commands)
  /\ PipeInv(responses)
  /\ OneForEach
  /\ closed \in BOOLEAN

\* The invariant holds throughout: the blocks that either end has yet to take are, at
\* every step, the lines that it has yet to take, and recv_raw's last_len and buffer
\* say where in a line it is.
THEOREM Invariant == Spec => []IInv
<1>1. Init => IInv
  <2>1. ASSUME Init PROVE OneForEach
    <3>1. responses.lengths = <<>> /\ commands.taken = <<>>
      BY <2>1 DEF Init, NewPipe
    <3> QED BY <3>1 DEF OneForEach
  <2> QED BY <2>1, NewPipeInv DEF Init, IInv
<1>2. IInv /\ [Next]_vars => IInv'
  <2> SUFFICES ASSUME IInv, [Next]_vars PROVE IInv'
    OBVIOUS
  <2>0. /\ PipeInv(commands) /\ PipeInv(responses) /\ PipeOK(commands) /\ PipeOK(responses)
        /\ Len(responses.lengths) <= Len(commands.taken) /\ closed \in BOOLEAN
    BY DEF IInv, PipeInv, OneForEach
  <2>9. Len(responses.lengths) \in Nat /\ Len(commands.taken) \in Nat
    BY <2>0, PipeSays
  <2>1. ASSUME NEW n \in Lengths, Send(n) PROVE IInv'
    <3>1. Write(commands, commands', n) /\ UNCHANGED <<responses, closed>>
      BY <2>1 DEF Send
    <3>2. PipeInv(commands')
      BY <2>0, <3>1, WriteInv
    <3>3. commands'.taken = commands.taken
      BY <2>0, <3>1, WriteAdds
    <3> QED BY <2>0, <3>1, <3>2, <3>3 DEF IInv, OneForEach
  <2>2. ASSUME NEW n \in Lengths, Respond(n) PROVE IInv'
    <3>1. /\ Len(responses.lengths) < Len(commands.taken)
          /\ Write(responses, responses', n) /\ UNCHANGED <<commands, closed>>
      BY <2>2 DEF Respond
    <3>2. PipeInv(responses')
      BY <2>0, <3>1, WriteInv
    <3>3. Len(responses'.lengths) = Len(responses.lengths) + 1
      BY <2>0, <3>1, WriteAdds
    <3>4. Len(responses'.lengths) <= Len(commands.taken)
      BY <2>9, <3>1, <3>3
    <3> QED BY <2>0, <3>1, <3>2, <3>4 DEF IInv, OneForEach
  <2>3. CASE ClientRecv
    <3>1. Recv(responses, responses') /\ UNCHANGED <<commands, closed>>
      BY <2>3 DEF ClientRecv
    <3>2. PipeInv(responses')
      BY <2>0, <3>1, RecvInv
    <3>3. responses'.lengths = responses.lengths
      BY <2>0, <3>1, RecvTakes
    <3> QED BY <2>0, <3>1, <3>2, <3>3 DEF IInv, OneForEach
  <2>4. CASE ServerRecv
    <3>1. Recv(commands, commands') /\ UNCHANGED <<responses, closed>>
      BY <2>4 DEF ServerRecv
    <3>2. PipeInv(commands')
      BY <2>0, <3>1, RecvInv
    <3>3. Len(commands'.taken) >= Len(commands.taken)
      BY <2>0, <3>1, RecvTakes
    <3>4. Len(commands'.taken) \in Nat
      BY <3>2, PipeSays DEF PipeInv
    <3>5. Len(responses.lengths) <= Len(commands'.taken)
      BY <2>0, <2>9, <3>3, <3>4
    <3> QED BY <2>0, <3>1, <3>2, <3>5 DEF IInv, OneForEach
  <2>5. CASE Close
    BY <2>5 DEF Close, IInv, OneForEach
  <2>6. CASE UNCHANGED vars
    BY <2>6 DEF vars, IInv, OneForEach
  <2> QED BY <2>1, <2>2, <2>3, <2>4, <2>5, <2>6 DEF Next
<1> QED BY <1>1, <1>2, PTL DEF Spec

\* The variables keep their types; in particular what recv_raw collects never holds
\* a newline, and a BufReader never more than its capacity.
THEOREM TypeCorrect == Spec => []TypeOK
<1>1. IInv => TypeOK
  BY DEF IInv, PipeInv, PipeOK, TypeOK
<1> QED BY <1>1, Invariant, PTL

\* Each command reaches the handler, and each response the client, once, whole and in
\* order, whatever the lengths of the lines, the capacity of the BufReaders and the
\* sizes of the reads.
THEOREM LinesStayIntact == Spec => []LinesIntact
<1>1. IInv => LinesIntact
  BY DEF IInv, PipeInv, LinesIntact
<1> QED BY <1>1, Invariant, PTL

\* A command gets its own response if no line before it, either way, came in pieces:
\* the first on a connection always does.
THEOREM OwnResponses == Spec => []OwnResponse
<1>1. IInv => OwnResponse
  <2> SUFFICES ASSUME IInv, NEW k \in DOMAIN responses.taken,
                      \A j \in 1 .. k - 1 : j \notin commands.cut /\ j \notin responses.cut
               PROVE  Answered(k) = k
    BY DEF OwnResponse
  <2>1. PipeOK(commands) /\ PipeOK(responses)
    BY DEF IInv, PipeInv
  <2>2. responses.taken \in Seq(Nat)
    BY <2>1, PipeSays
  <2>3. k \in 1 .. Len(responses.taken) /\ k \in Nat /\ k # 0
    BY <2>2
  <2>4. responses.taken[k] = k
    BY <2>3 DEF IInv, PipeInv, OwnUntilCut
  <2>5. k \in 1 .. Len(commands.taken)
    <3>1. PICK done \in 0 .. Len(responses.lengths) :
             {responses.taken[j] : j \in 1 .. Len(responses.taken)} \ {Empty} = 1 .. done
      BY DEF IInv, PipeInv, RestFramed
    <3>2. k \in 1 .. done
      BY <2>3, <2>4, <3>1 DEF Empty
    <3>3. Len(responses.lengths) <= Len(commands.taken)
      BY DEF IInv, OneForEach
    <3>4. Len(responses.lengths) \in Nat /\ Len(commands.taken) \in Nat
      BY <2>1, PipeSays
    <3> QED BY <3>2, <3>3, <3>4
  <2>6. commands.taken[k] = k
    BY <2>5 DEF IInv, PipeInv, OwnUntilCut
  <2> QED BY <2>3, <2>4, <2>6 DEF Answered, Empty
<1> QED BY <1>1, Invariant, PTL
=============================================================================
