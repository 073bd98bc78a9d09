---------------------------- MODULE WritersProofs ----------------------------
(***************************************************************************)
(* Proofs about Writers: what is written fits a buffer one larger than     *)
(* what was measured, a smaller one is left with an empty string, no text  *)
(* is longer than declared, and the writers that check stay inside.        *)
(*                                                                         *)
(* A writer is a list of pieces, and what is known of the list still to be *)
(* written is a certificate: a set of lists that contains it, is closed    *)
(* under taking the first piece off, and of which every list is ok.  The   *)
(* programs of the writers are certified piece by piece, from their ends;  *)
(* every step then only looks at the first piece.                          *)
(***************************************************************************)
EXTENDS Writers, SequenceTheorems, TLAPS

(***************************************************************************)
(* What is still to be written, and how long it will be.                   *)
(***************************************************************************)

Ops == {"char", "string", "two", "digits", "number", "field", "raw", "null", "ifOk",
        "length", "fail", "end", "need", "needMarked", "needBare"}

Checks == {"need", "needMarked", "needBare"}

(* Pieces that always advance while a value is measured.                   *)
Counted == {"char", "string", "two", "digits", "number", "field", "length", "end", "ifOk"}

(* Pieces that leave the status alone unless the text ends with them.      *)
Plain == {"char", "string", "two", "end"}

PieceSet == [op : Ops, n : Nat]

Lists == Seq(PieceSet)

(* Lists of pieces, each with the length of the text that they will write. *)
States == Lists \X Int

Width(p) ==
  CASE p.op = "char" -> 1
    [] p.op = "two" -> 2
    [] p.op \in {"string", "digits", "number", "raw", "length"} -> p.n
    [] p.op = "field" -> p.n + 1
    [] OTHER -> 0

Onward == [x \in States |-> <<Tail(x[1]), x[2] - Width(Head(x[1]))>>]

(* The states from which every step of a path is ok until it stops.        *)
Certified(ok, stop, next) ==
  {x \in ok : \E H \in SUBSET ok : x \in H /\ \A y \in H : y \in stop \/ next[y] \in H}

(* A state where the path stops is certified if it is ok.                  *)
LEMMA CertifiedStop ==
  ASSUME NEW ok, NEW stop, NEW next, NEW x \in ok, x \in stop
  PROVE  x \in Certified(ok, stop, next)
<1>1. {x} \in SUBSET ok /\ x \in {x} /\ \A y \in {x} : y \in stop \/ next[y] \in {x}
  OBVIOUS
<1> QED BY <1>1 DEF Certified

(* A state before a certified one is certified if it is ok.                *)
LEMMA CertifiedCons ==
  ASSUME NEW ok, NEW stop, NEW next, NEW x \in ok, next[x] \in Certified(ok, stop, next)
  PROVE  x \in Certified(ok, stop, next)
<1>1. PICK H \in SUBSET ok : next[x] \in H /\ \A y \in H : y \in stop \/ next[y] \in H
  BY DEF Certified
<1> DEFINE G == H \cup {x}
<1>2. G \in SUBSET ok /\ x \in G /\ \A y \in G : y \in stop \/ next[y] \in G
  BY <1>1
<1> QED BY <1>2 DEF Certified

(* The path of a certified state goes on in certified states.              *)
LEMMA CertifiedStep ==
  ASSUME NEW ok, NEW stop, NEW next, NEW x \in Certified(ok, stop, next), x \notin stop
  PROVE  x \in ok /\ next[x] \in Certified(ok, stop, next)
<1>1. PICK H \in SUBSET ok : x \in H /\ \A y \in H : y \in stop \/ next[y] \in H
  BY DEF Certified
<1>2. next[x] \in H
  BY <1>1
<1> QED BY <1>1, <1>2 DEF Certified

(* What is certified is ok.                                                *)
LEMMA CertifiedOk ==
  ASSUME NEW ok, NEW stop, NEW next
  PROVE  Certified(ok, stop, next) \subseteq ok
BY DEF Certified

-----------------------------------------------------------------------------

(* The head and the tail of a list.                                        *)
LEMMA ListParts ==
  ASSUME NEW s \in Lists, s # <<>>
  PROVE  /\ Head(s) \in PieceSet /\ Tail(s) \in Lists
         /\ s = <<Head(s)>> \o Tail(s)
BY HeadTailProperties DEF Lists

(* A piece before a list.                                                  *)
LEMMA ListCons ==
  ASSUME NEW p \in PieceSet, NEW t \in Lists
  PROVE  /\ <<p>> \o t \in Lists /\ <<p>> \o t # <<>>
         /\ Head(<<p>> \o t) = p /\ Tail(<<p>> \o t) = t
BY DEF Lists

(* How three lists are put together makes no difference.                   *)
LEMMA ListAssociative ==
  ASSUME NEW s \in Lists, NEW t \in Lists, NEW u \in Lists
  PROVE  (s \o t) \o u = s \o (t \o u)
BY ConcatAssociative DEF Lists

(* Two lists after each other.                                             *)
LEMMA ListConcat ==
  ASSUME NEW s \in Lists, NEW t \in Lists
  PROVE  /\ s \o t \in Lists
         /\ <<>> \o t = t
         /\ s # <<>> => /\ s \o t # <<>>
                        /\ Head(s \o t) = Head(s)
                        /\ Tail(s \o t) = Tail(s) \o t
         /\ Len(s \o t) = Len(s) + Len(t)
BY ConcatProperties, ConcatEmptySeq, HeadTailProperties DEF Lists

(* No piece goes back.                                                     *)
LEMMA WidthNat ==
  ASSUME NEW p \in PieceSet
  PROVE  Width(p) \in Nat
BY DEF Width, PieceSet

(* What is left after the first piece.                                     *)
LEMMA OnwardState ==
  ASSUME NEW s \in Lists, NEW j \in Int, s # <<>>
  PROVE  Onward[<<s, j>>] = <<Tail(s), j - Width(Head(s))>> /\ Onward[<<s, j>>] \in States
<1>1. Head(s) \in PieceSet /\ Tail(s) \in Lists /\ Width(Head(s)) \in Nat
  BY ListParts, WidthNat
<1>2. \A t \in Lists, k \in Int : <<t, k>> \in States
  BY DEF States
<1>4. j - Width(Head(s)) \in Int
  BY <1>1
<1>3. <<s, j>>[1] = s /\ <<s, j>>[2] = j
  OBVIOUS
<1>5. <<s, j>> \in States /\ <<Tail(s), j - Width(Head(s))>> \in States
  BY <1>1, <1>2, <1>4, Zenon
<1> QED BY <1>5, <1>3, Zenon DEF Onward

(* The same, from what is left.                                            *)
LEMMA OnwardCons ==
  ASSUME NEW p \in PieceSet, NEW t \in Lists, NEW j \in Int
  PROVE  Onward[<<<<p>> \o t, j + Width(p)>>] = <<t, j>>
<1> DEFINE s == <<p>> \o t
<1>1. s \in Lists /\ s # <<>> /\ Head(s) = p /\ Tail(s) = t
  BY ListCons, Zenon
<1>2. Width(p) \in Nat
  BY WidthNat
<1> HIDE DEF s
<1>3. (j + Width(p)) - Width(p) = j /\ j + Width(p) \in Int
  BY <1>2
<1>4. Onward[<<s, j + Width(p)>>] = <<t, (j + Width(p)) - Width(p)>>
  BY <1>1, <1>3, OnwardState, Zenon
<1> QED BY <1>3, <1>4 DEF s

-----------------------------------------------------------------------------
(***************************************************************************)
(* What is known of a list before any of it is written.                    *)
(***************************************************************************)

Finished == {x \in States : x[1] = <<>>}

(* A list of w characters, made of certain pieces.                         *)
SpanOk(ops) ==
  {x \in States : x[2] \in Nat /\ IF x[1] = <<>> THEN x[2] = 0 ELSE Head(x[1]).op \in ops}

Spans(ops, s, w) == <<s, w>> \in Certified(SpanOk(ops), Finished, Onward)

(* With room for j characters and a null every check passes, and the text  *)
(* ends with its null.                                                     *)
Fits(p, t, j) ==
  /\ p.op \notin {"fail", "length"}
  /\ p.op \in Checks => p.n <= j + 1
  /\ t = <<>> => p.op \in {"end", "null"}

RoomyOk ==
  {x \in States : x[2] \in Nat /\ IF x[1] = <<>> THEN x[2] = 0
                                  ELSE Fits(Head(x[1]), Tail(x[1]), x[2])}

Roomy(s, j) == <<s, j>> \in Certified(RoomyOk, Finished, Onward)

(* After an error, the pieces that are tried lead to end_write.            *)
EscapeOk ==
  {s \in Lists : s # <<>> /\ Head(s).op \in Plain \cup {"field", "fail", "ifOk"}}

EscapeStop == {s \in EscapeOk : Head(s).op \in {"end", "fail"}}

EscapeNext ==
  [s \in Lists |-> IF Head(s).op = "ifOk" THEN SubSeq(s, Head(s).n + 2, Len(s)) ELSE Tail(s)]

Escapes == Certified(EscapeOk, EscapeStop, EscapeNext)

(* After an error there may still be digits, which forget it, followed by  *)
(* at least one more character.                                            *)
LateOk ==
  {x \in States : /\ x[1] # <<>>
                  /\ \/ Head(x[1]).op = "field"
                     \/ Head(x[1]).op = "digits" /\ Head(x[1]).n \in 1..(x[2] - 1)}

LateStop == {x \in LateOk : Head(x[1]).op = "digits"}

Late(s, j) == <<s, j>> \in Certified(LateOk, LateStop, Onward)

(* Without that room, a piece that finds out leaves the way to end_write,  *)
(* and one of them surely finds out.                                       *)
Recovers(p, t, j) ==
  /\ p.op \notin {"length", "needBare"}
  /\ p.op \in {"digits", "number"} => t \in Escapes
  /\ p.op = "field" => t \in Escapes \/ (p.n <= 2 /\ Late(t, j - Width(p)))

Refuses(p, j) ==
  \/ p.op = "fail"
  \/ p.op = "end" /\ j <= 0
  \/ p.op \in Checks /\ j < p.n

ShortOk == {x \in States : x[1] # <<>> /\ Recovers(Head(x[1]), Tail(x[1]), x[2])}

ShortStop == {x \in ShortOk : Refuses(Head(x[1]), x[2])}

Short(s, j) == <<s, j>> \in Certified(ShortOk, ShortStop, Onward)

-----------------------------------------------------------------------------

(* A list and a length are a state.                                        *)
LEMMA PairState ==
  ASSUME NEW s \in Lists, NEW j \in Int
  PROVE  <<s, j>> \in States /\ <<s, j>>[1] = s /\ <<s, j>>[2] = j
BY DEF States

(* The same for a list that begins with a piece.                           *)
LEMMA ConsState ==
  ASSUME NEW p \in PieceSet, NEW t \in Lists, NEW j \in Int
  PROVE  /\ <<<<p>> \o t, j>> \in States
         /\ <<<<p>> \o t, j>>[1] = <<p>> \o t /\ <<<<p>> \o t, j>>[2] = j
         /\ <<p>> \o t # <<>> /\ Head(<<p>> \o t) = p /\ Tail(<<p>> \o t) = t
BY ListCons, PairState, Zenon

(* Nothing is zero characters long.                                        *)
LEMMA SpansEmpty ==
  ASSUME NEW ops
  PROVE  Spans(ops, <<>>, 0)
<1>1. <<>> \in Lists
  BY EmptySeq DEF Lists
<1>2. <<<<>>, 0>> \in SpanOk(ops) /\ <<<<>>, 0>> \in Finished
  BY <1>1, PairState DEF SpanOk, Finished
<1> QED BY <1>2, CertifiedStop DEF Spans

(* A piece adds its width to the length of a list.                         *)
LEMMA SpansCons ==
  ASSUME NEW ops, NEW p \in PieceSet, p.op \in ops,
         NEW t \in Lists, NEW w \in Nat, Spans(ops, t, w)
  PROVE  Spans(ops, <<p>> \o t, w + Width(p))
<1>1. w + Width(p) \in Nat
  BY WidthNat
<1>2. <<<<p>> \o t, w + Width(p)>> \in SpanOk(ops)
  BY <1>1, ConsState DEF SpanOk
<1>3. w \in Int
  OBVIOUS
<1>4. Onward[<<<<p>> \o t, w + Width(p)>>] = <<t, w>>
  BY <1>3, OnwardCons, Zenon
<1> QED BY <1>2, <1>4, CertifiedCons DEF Spans

(* A list has enough room if its first piece and the others have.          *)
LEMMA RoomyCons ==
  ASSUME NEW p \in PieceSet, NEW t \in Lists, NEW j \in Nat, Roomy(t, j),
         Fits(p, t, j + Width(p))
  PROVE  Roomy(<<p>> \o t, j + Width(p))
<1>1. j + Width(p) \in Nat /\ j + Width(p) \in Int
  BY WidthNat
<1>2. <<<<p>> \o t, j + Width(p)>> \in RoomyOk
  BY <1>1, ConsState, Zenon DEF RoomyOk
<1>3. j \in Int
  OBVIOUS
<1>4. Onward[<<<<p>> \o t, j + Width(p)>>] = <<t, j>>
  BY <1>3, OnwardCons, Zenon
<1> QED BY <1>2, <1>4, CertifiedCons DEF Roomy

(* Nothing fits into a buffer with room for a null.                        *)
LEMMA RoomyEmpty == Roomy(<<>>, 0)
<1>1. <<>> \in Lists
  BY EmptySeq DEF Lists
<1>2. <<<<>>, 0>> \in RoomyOk /\ <<<<>>, 0>> \in Finished
  BY <1>1, PairState DEF RoomyOk, Finished
<1> QED BY <1>2, CertifiedStop DEF Roomy

(* An error is certain if the first piece raises one.                      *)
LEMMA ShortStops ==
  ASSUME NEW p \in PieceSet, NEW t \in Lists, NEW j \in Int,
         p.op \in {"fail", "end"} \cup (Checks \ {"needBare"}), Refuses(p, j)
  PROVE  Short(<<p>> \o t, j)
<1>1. Recovers(p, t, j)
  BY DEF Recovers, Checks
<1>2. <<<<p>> \o t, j>> \in ShortOk
  BY <1>1, ConsState, Zenon DEF ShortOk
<1>3. <<<<p>> \o t, j>> \in ShortStop
  BY <1>2, ConsState, Zenon DEF ShortStop
<1> QED BY <1>2, <1>3, CertifiedStop DEF Short

(* An error is certain if one is in the rest of the list.                  *)
LEMMA ShortCons ==
  ASSUME NEW p \in PieceSet, NEW t \in Lists, NEW j \in Int, Short(t, j),
         Recovers(p, t, j + Width(p))
  PROVE  Short(<<p>> \o t, j + Width(p))
<1>1. j + Width(p) \in Int
  BY WidthNat
<1>2. <<<<p>> \o t, j + Width(p)>> \in ShortOk
  BY <1>1, ConsState, Zenon DEF ShortOk
<1> QED BY <1>2, OnwardCons, CertifiedCons DEF Short

(* The way to end_write may end at once.                                   *)
LEMMA EscapesEnd ==
  ASSUME NEW p \in PieceSet, NEW t \in Lists, p.op \in {"end", "fail"}
  PROVE  <<p>> \o t \in Escapes
<1>1. <<p>> \o t \in EscapeOk /\ <<p>> \o t \in EscapeStop
  BY ListCons DEF EscapeOk, EscapeStop, Plain
<1> QED BY <1>1, CertifiedStop DEF Escapes

(* Pieces that an error is not hidden by, before the way to end_write.     *)
LEMMA EscapesCons ==
  ASSUME NEW p \in PieceSet, NEW t \in Lists, p.op \in Plain \cup {"field"}, t \in Escapes
  PROVE  <<p>> \o t \in Escapes
<1>1. <<p>> \o t \in EscapeOk
  BY ListCons DEF EscapeOk
<1>2. p.op # "ifOk"
  BY DEF Plain
<1>3. EscapeNext[<<p>> \o t] = t
  BY <1>2, ListCons, Zenon DEF EscapeNext
<1> QED BY <1>1, <1>3, CertifiedCons DEF Escapes

(* What follows ifOk is skipped as a whole.                                *)
LEMMA EscapesSkip ==
  ASSUME NEW c \in Lists, NEW t \in Lists, t \in Escapes
  PROVE  (<<IfOk(Len(c))>> \o c) \o t \in Escapes
<1> DEFINE p == IfOk(Len(c))
           s == (<<p>> \o c) \o t
<1>1. Len(c) \in Nat /\ p \in PieceSet /\ p.op = "ifOk" /\ p.n = Len(c)
  BY LenProperties DEF Lists, IfOk, Piece, PieceSet, Ops
<1>2. s = <<p>> \o (c \o t) /\ c \o t \in Lists
  BY <1>1, ConcatAssociative, ConcatProperties DEF Lists
<1>3. s \in Lists /\ Len(s) = 1 + Len(c) + Len(t) /\ Len(t) \in Nat
  BY <1>1, ConcatProperties, LenProperties DEF Lists
<1>4. \A k \in 1..Len(t) : s[k + Len(c) + 1] = t[k]
  <2>1. <<p>> \o c \in Seq(PieceSet) /\ Len(<<p>> \o c) = Len(c) + 1
    BY <1>1, ConcatProperties DEF Lists
  <2> QED BY <2>1, <1>1, <1>3, ConcatProperties DEF Lists
<1>5. SubSeq(s, Len(c) + 2, Len(s)) = t
  <2> HIDE DEF s, p
  <2> DEFINE u == SubSeq(s, Len(c) + 2, Len(s))
  <2>1. \A k \in (Len(c) + 2)..Len(s) : s[k] \in PieceSet
    BY <1>1, <1>3, ElementOfSeq DEF Lists
  <2>2. /\ u \in Seq(PieceSet)
        /\ Len(u) = IF Len(c) + 2 <= Len(s) THEN Len(s) - (Len(c) + 2) + 1 ELSE 0
        /\ \A k \in 1..(Len(s) - (Len(c) + 2) + 1) : u[k] = s[Len(c) + 2 + k - 1]
    <3>1. Len(c) + 2 \in Int /\ Len(s) \in Int
      BY <1>1, <1>3
    <3> QED BY <2>1, <3>1, SubSeqProperties
  <2>3. Len(u) = Len(t) /\ \A k \in 1..Len(u) : u[k] = t[k]
    BY <2>2, <1>1, <1>3, <1>4
  <2> QED BY <2>2, <2>3, SeqEqual DEF Lists
<1>6. Head(s) = p /\ s # <<>> /\ s \in EscapeOk
  BY <1>1, <1>2, ListCons DEF EscapeOk
<1>7. EscapeNext[s] = t
  BY <1>1, <1>3, <1>5, <1>6 DEF EscapeNext
<1> QED BY <1>6, <1>7, CertifiedCons DEF Escapes

(* Digits that may forget an error, with more text behind them.            *)
LEMMA LateStops ==
  ASSUME NEW p \in PieceSet, NEW t \in Lists, NEW j \in Int,
         p.op = "digits", 1 <= p.n, p.n < j
  PROVE  Late(<<p>> \o t, j)
<1>1. p.n \in 1..(j - 1)
  BY DEF PieceSet
<1>2. <<<<p>> \o t, j>> \in LateOk
  BY <1>1, ConsState, Zenon DEF LateOk
<1>3. <<<<p>> \o t, j>> \in LateStop
  BY <1>2, ConsState, Zenon DEF LateStop
<1> QED BY <1>2, <1>3, CertifiedStop DEF Late

(* The fields of the time are skipped after an error.                      *)
LEMMA LateCons ==
  ASSUME NEW p \in PieceSet, NEW t \in Lists, NEW j \in Int, Late(t, j), p.op = "field"
  PROVE  Late(<<p>> \o t, j + Width(p))
<1>1. j + Width(p) \in Int
  BY WidthNat
<1>2. <<<<p>> \o t, j + Width(p)>> \in LateOk
  BY <1>1, ConsState, Zenon DEF LateOk
<1> QED BY <1>2, OnwardCons, CertifiedCons DEF Late

-----------------------------------------------------------------------------
(* A list of certain pieces before a list that is certified.               *)

(* Certain pieces before a list that is certified, if every such piece is  *)
(* ok.                                                                     *)
LEMMA CertifiedConcat ==
  ASSUME NEW ops, NEW ok, NEW stop,
         NEW c \in Lists, NEW w \in Nat, Spans(ops, c, w),
         NEW t \in Lists, NEW j \in Int, <<t, j>> \in Certified(ok, stop, Onward),
         \A s \in Lists, k \in Nat : s # <<>> /\ Head(s).op \in ops => <<s \o t, k + j>> \in ok
  PROVE  <<c \o t, w + j>> \in Certified(ok, stop, Onward)
<1>1. PICK H \in SUBSET SpanOk(ops) :
        <<c, w>> \in H /\ \A y \in H : y \in Finished \/ Onward[y] \in H
  BY DEF Spans, Certified
<1> DEFINE R == Certified(ok, stop, Onward)
           G == {x \in States : \E s \in Lists, k \in Nat :
                                  x = <<s \o t, k + j>> /\ <<s, k>> \in H} \cup R
<1>2. R \subseteq ok
  BY CertifiedOk
<1>3. \A y \in G : y \in ok /\ (y \in stop \/ Onward[y] \in G)
  <2> TAKE y \in G
  <2>1. CASE y \in R
    BY <2>1, <1>2, CertifiedStep, Zenon
  <2>2. CASE y \notin R
    <3>1. PICK s \in Lists, k \in Nat : y = <<s \o t, k + j>> /\ <<s, k>> \in H
      BY <2>2
    <3>2. <<s, k>> \in SpanOk(ops) /\ <<s, k>> \in States /\ k \in Int
      BY <1>1, <3>1, PairState
    <3>3. s # <<>>
      <4>1. SUFFICES ASSUME s = <<>> PROVE FALSE
        OBVIOUS
      <4>2. k = 0
        BY <3>2, <4>1, PairState DEF SpanOk
      <4>3. y = <<t, j>>
        BY <3>1, <4>1, <4>2, ListConcat
      <4> QED BY <4>3, <2>2
    <3>4. Head(s).op \in ops
      BY <3>2, <3>3, PairState DEF SpanOk
    <3>5. <<s, k>> \notin Finished
      BY <3>3, <3>2, PairState DEF Finished
    <3>6. Onward[<<s, k>>] \in H /\ Onward[<<s, k>>] = <<Tail(s), k - Width(Head(s))>>
      BY <1>1, <3>1, <3>3, <3>2, <3>5, OnwardState, Zenon
    <3>7. Tail(s) \in Lists /\ Width(Head(s)) \in Nat /\ k - Width(Head(s)) \in Int
      <4>1. Tail(s) \in Lists /\ Width(Head(s)) \in Nat
        BY <3>3, ListParts, WidthNat, Zenon
      <4> QED BY <4>1
    <3>8. k - Width(Head(s)) \in Nat
      <4>1. <<Tail(s), k - Width(Head(s))>> \in SpanOk(ops)
        BY <1>1, <3>6
      <4> QED BY <4>1, <3>7, PairState, Zenon DEF SpanOk
    <3>9. s \o t \in Lists /\ s \o t # <<>>
          /\ Head(s \o t) = Head(s) /\ Tail(s \o t) = Tail(s) \o t
      BY <3>3, ListConcat
    <3>10. k + j \in Int /\ (k + j) - Width(Head(s)) = (k - Width(Head(s))) + j
      BY <3>7
    <3>11. Onward[y] = <<Tail(s) \o t, (k - Width(Head(s))) + j>> /\ Onward[y] \in States
      BY <3>1, <3>9, <3>10, OnwardState, Zenon
    <3>12. Onward[y] \in G
      BY <3>6, <3>7, <3>8, <3>11, Zenon
    <3>13. y \in ok
      BY <3>1, <3>3, <3>4
    <3> QED BY <3>12, <3>13
  <2> QED BY <2>1, <2>2
<1>4. <<c \o t, w + j>> \in G
  <2>1. c \o t \in Lists /\ w + j \in Int
    BY ListConcat
  <2>2. <<c \o t, w + j>> \in States
    BY <2>1, PairState
  <2> QED BY <1>1, <2>2
<1>5. G \in SUBSET ok
  BY <1>3
<1> HIDE DEF G
<1> QED BY <1>3, <1>4, <1>5 DEF Certified

(* The lengths of two lists add up.                                        *)
LEMMA SpansConcat ==
  ASSUME NEW ops, NEW c \in Lists, NEW w \in Nat, Spans(ops, c, w),
         NEW t \in Lists, NEW u \in Nat, Spans(ops, t, u)
  PROVE  Spans(ops, c \o t, w + u)
<1>1. ASSUME NEW s \in Lists, NEW k \in Nat, s # <<>>, Head(s).op \in ops
      PROVE  <<s \o t, k + u>> \in SpanOk(ops)
  <2>1. s \o t \in Lists /\ s \o t # <<>> /\ Head(s \o t) = Head(s)
    BY <1>1, ListConcat
  <2>2. k + u \in Nat /\ k + u \in Int
    OBVIOUS
  <2> QED BY <1>1, <2>1, <2>2, PairState, Zenon DEF SpanOk
<1>2. u \in Int
  OBVIOUS
<1> QED BY <1>1, <1>2, CertifiedConcat DEF Spans

(* A part of a text before one that there is enough room for.              *)
LEMMA RoomyConcat ==
  ASSUME NEW c \in Lists, NEW w \in Nat, Spans(Plain, c, w),
         NEW t \in Lists, t # <<>>, NEW j \in Nat, Roomy(t, j)
  PROVE  Roomy(c \o t, w + j)
<1>1. ASSUME NEW s \in Lists, NEW k \in Nat, s # <<>>, Head(s).op \in Plain
      PROVE  <<s \o t, k + j>> \in RoomyOk
  <2>1. s \o t \in Lists /\ s \o t # <<>> /\ Head(s \o t) = Head(s) /\ Tail(s \o t) = Tail(s) \o t
    BY <1>1, ListConcat
  <2>2. k + j \in Nat /\ k + j \in Int
    OBVIOUS
  <2>3. Tail(s) \o t # <<>>
    BY <1>1, ListParts, ConcatEqualIffEmpty DEF Lists
  <2>4. Fits(Head(s), Tail(s) \o t, k + j)
    BY <1>1, <2>3 DEF Fits, Plain, Checks
  <2> QED BY <2>1, <2>2, <2>4, PairState, Zenon DEF RoomyOk
<1>2. j \in Int
  OBVIOUS
<1> QED BY <1>1, <1>2, CertifiedConcat DEF Roomy

(* A part of a text before a certain error.                                *)
LEMMA ShortConcat ==
  ASSUME NEW c \in Lists, NEW w \in Nat, Spans(Plain, c, w),
         NEW t \in Lists, NEW j \in Int, Short(t, j)
  PROVE  Short(c \o t, w + j)
<1>1. ASSUME NEW s \in Lists, NEW k \in Nat, s # <<>>, Head(s).op \in Plain
      PROVE  <<s \o t, k + j>> \in ShortOk
  <2>1. s \o t \in Lists /\ s \o t # <<>> /\ Head(s \o t) = Head(s) /\ Tail(s \o t) = Tail(s) \o t
    BY <1>1, ListConcat
  <2>2. k + j \in Int
    OBVIOUS
  <2>3. Recovers(Head(s), Tail(s) \o t, k + j)
    BY <1>1 DEF Recovers, Plain
  <2> QED BY <2>1, <2>2, <2>3, PairState, Zenon DEF ShortOk
<1> QED BY <1>1, CertifiedConcat DEF Short

(* Pieces that an error is not hidden by, before the way to end_write.     *)
LEMMA EscapesConcat ==
  ASSUME NEW c \in Lists, NEW w \in Nat, Spans(Plain \cup {"field"}, c, w),
         NEW t \in Lists, t \in Escapes
  PROVE  c \o t \in Escapes
<1> DEFINE ops == Plain \cup {"field"}
<1>1. PICK H \in SUBSET SpanOk(ops) :
        <<c, w>> \in H /\ \A y \in H : y \in Finished \/ Onward[y] \in H
  BY DEF Spans, Certified
<1> DEFINE G == {r \in Lists : \E s \in Lists, k \in Int : r = s \o t /\ <<s, k>> \in H}
                  \cup Escapes
<1>2. Escapes \subseteq EscapeOk
  BY CertifiedOk DEF Escapes
<1>3. \A y \in G : y \in EscapeOk /\ (y \in EscapeStop \/ EscapeNext[y] \in G)
  <2> TAKE y \in G
  <2>1. CASE y \in Escapes
    BY <2>1, <1>2, CertifiedStep, Zenon DEF Escapes
  <2>2. CASE y \notin Escapes
    <3>1. PICK s \in Lists, k \in Int : y = s \o t /\ <<s, k>> \in H
      BY <2>2
    <3>2. <<s, k>> \in SpanOk(ops) /\ <<s, k>> \in States
      BY <1>1, <3>1, PairState
    <3>3. s # <<>>
      BY <3>1, <2>2, ListConcat
    <3>4. Head(s).op \in ops
      BY <3>2, <3>3, PairState DEF SpanOk
    <3>5. <<s, k>> \notin Finished
      BY <3>3, <3>2, PairState DEF Finished
    <3>6. Onward[<<s, k>>] \in H /\ Onward[<<s, k>>] = <<Tail(s), k - Width(Head(s))>>
      BY <1>1, <3>1, <3>3, <3>2, <3>5, OnwardState, Zenon
    <3>7. Tail(s) \in Lists /\ k - Width(Head(s)) \in Int
      <4>1. Tail(s) \in Lists /\ Width(Head(s)) \in Nat
        BY <3>3, ListParts, WidthNat, Zenon
      <4> QED BY <4>1
    <3>8. s \o t \in Lists /\ s \o t # <<>> /\ Tail(s) \o t \in Lists
          /\ Head(s \o t) = Head(s) /\ Tail(s \o t) = Tail(s) \o t
      BY <3>3, <3>7, ListConcat
    <3>9. Head(s).op # "ifOk"
      BY <3>4 DEF Plain
    <3>10. EscapeNext[y] = Tail(s) \o t
      BY <3>1, <3>8, <3>9, Zenon DEF EscapeNext
    <3>11. y \in EscapeOk
      BY <3>1, <3>8, <3>4 DEF EscapeOk
    <3> QED BY <3>6, <3>7, <3>8, <3>10, <3>11
  <2> QED BY <2>1, <2>2
<1>4. c \o t \in G
  <2>1. c \o t \in Lists /\ w \in Int
    BY ListConcat
  <2> QED BY <1>1, <2>1, Zenon
<1>5. G \in SUBSET EscapeOk
  BY <1>3
<1> HIDE DEF G
<1> QED BY <1>3, <1>4, <1>5 DEF Certified, Escapes

(* A list is as long if more pieces are allowed in it.                     *)
LEMMA SpansMonotone ==
  ASSUME NEW ops, NEW more, ops \subseteq more, NEW c, NEW w, Spans(ops, c, w)
  PROVE  Spans(more, c, w)
<1>1. SpanOk(ops) \subseteq SpanOk(more)
  BY DEF SpanOk
<1> QED BY <1>1 DEF Spans, Certified

-----------------------------------------------------------------------------
(* What the first piece of a list does, and what is known of the rest.     *)

(* The length of what is left.                                             *)
LEMMA SpansStep ==
  ASSUME NEW ops, NEW s \in Lists, NEW w \in Int, Spans(ops, s, w)
  PROVE  /\ w \in Nat
         /\ s = <<>> => w = 0
         /\ s # <<>> => /\ Head(s).op \in ops
                        /\ w - Width(Head(s)) \in Nat
                        /\ Spans(ops, Tail(s), w - Width(Head(s)))
<1>1. <<s, w>> \in SpanOk(ops)
  BY CertifiedOk DEF Spans
<1>2. w \in Nat /\ IF s = <<>> THEN w = 0 ELSE Head(s).op \in ops
  BY <1>1, PairState, Zenon DEF SpanOk
<1>3. ASSUME s # <<>>
      PROVE  w - Width(Head(s)) \in Nat /\ Spans(ops, Tail(s), w - Width(Head(s)))
  <2>1. <<s, w>> \notin Finished
    BY <1>3, PairState DEF Finished
  <2>2. Onward[<<s, w>>] \in Certified(SpanOk(ops), Finished, Onward)
    BY <2>1, CertifiedStep DEF Spans
  <2>3. Spans(ops, Tail(s), w - Width(Head(s)))
    BY <2>2, <1>3, OnwardState DEF Spans
  <2>4. <<Tail(s), w - Width(Head(s))>> \in SpanOk(ops)
    BY <2>3, CertifiedOk DEF Spans
  <2> QED BY <2>3, <2>4 DEF SpanOk
<1> QED BY <1>2, <1>3

(* With enough room the first piece fits, and so does what is left.        *)
LEMMA RoomyStep ==
  ASSUME NEW s \in Lists, NEW j \in Int, Roomy(s, j)
  PROVE  /\ j \in Nat
         /\ s = <<>> => j = 0
         /\ s # <<>> => /\ Fits(Head(s), Tail(s), j)
                        /\ j - Width(Head(s)) \in Nat
                        /\ Roomy(Tail(s), j - Width(Head(s)))
<1>1. <<s, j>> \in RoomyOk
  BY CertifiedOk DEF Roomy
<1>2. j \in Nat /\ IF s = <<>> THEN j = 0 ELSE Fits(Head(s), Tail(s), j)
  BY <1>1, PairState, Zenon DEF RoomyOk
<1>3. ASSUME s # <<>>
      PROVE  j - Width(Head(s)) \in Nat /\ Roomy(Tail(s), j - Width(Head(s)))
  <2>1. <<s, j>> \notin Finished
    BY <1>3, PairState DEF Finished
  <2>2. Onward[<<s, j>>] \in Certified(RoomyOk, Finished, Onward)
    BY <2>1, CertifiedStep DEF Roomy
  <2>3. Roomy(Tail(s), j - Width(Head(s)))
    BY <2>2, <1>3, OnwardState DEF Roomy
  <2>4. <<Tail(s), j - Width(Head(s))>> \in RoomyOk
    BY <2>3, CertifiedOk DEF Roomy
  <2> QED BY <2>3, <2>4 DEF RoomyOk
<1> QED BY <1>2, <1>3

(* The first piece raises the error that is certain, or the rest does.     *)
LEMMA ShortStep ==
  ASSUME NEW s \in Lists, NEW j \in Int, Short(s, j)
  PROVE  /\ s # <<>>
         /\ Recovers(Head(s), Tail(s), j)
         /\ Refuses(Head(s), j) \/ Short(Tail(s), j - Width(Head(s)))
<1>1. <<s, j>> \in ShortOk
  BY CertifiedOk DEF Short
<1>2. s # <<>> /\ Recovers(Head(s), Tail(s), j)
  BY <1>1, PairState, Zenon DEF ShortOk
<1>3. ASSUME ~Refuses(Head(s), j)
      PROVE  Short(Tail(s), j - Width(Head(s)))
  <2>1. <<s, j>> \notin ShortStop
    BY <1>3, PairState, Zenon DEF ShortStop
  <2>2. Onward[<<s, j>>] \in Certified(ShortOk, ShortStop, Onward)
    BY <2>1, CertifiedStep DEF Short
  <2> QED BY <2>2, <1>2, OnwardState DEF Short
<1> QED BY <1>2, <1>3

(* Fields are skipped until the digits of the seconds.                     *)
LEMMA LateStep ==
  ASSUME NEW s \in Lists, NEW j \in Int, Late(s, j)
  PROVE  /\ s # <<>>
         /\ \/ Head(s).op = "field" /\ Late(Tail(s), j - Width(Head(s)))
            \/ Head(s).op = "digits" /\ 1 <= Head(s).n /\ Head(s).n < j
<1>1. <<s, j>> \in LateOk
  BY CertifiedOk DEF Late
<1>2. /\ s # <<>>
      /\ Head(s).op = "field" \/ (Head(s).op = "digits" /\ Head(s).n \in 1..(j - 1))
  BY <1>1, PairState, Zenon DEF LateOk
<1>3. ASSUME Head(s).op # "digits"
      PROVE  Late(Tail(s), j - Width(Head(s)))
  <2>1. <<s, j>> \notin LateStop
    BY <1>3, PairState, Zenon DEF LateStop
  <2>2. Onward[<<s, j>>] \in Certified(LateOk, LateStop, Onward)
    BY <2>1, CertifiedStep DEF Late
  <2> QED BY <2>2, <1>2, OnwardState DEF Late
<1> QED BY <1>2, <1>3

(* Each piece that is tried after an error leads to end_write.             *)
LEMMA EscapeStep ==
  ASSUME NEW s \in Lists, s \in Escapes
  PROVE  /\ s # <<>>
         /\ Head(s).op \in Plain \cup {"field", "fail", "ifOk"}
         /\ \/ Head(s).op \in {"end", "fail"}
            \/ Head(s).op = "ifOk" /\ SubSeq(s, Head(s).n + 2, Len(s)) \in Escapes
            \/ Head(s).op # "ifOk" /\ Tail(s) \in Escapes
<1>1. s \in EscapeOk
  BY CertifiedOk DEF Escapes
<1>2. Head(s).op \notin {"end", "fail"} => EscapeNext[s] \in Escapes
  BY <1>1, CertifiedStep DEF Escapes, EscapeStop
<1> QED BY <1>1, <1>2 DEF EscapeOk, EscapeNext

-----------------------------------------------------------------------------
(***************************************************************************)
(* The programs of the writers.                                            *)
(***************************************************************************)

(* The pieces without a length, and their widths.                          *)
LEMMA PieceFacts ==
  /\ Char \in PieceSet /\ Char.op = "char" /\ Width(Char) = 1
  /\ Two \in PieceSet /\ Two.op = "two" /\ Width(Two) = 2
  /\ End \in PieceSet /\ End.op = "end" /\ Width(End) = 0
  /\ Fail \in PieceSet /\ Fail.op = "fail" /\ Width(Fail) = 0
  /\ Null \in PieceSet /\ Null.op = "null" /\ Width(Null) = 0
BY DEF Char, Two, End, Fail, Null, Piece, PieceSet, Ops, Width

(* The pieces that write characters, and their widths.                     *)
LEMMA CountedPieceFacts ==
  ASSUME NEW n \in Nat
  PROVE  /\ String(n) \in PieceSet /\ String(n).op = "string" /\ Width(String(n)) = n
         /\ Digits(n) \in PieceSet /\ Digits(n).op = "digits" /\ Width(Digits(n)) = n
            /\ Digits(n).n = n
         /\ Number(n) \in PieceSet /\ Number(n).op = "number" /\ Width(Number(n)) = n
         /\ Field(n) \in PieceSet /\ Field(n).op = "field" /\ Width(Field(n)) = n + 1
            /\ Field(n).n = n
         /\ Raw(n) \in PieceSet /\ Raw(n).op = "raw" /\ Width(Raw(n)) = n
         /\ Length(n) \in PieceSet /\ Length(n).op = "length" /\ Width(Length(n)) = n
BY DEF String, Digits, Number, Field, Raw, Length, Piece, PieceSet, Ops, Width

(* The pieces that only check.                                             *)
LEMMA GuardPieceFacts ==
  ASSUME NEW n \in Nat
  PROVE  /\ IfOk(n) \in PieceSet /\ IfOk(n).op = "ifOk" /\ Width(IfOk(n)) = 0 /\ IfOk(n).n = n
         /\ Need(n) \in PieceSet /\ Need(n).op = "need" /\ Width(Need(n)) = 0 /\ Need(n).n = n
         /\ NeedMarked(n) \in PieceSet /\ NeedMarked(n).op = "needMarked"
            /\ Width(NeedMarked(n)) = 0 /\ NeedMarked(n).n = n
         /\ NeedBare(n) \in PieceSet /\ NeedBare(n).op = "needBare"
            /\ Width(NeedBare(n)) = 0 /\ NeedBare(n).n = n
BY DEF IfOk, Need, NeedMarked, NeedBare, Piece, PieceSet, Ops, Width

(* Lists of one piece, and of a piece and some more.                       *)
LEMMA Single ==
  ASSUME NEW p \in PieceSet
  PROVE  <<p>> \in Lists /\ <<p>> # <<>> /\ <<>> \in Lists /\ <<p>> = <<p>> \o <<>>
BY ConcatEmptySeq DEF Lists

(* A tuple of pieces is its first piece and the others.                     *)
LEMMA Tuple2 ==
  ASSUME NEW a \in PieceSet, NEW b \in PieceSet
  PROVE  <<a, b>> \in Lists /\ <<a, b>> = <<a>> \o <<b>>
<1>1. <<a, b>> \in Lists /\ <<a, b>> # <<>> /\ Head(<<a, b>>) = a
  BY DEF Lists
<1>2. Tail(<<a, b>>) = <<b>>
  OBVIOUS
<1> QED BY <1>1, <1>2, ListParts

(* The same for three pieces.                                              *)
LEMMA Tuple3 ==
  ASSUME NEW a \in PieceSet, NEW b \in PieceSet, NEW c \in PieceSet
  PROVE  <<a, b, c>> \in Lists /\ <<a, b, c>> = <<a>> \o <<b, c>>
<1>1. <<a, b, c>> \in Lists /\ <<a, b, c>> # <<>> /\ Head(<<a, b, c>>) = a
  BY DEF Lists
<1>2. Tail(<<a, b, c>>) = <<b, c>>
  OBVIOUS
<1> QED BY <1>1, <1>2, ListParts

(* For four.                                                               *)
LEMMA Tuple4 ==
  ASSUME NEW a \in PieceSet, NEW b \in PieceSet, NEW c \in PieceSet, NEW d \in PieceSet
  PROVE  <<a, b, c, d>> \in Lists /\ <<a, b, c, d>> = <<a>> \o <<b, c, d>>
<1>1. <<a, b, c, d>> \in Lists /\ <<a, b, c, d>> # <<>> /\ Head(<<a, b, c, d>>) = a
  BY DEF Lists
<1>2. Tail(<<a, b, c, d>>) = <<b, c, d>>
  OBVIOUS
<1> QED BY <1>1, <1>2, ListParts

(* For five.                                                               *)
LEMMA Tuple5 ==
  ASSUME NEW a \in PieceSet, NEW b \in PieceSet, NEW c \in PieceSet, NEW d \in PieceSet,
         NEW e \in PieceSet
  PROVE  <<a, b, c, d, e>> \in Lists /\ <<a, b, c, d, e>> = <<a>> \o <<b, c, d, e>>
<1>1. <<a, b, c, d, e>> \in Lists /\ <<a, b, c, d, e>> # <<>> /\ Head(<<a, b, c, d, e>>) = a
  BY DEF Lists
<1>2. Tail(<<a, b, c, d, e>>) = <<b, c, d, e>>
  OBVIOUS
<1> QED BY <1>1, <1>2, ListParts

(* For six.                                                                *)
LEMMA Tuple6 ==
  ASSUME NEW a \in PieceSet, NEW b \in PieceSet, NEW c \in PieceSet, NEW d \in PieceSet,
         NEW e \in PieceSet, NEW f \in PieceSet
  PROVE  <<a, b, c, d, e, f>> \in Lists /\ <<a, b, c, d, e, f>> = <<a>> \o <<b, c, d, e, f>>
<1>1. /\ <<a, b, c, d, e, f>> \in Lists /\ <<a, b, c, d, e, f>> # <<>>
      /\ Head(<<a, b, c, d, e, f>>) = a
  BY DEF Lists
<1>2. Tail(<<a, b, c, d, e, f>>) = <<b, c, d, e, f>>
  OBVIOUS
<1> QED BY <1>1, <1>2, ListParts

(* A piece is as long as its width.                                        *)
LEMMA SpansSingle ==
  ASSUME NEW ops, NEW p \in PieceSet, p.op \in ops
  PROVE  Spans(ops, <<p>>, Width(p))
<1>1. Spans(ops, <<p>> \o <<>>, 0 + Width(p))
  BY SpansEmpty, SpansCons, Single
<1>2. 0 + Width(p) = Width(p)
  BY WidthNat
<1> QED BY <1>1, <1>2, Single

(* A part of a text, and the same part of the measuring writer.            *)
Agree(c, d, w) ==
  c \in Lists /\ d \in Lists /\ w \in Nat /\ Spans(Plain, c, w) /\ Spans(Counted, d, w)

(* A part that is written and measured by the same pieces.                 *)
LEMMA AgreePlain ==
  ASSUME NEW c \in Lists, NEW w \in Nat, Spans(Plain, c, w)
  PROVE  Agree(c, c, w)
BY SpansMonotone DEF Agree, Plain, Counted

(* A part that is left out.                                                *)
LEMMA AgreeEmpty == Agree(<<>>, <<>>, 0)
BY AgreePlain, SpansEmpty, EmptySeq DEF Lists

(* A part of one piece.                                                    *)
LEMMA AgreePiece ==
  ASSUME NEW p \in PieceSet, p.op \in Plain
  PROVE  Agree(<<p>>, <<p>>, Width(p))
BY AgreePlain, SpansSingle, Single, WidthNat

(* Two parts after each other.                                             *)
LEMMA AgreeConcat ==
  ASSUME NEW c, NEW d, NEW w, Agree(c, d, w), NEW e, NEW f, NEW u, Agree(e, f, u)
  PROVE  Agree(c \o e, d \o f, w + u)
<1>1. /\ c \in Lists /\ d \in Lists /\ w \in Nat /\ Spans(Plain, c, w) /\ Spans(Counted, d, w)
      /\ e \in Lists /\ f \in Lists /\ u \in Nat /\ Spans(Plain, e, u) /\ Spans(Counted, f, u)
  BY DEF Agree
<1>2. Spans(Plain, c \o e, w + u) /\ Spans(Counted, d \o f, w + u)
  BY <1>1, SpansConcat
<1>3. c \o e \in Lists /\ d \o f \in Lists /\ w + u \in Nat
  BY <1>1, ListConcat
<1> QED BY <1>2, <1>3 DEF Agree

(* A piece before a part.                                                  *)
LEMMA AgreeCons ==
  ASSUME NEW p \in PieceSet, p.op \in Plain, NEW c, NEW w, Agree(c, c, w)
  PROVE  Agree(<<p>> \o c, <<p>> \o c, Width(p) + w)
<1> DEFINE s == <<p>>
           v == Width(p)
<1>1. Agree(s, s, v)
  BY AgreePiece, Zenon
<1> HIDE DEF s, v
<1>2. Agree(s \o c, s \o c, v + w)
  BY <1>1, AgreeConcat, Zenon
<1> QED BY <1>2, Zenon DEF s, v

(* The middle of a date and the end of a time zone.                        *)
LEMMA AgreePairs ==
  /\ Agree(<<Char, Two, Char, Two>>, <<Char, Two, Char, Two>>, 6)
  /\ Agree(<<Two, Char, Two, Char, Two>>, <<Two, Char, Two, Char, Two>>, 8)
<1>1. /\ Char \in PieceSet /\ Char.op \in Plain /\ Width(Char) = 1
      /\ Two \in PieceSet /\ Two.op \in Plain /\ Width(Two) = 2
  BY PieceFacts DEF Plain
<1>2. /\ <<Char, Two>> = <<Char>> \o <<Two>>
      /\ <<Two, Char, Two>> = <<Two>> \o <<Char, Two>>
      /\ <<Char, Two, Char, Two>> = <<Char>> \o <<Two, Char, Two>>
      /\ <<Two, Char, Two, Char, Two>> = <<Two>> \o <<Char, Two, Char, Two>>
  <2>1. <<Char, Two>> = <<Char>> \o <<Two>>
    BY <1>1, Tuple2
  <2>2. <<Two, Char, Two>> = <<Two>> \o <<Char, Two>>
    BY <1>1, Tuple3
  <2>3. <<Char, Two, Char, Two>> = <<Char>> \o <<Two, Char, Two>>
    BY <1>1, Tuple4
  <2>4. <<Two, Char, Two, Char, Two>> = <<Two>> \o <<Char, Two, Char, Two>>
    BY <1>1, Tuple5
  <2> QED BY <2>1, <2>2, <2>3, <2>4, Zenon
<1>3. Agree(<<Two>>, <<Two>>, 2)
  BY <1>1, AgreePiece
<1>4. Agree(<<Char, Two>>, <<Char, Two>>, 1 + 2)
  BY <1>1, <1>2, <1>3, AgreeCons, Zenon
<1>5. Agree(<<Two, Char, Two>>, <<Two, Char, Two>>, 2 + (1 + 2))
  BY <1>1, <1>2, <1>4, AgreeCons, Zenon
<1>6. Agree(<<Char, Two, Char, Two>>, <<Char, Two, Char, Two>>, 1 + (2 + (1 + 2)))
  BY <1>1, <1>2, <1>5, AgreeCons, Zenon
<1>7. Agree(<<Two, Char, Two, Char, Two>>, <<Two, Char, Two, Char, Two>>,
            2 + (1 + (2 + (1 + 2))))
  BY <1>1, <1>2, <1>6, AgreeCons, Zenon
<1>8. 1 + (2 + (1 + 2)) = 6 /\ 2 + (1 + (2 + (1 + 2))) = 8
  OBVIOUS
<1> QED BY <1>6, <1>7, <1>8, Zenon

(* A part that some values have, the sign for one.                         *)
LEMMA AgreeIf ==
  ASSUME NEW b \in BOOLEAN, NEW c, NEW w, Agree(c, c, w)
  PROVE  Agree(If(b, c), If(b, c), IF b THEN w ELSE 0)
BY AgreeEmpty DEF If

(* A text that ends with end_write.                                        *)
LEMMA AgreeEnded ==
  ASSUME NEW c, NEW d, NEW w, Agree(c, d, w)
  PROVE  /\ c \o <<End>> \in Lists /\ c \o <<End>> # <<>> /\ d \o <<End>> \in Lists
         /\ Roomy(c \o <<End>>, w)
         /\ Short(c \o <<End>>, w)
         /\ Spans(Counted, d \o <<End>>, w)
<1>1. /\ c \in Lists /\ d \in Lists /\ w \in Nat /\ w + 0 = w
      /\ Spans(Plain, c, w) /\ Spans(Counted, d, w)
  BY DEF Agree
<1>2. End \in PieceSet /\ End.op = "end" /\ Width(End) = 0 /\ <<End>> \in Lists
      /\ <<End>> # <<>> /\ <<>> \in Lists /\ <<End>> = <<End>> \o <<>> /\ 0 + Width(End) = 0
      /\ 0 \in Nat /\ 0 \in Int
  BY PieceFacts, Single
<1>3. Roomy(<<End>>, 0)
  <2>1. Fits(End, <<>>, 0 + Width(End))
    BY <1>2 DEF Fits, Checks
  <2>2. Roomy(<<End>> \o <<>>, 0 + Width(End))
    BY <2>1, <1>2, RoomyCons, RoomyEmpty, Zenon
  <2> QED BY <2>2, <1>2
<1>4. Short(<<End>>, 0)
  <2>1. Refuses(End, 0)
    BY <1>2 DEF Refuses
  <2>2. Short(<<End>> \o <<>>, 0)
    BY <2>1, <1>2, ShortStops, Zenon DEF Checks
  <2> QED BY <2>2, <1>2
<1>5. Spans(Counted, <<End>>, 0)
  BY <1>2, SpansSingle DEF Counted
<1>6. Roomy(c \o <<End>>, w + 0) /\ Short(c \o <<End>>, w + 0)
      /\ Spans(Counted, d \o <<End>>, w + 0)
  BY <1>1, <1>2, <1>3, <1>4, <1>5, RoomyConcat, ShortConcat, SpansConcat, Zenon
<1>7. c \o <<End>> \in Lists /\ c \o <<End>> # <<>> /\ d \o <<End>> \in Lists
  BY <1>1, <1>2, ListConcat, ConcatEqualIffEmpty DEF Lists
<1> QED BY <1>1, <1>6, <1>7

(* write_timezone.                                                         *)
LEMMA ZoneAgrees ==
  ASSUME NEW z \in Zones \ {"bad"}
  PROVE  \E w \in 0..6 : Agree(Zone(z, FALSE), Zone(z, TRUE), w)
<1>1. CASE z = "local"
  BY <1>1, AgreeEmpty DEF Zone
<1>2. CASE z = "utc"
  <2>1. Agree(<<Char>>, <<Length(1)>>, 1)
    <3>1. /\ Char \in PieceSet /\ Char.op \in Plain /\ Width(Char) = 1
          /\ Length(1) \in PieceSet /\ Length(1).op \in Counted /\ Width(Length(1)) = 1
      BY PieceFacts, CountedPieceFacts DEF Plain, Counted
    <3>2. Spans(Plain, <<Char>>, 1) /\ Spans(Counted, <<Length(1)>>, 1)
      BY <3>1, SpansSingle
    <3> QED BY <3>1, <3>2, Single DEF Agree
  <2> QED BY <2>1, <1>2 DEF Zone
<1>3. CASE z = "offset"
  <2>1. Length(6) \in PieceSet /\ Length(6).op \in Counted /\ Width(Length(6)) = 6
    BY CountedPieceFacts DEF Counted
  <2>2. Spans(Counted, <<Length(6)>>, 6) /\ <<Length(6)>> \in Lists
    BY <2>1, SpansSingle, Single
  <2>3. Agree(<<Char, Two, Char, Two>>, <<Length(6)>>, 6)
    BY <2>2, AgreePairs, Zenon DEF Agree
  <2> QED BY <2>3, <1>3 DEF Zone
<1> QED BY <1>1, <1>2, <1>3 DEF Zones

-----------------------------------------------------------------------------
(* Values that the writers refuse also when measuring.                     *)
Bad(v) ==
  \/ v.kind = "nothing"
  \/ v.kind \in {"duration", "date", "time", "dateTime"} /\ ~v.valid
  \/ v.kind \in {"date", "time", "dateTime"} /\ v.zone = "bad"

(* Values that they only refuse when writing.                              *)
LateRefused(v) == v.kind = "decimal" /\ v.class \in {"nan", "-inf", "inf"}

(* The first piece finds out that there is no room.                        *)
Bare(s, j) == s # <<>> /\ Head(s).op = "needBare" /\ Head(s).n = j + 1

Written(s, j) == s \in Lists /\ Roomy(s, j) /\ (Short(s, j) \/ Bare(s, j))

Measures(s, j) == s \in Lists /\ j \in Nat /\ Spans(Counted, s, j)

Declared(v, n) == v.kind \in DOMAIN MaxLength => n <= MaxLength[v.kind]

(* What is measured is what is written, and not longer than declared.      *)
Agrees(v, n) ==
  /\ Measures(Program(v, TRUE), n)
  /\ Written(Program(v, FALSE), n)
  /\ Declared(v, n)

(* A writer that works out its length is measured by it.                   *)
LEMMA MeasuresLength ==
  ASSUME NEW n \in Nat
  PROVE  Measures(<<Length(n)>>, n)
<1>1. /\ Length(n) \in PieceSet /\ Length(n).op \in Counted /\ Width(Length(n)) = n
      /\ <<Length(n)>> \in Lists
  BY CountedPieceFacts, Single DEF Counted
<1>2. Spans(Counted, <<Length(n)>>, n)
  BY <1>1, SpansSingle
<1> QED BY <1>1, <1>2 DEF Measures

(* end_write reports any error.                                            *)
LEMMA EndEscapes == <<End>> \in Escapes
BY PieceFacts, EscapesEnd, Single

(* end_write alone.                                                        *)
LEMMA EndOnly ==
  /\ <<End>> \in Lists /\ <<End>> # <<>>
  /\ Roomy(<<End>>, 0) /\ Short(<<End>>, 0) /\ Spans(Counted, <<End>>, 0)
<1>1. <<End>> \in Lists /\ <<>> \o <<End>> = <<End>>
  BY PieceFacts, Single, ListConcat
<1> QED BY <1>1, AgreeEmpty, AgreeEnded

(* A piece before two lists.                                               *)
LEMMA ConsConcat ==
  ASSUME NEW p \in PieceSet, NEW s \in Lists, NEW t \in Lists
  PROVE  (<<p>> \o s) \o t = <<p>> \o (s \o t) /\ s \o t \in Lists
BY Single, ConcatAssociative, ConcatProperties DEF Lists

(* Digits and numbers before what end_write is reached from.               *)
LEMMA CheckedThen ==
  ASSUME NEW p \in PieceSet, p.op \in {"digits", "number"}, NEW t \in Lists, t \in Escapes
  PROVE  /\ \A j \in Nat : Roomy(t, j) => Roomy(<<p>> \o t, j + Width(p))
         /\ \A j \in Int : Short(t, j) => Short(<<p>> \o t, j + Width(p))
<1>1. t # <<>>
  BY EscapeStep
<1>2. ASSUME NEW j \in Nat, Roomy(t, j) PROVE Roomy(<<p>> \o t, j + Width(p))
  <2>1. Fits(p, t, j + Width(p))
    BY <1>1 DEF Fits, Checks
  <2> QED BY <1>2, <2>1, RoomyCons
<1>3. ASSUME NEW j \in Int, Short(t, j) PROVE Short(<<p>> \o t, j + Width(p))
  <2>1. Recovers(p, t, j + Width(p))
    BY DEF Recovers
  <2> QED BY <1>3, <2>1, ShortCons
<1> QED BY <1>2, <1>3

(* Characters stored without a check, with enough room.                    *)
LEMMA RoomyRaw ==
  ASSUME NEW n \in Nat, NEW t \in Lists, t # <<>>, NEW j \in Nat, Roomy(t, j)
  PROVE  Roomy(<<Raw(n)>> \o t, j + n)
<1>1. Raw(n) \in PieceSet /\ Raw(n).op = "raw" /\ Width(Raw(n)) = n
  BY CountedPieceFacts
<1>2. Fits(Raw(n), t, j + n)
  BY <1>1 DEF Fits, Checks
<1> QED BY <1>1, <1>2, RoomyCons

(* A check of the room for all that follows.                               *)
LEMMA RoomyCheck ==
  ASSUME NEW p \in PieceSet, p.op \in Checks, NEW t \in Lists, t # <<>>,
         NEW j \in Nat, Roomy(t, j), p.n <= j + 1
  PROVE  Roomy(<<p>> \o t, j)
<1>1. Width(p) = 0 /\ j + Width(p) = j
  BY DEF Width, Checks
<1>2. Fits(p, t, j + Width(p))
  BY <1>1 DEF Fits, Checks
<1>3. Roomy(<<p>> \o t, j + Width(p))
  BY <1>2, RoomyCons
<1> QED BY <1>1, <1>3

(* A check fails, or an error is certain after it.                         *)
LEMMA ShortCheck ==
  ASSUME NEW p \in PieceSet, p.op \in Checks \ {"needBare"}, NEW t \in Lists,
         NEW j \in Int, j < p.n \/ Short(t, j)
  PROVE  Short(<<p>> \o t, j)
<1>1. CASE j < p.n
  BY <1>1, ShortStops DEF Refuses
<1>2. CASE Short(t, j)
  <2>1. Width(p) = 0 /\ j + Width(p) = j
    BY DEF Width, Checks
  <2>2. Recovers(p, t, j + Width(p))
    BY DEF Recovers, Checks
  <2>3. Short(<<p>> \o t, j + Width(p))
    BY <1>2, <2>2, ShortCons
  <2> QED BY <2>1, <2>3
<1> QED BY <1>1, <1>2

(* A null stored at the end, with or without end_write after it.           *)
LEMMA RoomyNull ==
  ASSUME NEW t \in {<<>>, <<End>>}
  PROVE  /\ t \in Lists /\ <<Null>> \o t \in Lists /\ <<Null>> \o t # <<>>
         /\ Roomy(<<Null>> \o t, 0)
<1>1. Null \in PieceSet /\ Null.op = "null" /\ 0 + Width(Null) = 0 /\ 0 \in Nat
  BY PieceFacts
<1>2. t \in Lists /\ Roomy(t, 0)
  BY <1>1, EndOnly, RoomyEmpty, Single, Zenon
<1>3. Fits(Null, t, 0 + Width(Null))
  BY <1>1 DEF Fits, Checks
<1>4. Roomy(<<Null>> \o t, 0 + Width(Null))
  BY <1>1, <1>2, <1>3, RoomyCons, Zenon
<1> QED BY <1>1, <1>2, <1>4, ListCons

(* write_special, after a check of less.                                   *)
LEMMA SpecialWritten ==
  ASSUME NEW p \in PieceSet, p.op \in Checks \ {"needBare"}, NEW n \in Nat, p.n <= n + 1,
         NEW t \in {<<>>, <<End>>}
  PROVE  Written((<<p>> \o Special(n)) \o t, n)
<1> DEFINE z == <<Null>> \o t
           y == <<Raw(n)>> \o z
           x == <<Need(n + 1)>> \o y
<1>1. /\ Need(n + 1) \in PieceSet /\ Need(n + 1).op \in Checks \ {"needBare"}
      /\ Need(n + 1).n = n + 1 /\ Raw(n) \in PieceSet /\ Null \in PieceSet
  BY GuardPieceFacts, CountedPieceFacts, PieceFacts DEF Checks
<1>2. (<<p>> \o Special(n)) \o t = <<p>> \o x
  <2>1. /\ Special(n) = <<Need(n + 1)>> \o <<Raw(n), Null>> /\ Special(n) \in Lists
        /\ <<Raw(n), Null>> = <<Raw(n)>> \o <<Null>> /\ <<Raw(n), Null>> \in Lists
        /\ <<Null>> \in Lists /\ t \in Lists
    BY <1>1, Tuple2, Tuple3, Single, RoomyNull, Zenon DEF Special
  <2>2. <<Raw(n), Null>> \o t = y
    <3>1. (<<Raw(n)>> \o <<Null>>) \o t = <<Raw(n)>> \o (<<Null>> \o t)
      BY <1>1, <2>1, ConsConcat, Zenon
    <3> QED BY <2>1, <3>1
  <2>3. Special(n) \o t = x
    <3>1. (<<Need(n + 1)>> \o <<Raw(n), Null>>) \o t
            = <<Need(n + 1)>> \o (<<Raw(n), Null>> \o t)
      BY <1>1, <2>1, ConsConcat, Zenon
    <3> QED BY <2>1, <2>2, <3>1
  <2>4. (<<p>> \o Special(n)) \o t = <<p>> \o (Special(n) \o t)
    BY <2>1, ConsConcat, Zenon
  <2> QED BY <2>3, <2>4
<1>3. z \in Lists /\ z # <<>> /\ Roomy(z, 0)
  BY RoomyNull
<1>4. y \in Lists /\ y # <<>> /\ Roomy(y, 0 + n) /\ 0 + n = n
  <2>1. 0 \in Nat /\ 0 + n = n
    OBVIOUS
  <2> QED BY <1>1, <1>3, <2>1, ListCons, RoomyRaw, Zenon
<1>5. x \in Lists /\ x # <<>> /\ Roomy(x, n)
  <2>1. Need(n + 1).n <= n + 1
    BY <1>1
  <2> QED BY <1>1, <1>4, <2>1, ListCons, RoomyCheck, Zenon
<1>6. Short(x, n)
  <2>1. n \in Int /\ n < n + 1
    OBVIOUS
  <2> QED BY <1>1, <1>4, <2>1, ShortCheck, Zenon
<1>7. <<p>> \o x \in Lists /\ Roomy(<<p>> \o x, n) /\ Short(<<p>> \o x, n)
  <2>1. n \in Int /\ p.op \in Checks
    OBVIOUS
  <2> QED BY <1>5, <1>6, <2>1, ListCons, RoomyCheck, ShortCheck, Zenon
<1> QED BY <1>2, <1>7 DEF Written

-----------------------------------------------------------------------------

(* exess_write_boolean.                                                    *)
LEMMA BooleanAgrees ==
  ASSUME NEW v, v.kind = "boolean", v.true \in BOOLEAN
  PROVE  \E n \in Nat : Agrees(v, n)
<1> DEFINE n == IF v.true THEN 4 ELSE 5
<1>1. n \in Nat /\ n <= 5 /\ String(n) \in PieceSet /\ String(n).op \in Plain
      /\ Width(String(n)) = n
  BY CountedPieceFacts DEF Plain
<1>2. Agree(<<String(n)>>, <<String(n)>>, n)
  BY <1>1, AgreePiece
<1>3. \A m \in BOOLEAN : Program(v, m) = <<String(n)>> \o <<End>>
  <2>1. <<String(n), End>> = <<String(n)>> \o <<End>>
    BY <1>1, PieceFacts, Tuple2
  <2> QED BY <2>1 DEF Program, Boolean
<1>4. Measures(Program(v, TRUE), n) /\ Written(Program(v, FALSE), n)
  BY <1>1, <1>2, <1>3, AgreeEnded DEF Measures, Written
<1>5. Declared(v, n)
  BY <1>1 DEF Declared, MaxLength
<1> QED BY <1>1, <1>4, <1>5 DEF Agrees

(* exess_write_long and exess_write_ulong.                                 *)
LEMMA IntegerAgrees ==
  ASSUME NEW v, v.kind = "integer", v.negative \in BOOLEAN, v.lowest \in BOOLEAN,
         v.digits \in 1..(IF v.negative THEN 19 ELSE 20)
  PROVE  \E n \in Nat : Agrees(v, n)
<1> DEFINE n == LongLength(v)
<1>1. n \in Nat /\ n <= 20 /\ v.digits \in Nat
  BY DEF LongLength, Ones
<1>2. Program(v, TRUE) = <<Length(n)>> /\ Measures(Program(v, TRUE), n)
  BY <1>1, MeasuresLength DEF Program, Integer
<1>3. Declared(v, n)
  BY <1>1 DEF Declared, MaxLength
<1>4. CASE v.lowest
  <2>1. n = 20 /\ String(20) \in PieceSet /\ String(20).op \in Plain /\ Width(String(20)) = 20
    BY <1>4, CountedPieceFacts DEF LongLength, Plain
  <2>2. Agree(<<String(20)>>, <<String(20)>>, 20)
    BY <2>1, AgreePiece
  <2>3. Program(v, FALSE) = <<String(20)>> \o <<End>>
    <3>1. <<String(20), End>> = <<String(20)>> \o <<End>>
      BY <2>1, PieceFacts, Tuple2
    <3> QED BY <3>1, <1>4 DEF Program, Integer
  <2> QED BY <1>1, <1>2, <1>3, <2>1, <2>2, <2>3, AgreeEnded DEF Agrees, Written
<1>5. CASE ~v.lowest
  <2> DEFINE p == Digits(v.digits)
             c == If(v.negative, <<Char>>)
             t == <<p>> \o <<End>>
             w == IF v.negative THEN 1 ELSE 0
  <2>1. p \in PieceSet /\ p.op \in {"digits", "number"} /\ Width(p) = v.digits
    BY <1>1, CountedPieceFacts
  <2>2. <<End>> \in Lists /\ <<End>> \in Escapes /\ Roomy(<<End>>, 0) /\ Short(<<End>>, 0)
    BY EndOnly, EndEscapes
  <2>3. 0 \in Nat /\ 0 \in Int /\ 0 + Width(p) = v.digits
    BY <1>1, <2>1
  <2>4. Roomy(t, v.digits) /\ Short(t, v.digits)
    BY <2>1, <2>2, <2>3, CheckedThen, Zenon
  <2>5. t \in Lists /\ t # <<>>
    BY <2>1, <2>2, ListCons, Zenon
  <2>6. Agree(c, c, w)
    BY PieceFacts, AgreePiece, AgreeIf DEF Plain
  <2>7. c \in Lists /\ w \in Nat /\ Spans(Plain, c, w)
    BY <2>6 DEF Agree
  <2>8. Roomy(c \o t, w + v.digits) /\ Short(c \o t, w + v.digits) /\ c \o t \in Lists
    <3>1. v.digits \in Int
      BY <1>1
    <3> QED BY <1>1, <3>1, <2>4, <2>5, <2>7, RoomyConcat, ShortConcat, ListConcat, Zenon
  <2>9. w + v.digits = n
    BY <1>5 DEF LongLength, Ones
  <2>10. Program(v, FALSE) = c \o t
    <3>1. <<p, End>> = <<p>> \o <<End>>
      BY <2>1, PieceFacts, Tuple2
    <3> QED BY <3>1, <1>5 DEF Program, Integer
  <2> QED BY <1>1, <1>2, <1>3, <2>8, <2>9, <2>10 DEF Agrees, Written
<1> QED BY <1>4, <1>5

(* The digits of a decimal, split or extended by zeros, and the point.     *)
LEMMA DecimalPartsLength ==
  ASSUME NEW v, v.digits \in Nat \ {0}, v.expt \in Int
  PROVE  /\ DecimalZeros(v) \in Nat /\ v.digits + 1 + DecimalZeros(v) >= 3
         /\ \E a, b, c \in Nat : /\ DecimalParts(v) = <<Raw(a), Raw(b), Raw(c)>>
                                 /\ a + b + c = v.digits + 1 + DecimalZeros(v)
<1>1. CASE v.expt >= v.digits - 1
  <2>1. DecimalZeros(v) = v.expt - (v.digits - 1) + 1
    BY <1>1 DEF DecimalZeros
  <2>2. DecimalParts(v) = <<Raw(v.digits), Raw(v.expt - (v.digits - 1)), Raw(2)>>
    BY <1>1 DEF DecimalParts
  <2>3. /\ v.digits \in Nat /\ v.expt - (v.digits - 1) \in Nat /\ 2 \in Nat
        /\ v.digits + (v.expt - (v.digits - 1)) + 2 = v.digits + 1 + DecimalZeros(v)
        /\ DecimalZeros(v) \in Nat /\ v.digits + 1 + DecimalZeros(v) >= 3
    BY <1>1, <2>1
  <2> QED BY <2>2, <2>3, Zenon
<1>2. CASE v.expt < v.digits - 1 /\ v.expt < 0
  <2>1. DecimalZeros(v) = 1 + (-v.expt - 1)
    BY <1>2 DEF DecimalZeros
  <2>2. DecimalParts(v) = <<Raw(2), Raw(-v.expt - 1), Raw(v.digits)>>
    BY <1>2 DEF DecimalParts
  <2>3. /\ v.digits \in Nat /\ -v.expt - 1 \in Nat /\ 2 \in Nat
        /\ 2 + (-v.expt - 1) + v.digits = v.digits + 1 + DecimalZeros(v)
        /\ DecimalZeros(v) \in Nat /\ v.digits + 1 + DecimalZeros(v) >= 3
    BY <1>2, <2>1
  <2> QED BY <2>2, <2>3, Zenon
<1>3. CASE v.expt < v.digits - 1 /\ 0 <= v.expt
  <2>1. DecimalZeros(v) = 0
    BY <1>3 DEF DecimalZeros
  <2>2. DecimalParts(v) = <<Raw(v.expt + 1), Raw(1), Raw(v.digits - (v.expt + 1))>>
    BY <1>3 DEF DecimalParts
  <2>3. /\ v.expt + 1 \in Nat /\ 1 \in Nat /\ v.digits - (v.expt + 1) \in Nat
        /\ (v.expt + 1) + 1 + (v.digits - (v.expt + 1)) = v.digits + 1 + DecimalZeros(v)
        /\ DecimalZeros(v) \in Nat /\ v.digits + 1 + DecimalZeros(v) >= 3
    BY <1>3, <2>1
  <2> QED BY <2>2, <2>3, Zenon
<1> QED BY <1>1, <1>2, <1>3

(* Three runs of characters after a check of the room for them.            *)
LEMMA PartsWritten ==
  ASSUME NEW a \in Nat, NEW b \in Nat, NEW c \in Nat
  PROVE  LET s == (<<Need(a + b + c + 1)>> \o <<Raw(a), Raw(b), Raw(c)>>) \o <<End>>
         IN  s \in Lists /\ s # <<>> /\ Roomy(s, a + b + c) /\ Short(s, a + b + c)
<1> DEFINE p == Need(a + b + c + 1)
           w == <<End>>
           x == <<Raw(c)>> \o w
           y == <<Raw(b)>> \o x
           z == <<Raw(a)>> \o y
           s == (<<p>> \o <<Raw(a), Raw(b), Raw(c)>>) \o w
<1>1. /\ p \in PieceSet /\ p.op \in Checks /\ p.op \in Checks \ {"needBare"}
      /\ p.n = a + b + c + 1
      /\ Raw(a) \in PieceSet /\ Raw(b) \in PieceSet /\ Raw(c) \in PieceSet
  <2>1. a + b + c + 1 \in Nat
    OBVIOUS
  <2> QED BY <2>1, GuardPieceFacts, CountedPieceFacts DEF Checks
<1>2. w \in Lists /\ w # <<>> /\ Roomy(w, 0)
  BY EndOnly
<1>3. x \in Lists /\ x # <<>> /\ Roomy(x, 0 + c)
  BY <1>1, <1>2, ListCons, RoomyRaw
<1>4. y \in Lists /\ y # <<>> /\ Roomy(y, (0 + c) + b)
  <2>1. 0 + c \in Nat
    OBVIOUS
  <2> QED BY <1>1, <1>3, <2>1, ListCons, RoomyRaw, Zenon
<1>5. z \in Lists /\ z # <<>> /\ Roomy(z, ((0 + c) + b) + a)
  <2>1. (0 + c) + b \in Nat
    OBVIOUS
  <2> QED BY <1>1, <1>4, <2>1, ListCons, RoomyRaw, Zenon
<1>6. s = <<p>> \o z
  <2>1. /\ <<Raw(a), Raw(b), Raw(c)>> = <<Raw(a)>> \o <<Raw(b), Raw(c)>>
        /\ <<Raw(b), Raw(c)>> = <<Raw(b)>> \o <<Raw(c)>>
        /\ <<Raw(a), Raw(b), Raw(c)>> \in Lists /\ <<Raw(b), Raw(c)>> \in Lists
        /\ <<Raw(c)>> \in Lists
    BY <1>1, Tuple2, Tuple3, Single, Zenon
  <2>2. (<<Raw(b)>> \o <<Raw(c)>>) \o w = <<Raw(b)>> \o (<<Raw(c)>> \o w)
    BY <1>1, <1>2, <2>1, ConsConcat, Zenon
  <2>3. (<<Raw(a)>> \o <<Raw(b), Raw(c)>>) \o w = <<Raw(a)>> \o (<<Raw(b), Raw(c)>> \o w)
    BY <1>1, <1>2, <2>1, ConsConcat, Zenon
  <2>4. s = <<p>> \o (<<Raw(a), Raw(b), Raw(c)>> \o w)
    BY <1>1, <1>2, <2>1, ConsConcat, Zenon
  <2> QED BY <2>1, <2>2, <2>3, <2>4
<1>7. ((0 + c) + b) + a = a + b + c /\ a + b + c \in Nat /\ a + b + c \in Int
      /\ a + b + c < p.n /\ p.n <= a + b + c + 1
  BY <1>1
<1>8. Roomy(<<p>> \o z, a + b + c) /\ Short(<<p>> \o z, a + b + c)
  BY <1>1, <1>5, <1>7, RoomyCheck, ShortCheck, Zenon
<1>9. s \in Lists /\ s # <<>>
  BY <1>1, <1>5, <1>6, ListCons
<1> HIDE DEF p, w, x, y, z
<1> QED BY <1>6, <1>8, <1>9 DEF p, w

(* exess_write_decimal, of a number.                                       *)
LEMMA DecimalAgrees ==
  ASSUME NEW v, v.kind = "decimal", v.class \in Classes \ {"nan", "-inf", "inf"},
         v.digits \in Nat \ {0}, v.expt \in Int
  PROVE  \E n \in Nat : Agrees(v, n)
<1> DEFINE n == DecimalLength(v)
<1>1. Declared(v, n)
  BY DEF Declared, MaxLength
<1>2. SUFFICES n \in Nat /\ Written(Program(v, FALSE), n)
  <2>1. Program(v, TRUE) = <<Length(n)>>
    BY DEF Program, Decimal
  <2> QED BY <1>1, <2>1, MeasuresLength DEF Agrees
<1>3. Need(3) \in PieceSet /\ Need(3).op \in Checks /\ Need(3).n = 3
      /\ Need(3).op \in Checks \ {"needBare"}
  BY GuardPieceFacts DEF Checks
<1>4. CASE v.class \in {"-0", "0"}
  <2>1. n \in {3, 4} /\ Program(v, FALSE) = <<Need(3)>> \o Special(n)
    BY <1>4 DEF DecimalLength, Program, Decimal
  <2>2. Written((<<Need(3)>> \o Special(n)) \o <<>>, n)
    <3>1. n \in Nat /\ Need(3).n <= n + 1
      BY <1>3, <2>1
    <3> QED BY <1>3, <3>1, SpecialWritten
  <2>3. <<Need(3)>> \o Special(n) \in Lists
    <3>1. Special(n) \in Lists
      <4>1. n \in Nat /\ n + 1 \in Nat
        BY <2>1
      <4> QED BY <4>1, GuardPieceFacts, CountedPieceFacts, PieceFacts, Tuple3 DEF Special
    <3> QED BY <1>3, <3>1, ListCons
  <2>4. (<<Need(3)>> \o Special(n)) \o <<>> = <<Need(3)>> \o Special(n)
    BY <2>3, ConcatEmptySeq DEF Lists
  <2>5. n \in Nat
    BY <2>1
  <2> HIDE DEF n
  <2> QED BY <2>1, <2>2, <2>4, <2>5
<1>5. CASE v.class \in {"-", "+"}
  <2> DEFINE m == v.digits + 1 + DecimalZeros(v)
             c == If(v.class = "-", <<Raw(1)>>)
  <2>1. PICK a, b, d \in Nat : DecimalParts(v) = <<Raw(a), Raw(b), Raw(d)>> /\ a + b + d = m
    BY DecimalPartsLength
  <2>2. m \in Nat /\ 3 <= m /\ n = Ones(v.class = "-") + m
    BY <1>5, DecimalPartsLength DEF DecimalLength, Ones
  <2> DEFINE q == <<Need(m + 1)>>
             r == DecimalParts(v)
             s == (q \o r) \o <<End>>
  <2>3. s \in Lists /\ s # <<>> /\ Roomy(s, m) /\ Short(s, m)
    BY <2>1, PartsWritten
  <2>4. q \in Lists /\ r \in Lists /\ <<End>> \in Lists
    <3>1. m + 1 \in Nat
      BY <2>2
    <3>2. Need(m + 1) \in PieceSet
      BY <3>1, GuardPieceFacts
    <3>3. Raw(a) \in PieceSet /\ Raw(b) \in PieceSet /\ Raw(d) \in PieceSet
      BY CountedPieceFacts
    <3>4. <<Raw(a), Raw(b), Raw(d)>> \in Lists
      BY <3>3, Tuple3
    <3>5. q \in Lists
      BY <3>2, Single
    <3> QED BY <2>1, <3>4, <3>5, EndOnly
  <2>5. Program(v, FALSE) = <<Need(3)>> \o (((c \o q) \o r) \o <<End>>)
    BY <1>5 DEF Program, Decimal
  <2> HIDE DEF q, r
  <2>6. CASE v.class = "+"
    <3>1. c = <<>> /\ n = m
      BY <2>2, <2>6 DEF If, Ones
    <3>2. Program(v, FALSE) = <<Need(3)>> \o s
      <4>1. <<>> \o q = q
        BY <2>4, ListConcat
      <4> QED BY <2>5, <3>1, <4>1
    <3>3. Need(3).n <= m + 1 /\ m \in Int
      BY <1>3, <2>2
    <3> HIDE DEF s, m, n
    <3>4. Roomy(<<Need(3)>> \o s, m) /\ Short(<<Need(3)>> \o s, m) /\ <<Need(3)>> \o s \in Lists
      BY <1>3, <2>2, <2>3, <3>3, RoomyCheck, ShortCheck, ListCons, Zenon
    <3> QED BY <2>2, <3>1, <3>2, <3>4 DEF Written
  <2>7. CASE v.class = "-"
    <3> DEFINE u == <<Raw(1)>> \o s
    <3>1. c = <<Raw(1)>> /\ n = m + 1
      BY <2>2, <2>7 DEF If, Ones
    <3>2. Raw(1) \in PieceSet /\ Raw(1).op = "raw" /\ Width(Raw(1)) = 1 /\ <<Raw(1)>> \in Lists
      BY CountedPieceFacts, Single
    <3>3. ((c \o q) \o r) \o <<End>> = u
      <4>1. (<<Raw(1)>> \o q) \o r = <<Raw(1)>> \o (q \o r) /\ q \o r \in Lists
        BY <2>4, <3>2, ConsConcat
      <4>2. (<<Raw(1)>> \o (q \o r)) \o <<End>> = <<Raw(1)>> \o ((q \o r) \o <<End>>)
        BY <2>4, <3>2, <4>1, ConsConcat
      <4> QED BY <3>1, <4>1, <4>2
    <3>4. Need(3).n <= (m + 1) + 1 /\ m \in Int /\ m + 1 \in Nat /\ m + 1 \in Int
      BY <1>3, <2>2
    <3> HIDE DEF s, m, n, c
    <3>5. Roomy(u, m + 1) /\ u \in Lists /\ u # <<>>
      BY <2>2, <2>3, <3>2, RoomyRaw, ListCons
    <3>6. Short(u, m + 1)
      <4>1. Recovers(Raw(1), s, m + 1)
        BY <3>2 DEF Recovers
      <4> QED BY <2>3, <3>2, <3>4, <4>1, ShortCons
    <3> HIDE DEF u
    <3>7. Roomy(<<Need(3)>> \o u, m + 1) /\ Short(<<Need(3)>> \o u, m + 1)
          /\ <<Need(3)>> \o u \in Lists
      BY <1>3, <3>4, <3>5, <3>6, RoomyCheck, ShortCheck, ListCons, Zenon
    <3> QED BY <2>5, <3>1, <3>3, <3>4, <3>7 DEF Written
  <2> QED BY <1>5, <2>6, <2>7
<1> QED BY <1>4, <1>5 DEF Classes

(* exess_write_hex and exess_write_base64.                                 *)
LEMMA BlobAgrees ==
  ASSUME NEW v, v.kind \in {"hex", "base64"}, v.size \in Nat
  PROVE  \E n \in Nat : Agrees(v, n)
<1> DEFINE n == IF v.kind = "hex" THEN 2 * v.size ELSE ((v.size + 2) \div 3) * 4
           p == NeedBare(n + 1)
           t == <<Raw(n)>> \o <<End>>
<1>1. n \in Nat
  <2>1. (v.size + 2) \div 3 \in Nat
    OBVIOUS
  <2> QED BY <2>1
<1>2. Program(v, TRUE) = <<Length(n)>> /\ Program(v, FALSE) = <<p, Raw(n), End>>
  BY DEF Program, Blob
<1>3. Declared(v, n)
  BY DEF Declared, MaxLength
<1> HIDE DEF n
<1>4. /\ p \in PieceSet /\ p.op \in Checks /\ p.op = "needBare" /\ p.n = n + 1 /\ p.n <= n + 1
      /\ Raw(n) \in PieceSet /\ End \in PieceSet
  BY <1>1, GuardPieceFacts, CountedPieceFacts, PieceFacts DEF Checks
<1>5. <<p, Raw(n), End>> = <<p>> \o t
  <2>1. <<Raw(n), End>> = <<Raw(n)>> \o <<End>>
    BY <1>4, Tuple2
  <2>2. <<p, Raw(n), End>> = <<p>> \o <<Raw(n), End>>
    BY <1>4, Tuple3
  <2> QED BY <2>1, <2>2
<1>6. Roomy(t, 0 + n) /\ t \in Lists /\ t # <<>> /\ 0 + n = n
  <2>1. 0 \in Nat /\ 0 + n = n
    BY <1>1
  <2> QED BY <1>1, <1>4, <2>1, EndOnly, RoomyRaw, ListCons, Zenon
<1> HIDE DEF t, p
<1>7. Roomy(<<p>> \o t, n) /\ <<p>> \o t \in Lists /\ Bare(<<p>> \o t, n)
  BY <1>1, <1>4, <1>6, RoomyCheck, ListCons DEF Bare
<1> QED BY <1>1, <1>2, <1>3, <1>5, <1>7, MeasuresLength DEF Agrees, Written

(* A list that begins with a piece, before another one.                    *)
LEMMA ListThen ==
  ASSUME NEW s \in Lists, s # <<>>, NEW t \in Lists
  PROVE  s \o t = <<Head(s)>> \o (Tail(s) \o t)
<1>1. Head(s) \in PieceSet /\ Tail(s) \in Lists /\ s = <<Head(s)>> \o Tail(s)
  BY ListParts
<1>2. (<<Head(s)>> \o Tail(s)) \o t = <<Head(s)>> \o (Tail(s) \o t)
  BY <1>1, ConsConcat
<1> QED BY <1>1, <1>2

(* The significand and the exponent, each after a check.                   *)
LEMMA ScientificWritten ==
  ASSUME NEW a \in Nat, NEW x \in Nat, NEW y \in Nat, NEW b \in Nat, NEW z \in Nat,
         a <= x + y + z + 1, b = z + 1, NEW t \in {<<>>, <<End>>}
  PROVE  Written(<<NeedMarked(a), Raw(x), Raw(y), NeedMarked(b), Raw(z), Null>> \o t, x + y + z)
<1> DEFINE p == NeedMarked(a)
           q == NeedMarked(b)
           l1 == <<Null>> \o t
           l2 == <<Raw(z)>> \o l1
           l3 == <<q>> \o l2
           l4 == <<Raw(y)>> \o l3
           l5 == <<Raw(x)>> \o l4
           l6 == <<p>> \o l5
           n == x + y + z
<1>1. /\ p \in PieceSet /\ p.op \in Checks /\ p.op \in Checks \ {"needBare"} /\ p.n = a
      /\ q \in PieceSet /\ q.op \in Checks /\ q.op \in Checks \ {"needBare"} /\ q.n = b
      /\ Null \in PieceSet
  BY GuardPieceFacts, PieceFacts DEF Checks
<1>2. /\ Raw(x) \in PieceSet /\ Raw(y) \in PieceSet /\ Raw(z) \in PieceSet
      /\ Raw(x).op = "raw" /\ Raw(y).op = "raw"
      /\ Width(Raw(x)) = x /\ Width(Raw(y)) = y
  BY CountedPieceFacts
<1>3. <<p, Raw(x), Raw(y), q, Raw(z), Null>> \o t = l6
  <2>1. t \in Lists
    BY RoomyNull
  <2> DEFINE rx == Raw(x)
             ry == Raw(y)
             rz == Raw(z)
  <2>2. /\ p \in PieceSet /\ rx \in PieceSet /\ ry \in PieceSet /\ q \in PieceSet
        /\ rz \in PieceSet /\ Null \in PieceSet
    BY <1>1, <1>2
  <2> HIDE DEF p, q, rx, ry, rz
  <2>3. <<p, rx, ry, q, rz, Null>> \o t = <<p>> \o (<<rx, ry, q, rz, Null>> \o t)
    <3> DEFINE s == <<p, rx, ry, q, rz, Null>>
    <3>1. s \in Lists /\ s # <<>> /\ Head(s) = p /\ Tail(s) = <<rx, ry, q, rz, Null>>
      BY <2>2 DEF Lists
    <3> HIDE DEF s
    <3>2. s \o t = <<Head(s)>> \o (Tail(s) \o t)
      BY <2>1, <3>1, ListThen
    <3> QED BY <3>1, <3>2 DEF s
  <2>4. <<rx, ry, q, rz, Null>> \o t = <<rx>> \o (<<ry, q, rz, Null>> \o t)
    <3> DEFINE s == <<rx, ry, q, rz, Null>>
    <3>1. s \in Lists /\ s # <<>> /\ Head(s) = rx /\ Tail(s) = <<ry, q, rz, Null>>
      BY <2>2 DEF Lists
    <3> HIDE DEF s
    <3>2. s \o t = <<Head(s)>> \o (Tail(s) \o t)
      BY <2>1, <3>1, ListThen
    <3> QED BY <3>1, <3>2 DEF s
  <2>5. <<ry, q, rz, Null>> \o t = <<ry>> \o (<<q, rz, Null>> \o t)
    <3> DEFINE s == <<ry, q, rz, Null>>
    <3>1. s \in Lists /\ s # <<>> /\ Head(s) = ry /\ Tail(s) = <<q, rz, Null>>
      BY <2>2 DEF Lists
    <3> HIDE DEF s
    <3>2. s \o t = <<Head(s)>> \o (Tail(s) \o t)
      BY <2>1, <3>1, ListThen
    <3> QED BY <3>1, <3>2 DEF s
  <2>6. <<q, rz, Null>> \o t = <<q>> \o (<<rz, Null>> \o t)
    <3> DEFINE s == <<q, rz, Null>>
    <3>1. s \in Lists /\ s # <<>> /\ Head(s) = q /\ Tail(s) = <<rz, Null>>
      BY <2>2 DEF Lists
    <3> HIDE DEF s
    <3>2. s \o t = <<Head(s)>> \o (Tail(s) \o t)
      BY <2>1, <3>1, ListThen
    <3> QED BY <3>1, <3>2 DEF s
  <2>7. <<rz, Null>> \o t = <<rz>> \o (<<Null>> \o t)
    <3> DEFINE s == <<rz, Null>>
    <3>1. s \in Lists /\ s # <<>> /\ Head(s) = rz /\ Tail(s) = <<Null>>
      BY <2>2 DEF Lists
    <3> HIDE DEF s
    <3>2. s \o t = <<Head(s)>> \o (Tail(s) \o t)
      BY <2>1, <3>1, ListThen
    <3> QED BY <3>1, <3>2 DEF s
  <2> QED BY <2>3, <2>4, <2>5, <2>6, <2>7 DEF rx, ry, rz
<1>4. l1 \in Lists /\ l1 # <<>> /\ Roomy(l1, 0)
  BY RoomyNull
<1>5. l2 \in Lists /\ l2 # <<>> /\ Roomy(l2, z)
  <2>1. 0 \in Nat /\ 0 + z = z
    OBVIOUS
  <2>2. Roomy(l2, 0 + z)
    BY <1>4, <2>1, RoomyRaw, Zenon
  <2> QED BY <1>2, <1>4, <2>1, <2>2, ListCons
<1>6. l3 \in Lists /\ l3 # <<>> /\ Roomy(l3, z) /\ Short(l3, z)
  <2>1. q.n <= z + 1 /\ z < q.n /\ z \in Int
    BY <1>1
  <2> QED BY <1>1, <1>5, <2>1, ListCons, RoomyCheck, ShortCheck, Zenon
<1>7. l4 \in Lists /\ l4 # <<>> /\ Roomy(l4, z + y) /\ Short(l4, z + y)
  <2>1. z \in Int /\ Recovers(Raw(y), l3, z + y)
    BY <1>2 DEF Recovers
  <2>2. Short(l4, z + y)
    BY <1>2, <1>6, <2>1, ShortCons
  <2> QED BY <1>2, <1>6, <2>2, ListCons, RoomyRaw, Zenon
<1>8. l5 \in Lists /\ l5 # <<>> /\ Roomy(l5, (z + y) + x) /\ Short(l5, (z + y) + x)
  <2>1. z + y \in Int /\ z + y \in Nat /\ Recovers(Raw(x), l4, (z + y) + x)
    BY <1>2 DEF Recovers
  <2>2. Short(l5, (z + y) + x)
    BY <1>2, <1>7, <2>1, ShortCons
  <2> QED BY <1>2, <1>7, <2>1, <2>2, ListCons, RoomyRaw, Zenon
<1>9. n = (z + y) + x /\ n \in Nat /\ n \in Int /\ p.n <= n + 1
  BY <1>1
<1> HIDE DEF n, l5, p
<1>10. l6 \in Lists /\ Roomy(l6, n) /\ Short(l6, n)
  BY <1>1, <1>8, <1>9, ListCons, RoomyCheck, ShortCheck, Zenon
<1> QED BY <1>3, <1>10 DEF Written, n, p

(* exess_write_double and exess_write_float.                               *)
LEMMA ScientificAgrees ==
  ASSUME NEW v, v.kind \in {"double", "float"}, v.class \in Classes,
         v.digits \in 1..(IF v.kind = "double" THEN 17 ELSE 9), v.expt \in Int,
         v.exptDigits \in 1..(IF v.kind = "double" THEN 3 ELSE 2)
  PROVE  \E n \in Nat : Agrees(v, n)
<1> DEFINE n == ScientificLength(v)
           t == IF v.kind = "double" THEN <<End>> ELSE <<>>
<1>1. n \in Nat /\ n <= (IF v.kind = "double" THEN 24 ELSE 15)
  BY DEF ScientificLength, SpecialLength, Ones, Classes
<1>2. Declared(v, n)
  BY <1>1 DEF Declared, MaxLength
<1>3. t \in {<<>>, <<End>>} /\ t \in Lists
  BY EndOnly, Single, PieceFacts
<1>4. Measures(Program(v, TRUE), n)
  <2>1. Scientific(v, TRUE) = <<Length(n)>> /\ Measures(<<Length(n)>>, n)
    BY <1>1, MeasuresLength DEF Scientific
  <2>2. CASE v.kind = "double"
    <3>1. Program(v, TRUE) = <<Length(n)>> \o <<End>>
      BY <2>1, <2>2 DEF Program
    <3>2. 0 \in Nat /\ n + 0 = n
      BY <1>1
    <3>3. Spans(Counted, <<Length(n)>> \o <<End>>, n + 0)
      BY <1>1, <2>1, <3>2, EndOnly, SpansConcat, Zenon DEF Measures
    <3>4. <<Length(n)>> \o <<End>> \in Lists
      BY <2>1, EndOnly, ListConcat DEF Measures
    <3> QED BY <1>1, <3>1, <3>2, <3>3, <3>4, Zenon DEF Measures
  <2>3. CASE v.kind = "float"
    BY <2>1, <2>3 DEF Program
  <2> QED BY <2>2, <2>3
<1>5. Written(Scientific(v, FALSE) \o t, n)
  <2>1. CASE v.class \notin {"-", "+"}
    <3>1. Scientific(v, FALSE) = <<NeedMarked(2)>> \o Special(n)
      BY <2>1 DEF Scientific, ScientificLength
    <3>2. NeedMarked(2) \in PieceSet /\ NeedMarked(2).op \in Checks \ {"needBare"}
          /\ NeedMarked(2).n = 2
      BY GuardPieceFacts DEF Checks
    <3>3. 2 <= n + 1
      BY <2>1 DEF ScientificLength, SpecialLength, Classes
    <3> HIDE DEF n, t
    <3> QED BY <1>1, <1>3, <3>1, <3>2, <3>3, SpecialWritten
  <2>2. CASE v.class \in {"-", "+"}
    <3> DEFINE a == Ones(v.class = "-") + v.digits + 2
               x == Ones(v.class = "-") + 2
               y == IF v.digits > 1 THEN v.digits - 1 ELSE 1
               z == 1 + (Ones(v.expt < 0) + v.exptDigits)
               b == z + 1
    <3>1. Scientific(v, FALSE)
            = <<NeedMarked(a), Raw(x), Raw(y), NeedMarked(b), Raw(z), Null>>
      BY <2>2 DEF Scientific
    <3>2. /\ a \in Nat /\ x \in Nat /\ y \in Nat /\ b \in Nat /\ z \in Nat
          /\ a <= x + y + z + 1 /\ n = x + y + z
      BY <2>2 DEF Ones, ScientificLength
    <3>3. b = z + 1
      OBVIOUS
    <3> HIDE DEF a, x, y, z, b, n, t
    <3> QED BY <1>3, <3>1, <3>2, <3>3, ScientificWritten
  <2> QED BY <2>1, <2>2
<1>6. Program(v, FALSE) = Scientific(v, FALSE) \o t
  <2>1. CASE v.kind = "double"
    BY <2>1 DEF Program
  <2>2. CASE v.kind = "float"
    <3>1. Program(v, FALSE) = Scientific(v, FALSE) /\ t = <<>>
      BY <2>2 DEF Program
    <3>2. Scientific(v, FALSE) \in Lists
      <4>1. CASE v.class \notin {"-", "+"}
        <5>1. Scientific(v, FALSE) = <<NeedMarked(2)>> \o <<Need(n + 1), Raw(n), Null>>
          BY <4>1 DEF Scientific, ScientificLength, Special
        <5>2. NeedMarked(2) \in PieceSet /\ Need(n + 1) \in PieceSet /\ Raw(n) \in PieceSet
              /\ Null \in PieceSet
          BY <1>1, GuardPieceFacts, CountedPieceFacts, PieceFacts
        <5>3. <<Need(n + 1), Raw(n), Null>> \in Lists
          BY <5>2, Tuple3
        <5> QED BY <5>1, <5>2, <5>3, ListCons
      <4>2. CASE v.class \in {"-", "+"}
        <5> DEFINE a == Ones(v.class = "-") + v.digits + 2
                   x == Ones(v.class = "-") + 2
                   y == IF v.digits > 1 THEN v.digits - 1 ELSE 1
                   z == 1 + (Ones(v.expt < 0) + v.exptDigits)
        <5>1. Scientific(v, FALSE)
                = <<NeedMarked(a), Raw(x), Raw(y), NeedMarked(z + 1), Raw(z), Null>>
          BY <4>2 DEF Scientific
        <5>2. a \in Nat /\ x \in Nat /\ y \in Nat /\ z + 1 \in Nat /\ z \in Nat
          BY DEF Ones
        <5> HIDE DEF a, x, y, z
        <5>3. NeedMarked(a) \in PieceSet /\ NeedMarked(z + 1) \in PieceSet
          BY <5>2, GuardPieceFacts
        <5>4. Raw(x) \in PieceSet /\ Raw(y) \in PieceSet /\ Raw(z) \in PieceSet
          BY <5>2, CountedPieceFacts
        <5>5. Null \in PieceSet /\ <<>> \in Lists
          BY PieceFacts, Single
        <5>6. <<NeedMarked(a), Raw(x), Raw(y), NeedMarked(z + 1), Raw(z), Null>> \in Lists
          BY <5>3, <5>4, <5>5, Tuple6, Zenon
        <5> QED BY <5>1, <5>6
      <4> QED BY <4>1, <4>2
    <3> QED BY <3>1, <3>2, ConcatEmptySeq DEF Lists
  <2> QED BY <2>1, <2>2
<1> QED BY <1>1, <1>2, <1>4, <1>5, <1>6 DEF Agrees

-----------------------------------------------------------------------------
(* Dates and times.                                                        *)

(* A list that fails, whatever comes before is measured.                   *)
Doomed(s) ==
  s \in Lists /\ \E c, t \in Lists, w \in Nat : s = c \o (<<Fail>> \o t) /\ Spans(Counted, c, w)

Refusing(s) == s \in Lists /\ \A j \in Int : Short(s, j)

(* An error in the value, after a part of the text.                        *)
LEMMA FailsAfter ==
  ASSUME NEW c, NEW d, NEW w, Agree(c, d, w), NEW t \in Lists
  PROVE  Doomed(d \o (<<Fail>> \o t)) /\ Refusing(c \o (<<Fail>> \o t))
<1> DEFINE f == <<Fail>> \o t
<1>1. c \in Lists /\ d \in Lists /\ w \in Nat /\ Spans(Plain, c, w) /\ Spans(Counted, d, w)
  BY DEF Agree
<1>2. Fail \in PieceSet /\ Fail.op = "fail" /\ f \in Lists
  BY PieceFacts, ListCons
<1>3. d \o f \in Lists /\ c \o f \in Lists
  BY <1>1, <1>2, ListConcat
<1>4. Doomed(d \o f)
  BY <1>1, <1>3, Zenon DEF Doomed
<1>5. ASSUME NEW j \in Int PROVE Short(c \o f, j)
  <2>1. j - w \in Int /\ w + (j - w) = j
    BY <1>1
  <2>2. Short(f, j - w)
    BY <1>2, <2>1, ShortStops DEF Refuses
  <2>3. Short(c \o f, w + (j - w))
    BY <1>1, <1>2, <2>1, <2>2, ShortConcat, Zenon
  <2> QED BY <2>1, <2>3
<1> QED BY <1>3, <1>4, <1>5 DEF Refusing

(* Parts of a text that may be put together in any order.                  *)
Grouped(a, b, c, d) ==
  (a \o b) \o c = a \o (b \o c) /\ ((a \o b) \o c) \o d = a \o ((b \o c) \o d)

(* How parts are put together makes no difference.                         *)
LEMMA Regroup ==
  ASSUME NEW a \in Lists, NEW b \in Lists, NEW c \in Lists, NEW d \in Lists
  PROVE  Grouped(a, b, c, d)
<1>1. a \o b \in Lists /\ b \o c \in Lists
  BY ListConcat
<1>2. (a \o b) \o c = a \o (b \o c)
  BY ListAssociative
<1>3. (a \o (b \o c)) \o d = a \o ((b \o c) \o d)
  <2>1. \A e \in Lists : (a \o e) \o d = a \o (e \o d)
    BY ListAssociative
  <2> QED BY <1>1, <2>1, Zenon
<1> QED BY <1>2, <1>3 DEF Grouped

(* write_time, but for the time zone.                                      *)
TimeDigits(v) == <<Two, Char, Two, Char, Two>> \o Nanoseconds(v.fraction)

(* The digits of a time are 8 to 18 characters.                            *)
LEMMA TimeDigitsAgree ==
  ASSUME NEW v, v.fraction \in 0..9
  PROVE  \E w \in 8..18 : Agree(TimeDigits(v), TimeDigits(v), w)
<1> DEFINE n == v.fraction
           s == <<Char>> \o <<String(n)>>
           u == IF n > 0 THEN 1 + n ELSE 0
<1>1. n \in Nat
  OBVIOUS
<1>2. Agree(s, s, 1 + n) /\ <<Char, String(n)>> = s
  <2>1. /\ Char \in PieceSet /\ Char.op \in Plain /\ Width(Char) = 1
        /\ String(n) \in PieceSet /\ String(n).op \in Plain /\ Width(String(n)) = n
    BY <1>1, PieceFacts, CountedPieceFacts DEF Plain
  <2>2. Agree(<<String(n)>>, <<String(n)>>, n)
    BY <2>1, AgreePiece
  <2> QED BY <2>1, <2>2, AgreeCons, Tuple2, Zenon
<1>3. Agree(Nanoseconds(n), Nanoseconds(n), u)
  <2>1. CASE n > 0
    BY <1>2, <2>1 DEF Nanoseconds, If
  <2>2. CASE ~(n > 0)
    BY <2>2, AgreeEmpty DEF Nanoseconds, If
  <2> QED BY <2>1, <2>2
<1>4. Agree(TimeDigits(v), TimeDigits(v), 8 + u)
  BY <1>3, AgreePairs, AgreeConcat, Zenon DEF TimeDigits
<1>5. 8 + u \in 8..18
  OBVIOUS
<1> QED BY <1>4, <1>5, Zenon

(* A time and its zone are at most 24 characters.                          *)
LEMMA TimeAgrees ==
  ASSUME NEW v, v.fraction \in 0..9, v.zone \in Zones \ {"bad"}
  PROVE  \E w \in 0..24 : Agree(Time(v, FALSE), Time(v, TRUE), w)
<1>1. PICK w \in 8..18 : Agree(TimeDigits(v), TimeDigits(v), w)
  BY TimeDigitsAgree
<1>2. PICK u \in 0..6 : Agree(Zone(v.zone, FALSE), Zone(v.zone, TRUE), u)
  BY ZoneAgrees
<1>3. Agree(Time(v, FALSE), Time(v, TRUE), w + u)
  BY <1>1, <1>2, AgreeConcat, Zenon DEF Time, TimeDigits
<1>4. w + u \in 0..24
  OBVIOUS
<1> QED BY <1>3, <1>4, Zenon

(* write_year_number: a sign and padding, then the digits.                 *)
YearBegins(v, c, w) ==
  /\ Agree(c, c, w)
  /\ w + v.yearDigits <= 6
  /\ Year(v, TRUE) = <<Length(w + v.yearDigits)>>
  /\ Year(v, FALSE) = c \o <<Number(v.yearDigits), End>>

HasYear(v) == v.negative \in BOOLEAN /\ v.yearDigits \in 1..5

(* A year is a sign, padding and digits, at most 6 characters.             *)
LEMMA YearParts ==
  ASSUME NEW v, HasYear(v)
  PROVE  \E c \in Lists, w \in Nat : YearBegins(v, c, w)
<1> DEFINE padding == IF v.yearDigits < 4 THEN 4 - v.yearDigits ELSE 0
           p == [k \in 1..padding |-> Char]
           sign == If(v.negative, <<Char>>)
           w == Ones(v.negative) + padding
<1>0. v.negative \in BOOLEAN /\ v.yearDigits \in 1..5
  BY DEF HasYear
<1>1. Char \in PieceSet /\ Char.op \in Plain /\ Width(Char) = 1
  BY PieceFacts DEF Plain
<1>2. Agree(sign, sign, Ones(v.negative))
  BY <1>0, <1>1, AgreePiece, AgreeEmpty DEF If, Ones
<1>3. Agree(p, p, padding)
  <2>1. Agree(<<Char>>, <<Char>>, 1)
    BY <1>1, AgreePiece
  <2>2. Agree(<<Char, Char>>, <<Char, Char>>, 1 + 1)
    BY <1>1, <2>1, AgreeCons, Tuple2, Zenon
  <2>3. Agree(<<Char, Char, Char>>, <<Char, Char, Char>>, 1 + (1 + 1))
    BY <1>1, <2>2, AgreeCons, Tuple3, Zenon
  <2>4. CASE padding = 0
    BY <2>4, AgreeEmpty
  <2>5. CASE padding = 1
    <3>1. p = <<Char>>
      BY <2>5
    <3> QED BY <2>1, <2>5, <3>1, Zenon
  <2>6. CASE padding = 2
    <3>1. p = <<Char, Char>> /\ 1 + 1 = 2
      BY <2>6
    <3> QED BY <2>2, <2>6, <3>1, Zenon
  <2>7. CASE padding = 3
    <3>1. p = <<Char, Char, Char>> /\ 1 + (1 + 1) = 3
      BY <2>7
    <3> QED BY <2>3, <2>7, <3>1, Zenon
  <2>8. padding \in 0..3
    BY <1>0
  <2> QED BY <2>4, <2>5, <2>6, <2>7, <2>8
<1>4. Agree(sign \o p, sign \o p, w)
  BY <1>2, <1>3, AgreeConcat, Zenon
<1>5. sign \o p \in Lists /\ w \in Nat
  BY <1>4 DEF Agree
<1>6. Year(v, FALSE) = (sign \o p) \o <<Number(v.yearDigits), End>>
  BY DEF Year
<1>7. /\ Ones(v.negative) + (IF v.yearDigits < 4 THEN 4 ELSE v.yearDigits) = w + v.yearDigits
      /\ w + v.yearDigits <= 6
  BY <1>0 DEF Ones
<1>8. Year(v, TRUE) = <<Length(w + v.yearDigits)>>
  BY <1>7 DEF Year
<1>9. YearBegins(v, sign \o p, w)
  BY <1>4, <1>6, <1>7, <1>8 DEF YearBegins
<1> QED BY <1>5, <1>9, Zenon

(* A year and the text that follows it.                                    *)
LEMMA YearThen ==
  ASSUME NEW v, HasYear(v)
  PROVE  /\ Year(v, TRUE) \in Lists /\ Year(v, FALSE) \in Lists
         /\ \E y \in 0..6 :
              /\ Spans(Counted, Year(v, TRUE), y)
              /\ \A r \in Lists : \A j \in Int : Short(r, j) => Short(Year(v, FALSE) \o r, y + j)
              /\ \A r \in Lists : \A j \in Nat :
                   Roomy(r, j) /\ r # <<>> => Roomy(Year(v, FALSE) \o r, y + j)
<1>0. PICK c \in Lists, w \in Nat : YearBegins(v, c, w)
  BY YearParts, Zenon
<1>1. /\ Agree(c, c, w)
      /\ w + v.yearDigits <= 6
      /\ Year(v, TRUE) = <<Length(w + v.yearDigits)>>
      /\ Year(v, FALSE) = c \o <<Number(v.yearDigits), End>>
  BY <1>0 DEF YearBegins
<1> DEFINE d == v.yearDigits
           y == w + d
           p == Number(d)
           tail == <<p, End>>
<1>2. d \in Nat /\ d \in Int /\ y \in 0..6 /\ y \in Nat
  BY <1>1 DEF HasYear
<1>3. Measures(Year(v, TRUE), y)
  BY <1>1, <1>2, MeasuresLength
<1>4. p \in PieceSet /\ p.op \in {"digits", "number"} /\ Width(p) = d
  BY <1>2, CountedPieceFacts
<1>5. tail = <<p>> \o <<End>> /\ tail \in Lists /\ Spans(Plain, c, w)
      /\ <<End>> \in Lists /\ End \in PieceSet
      /\ Year(v, FALSE) = c \o tail
  BY <1>1, <1>4, PieceFacts, Tuple2, Single DEF Agree
<1> HIDE DEF p
<1>6. ASSUME NEW r \in Lists
      PROVE  /\ Year(v, FALSE) \o r = c \o (<<p>> \o (<<End>> \o r))
             /\ <<End>> \o r \in Lists /\ <<End>> \o r \in Escapes /\ <<End>> \o r # <<>>
             /\ <<p>> \o (<<End>> \o r) \in Lists /\ <<p>> \o (<<End>> \o r) # <<>>
  <2>1. <<End>> \o r \in Lists /\ <<End>> \o r \in Escapes /\ <<End>> \o r # <<>>
    BY <1>5, <1>6, PieceFacts, EscapesEnd, ListCons
  <2>2. <<p>> \o (<<End>> \o r) \in Lists /\ <<p>> \o (<<End>> \o r) # <<>>
    BY <1>4, <2>1, ListCons
  <2>3. (c \o tail) \o r = c \o (tail \o r)
    BY <1>5, <1>6, ConcatAssociative DEF Lists
  <2>4. (<<p>> \o <<End>>) \o r = <<p>> \o (<<End>> \o r)
    BY <1>4, <1>5, <1>6, ConsConcat
  <2> QED BY <1>1, <1>5, <2>1, <2>2, <2>3, <2>4
<1>7. ASSUME NEW r \in Lists, NEW j \in Int, Short(r, j)
      PROVE  Short(Year(v, FALSE) \o r, y + j)
  <2>1. 0 \in Nat /\ 0 + j = j /\ w + (j + d) = y + j /\ j + d \in Int
    BY <1>1, <1>2
  <2>2. Spans(Plain, <<End>>, 0)
    BY PieceFacts, SpansSingle DEF Plain
  <2>3. Short(<<End>> \o r, j)
    BY <1>5, <1>7, <2>1, <2>2, ShortConcat, Zenon
  <2>4. Short(<<p>> \o (<<End>> \o r), j + d)
    BY <1>4, <1>6, <2>3, CheckedThen, Zenon
  <2>5. Short(c \o (<<p>> \o (<<End>> \o r)), w + (j + d))
    BY <1>5, <1>6, <2>1, <2>4, ShortConcat, Zenon
  <2> QED BY <1>6, <2>1, <2>5
<1>8. ASSUME NEW r \in Lists, NEW j \in Nat, Roomy(r, j) /\ r # <<>>
      PROVE  Roomy(Year(v, FALSE) \o r, y + j)
  <2>1. 0 \in Nat /\ 0 + j = j /\ w + (j + d) = y + j /\ j + d \in Nat
    BY <1>1, <1>2
  <2>2. Spans(Plain, <<End>>, 0)
    BY PieceFacts, SpansSingle DEF Plain
  <2>3. Roomy(<<End>> \o r, j)
    BY <1>5, <1>8, <2>1, <2>2, RoomyConcat, Zenon
  <2>4. Roomy(<<p>> \o (<<End>> \o r), j + d)
    BY <1>4, <1>6, <2>3, CheckedThen, Zenon
  <2>5. Roomy(c \o (<<p>> \o (<<End>> \o r)), w + (j + d))
    BY <1>5, <1>6, <2>1, <2>4, RoomyConcat, Zenon
  <2> QED BY <1>6, <2>1, <2>5
<1>9. Year(v, TRUE) \in Lists /\ Year(v, FALSE) \in Lists
  <2>1. Year(v, TRUE) \in Lists
    BY <1>3 DEF Measures
  <2>2. c \o tail \in Lists
    BY <1>5, ListConcat
  <2> QED BY <1>5, <2>1, <2>2, Zenon
<1> HIDE DEF y
<1> QED BY <1>2, <1>3, <1>7, <1>8, <1>9 DEF Measures

(* A text that begins with a year.                                         *)
LEMMA TextAfterYear ==
  ASSUME NEW v, HasYear(v), NEW c, NEW d, NEW w, Agree(c, d, w)
  PROVE  \E y \in 0..6 : /\ Measures(Year(v, TRUE) \o (d \o <<End>>), y + w)
                         /\ Written(Year(v, FALSE) \o (c \o <<End>>), y + w)
<1>1. /\ c \o <<End>> \in Lists /\ c \o <<End>> # <<>> /\ d \o <<End>> \in Lists
      /\ Roomy(c \o <<End>>, w) /\ Short(c \o <<End>>, w) /\ Spans(Counted, d \o <<End>>, w)
  BY AgreeEnded
<1>2. Year(v, TRUE) \in Lists /\ Year(v, FALSE) \in Lists
  BY YearThen
<1>3. PICK y \in 0..6 :
        /\ Spans(Counted, Year(v, TRUE), y)
        /\ \A r \in Lists : \A j \in Int : Short(r, j) => Short(Year(v, FALSE) \o r, y + j)
        /\ \A r \in Lists : \A j \in Nat :
             Roomy(r, j) /\ r # <<>> => Roomy(Year(v, FALSE) \o r, y + j)
  BY YearThen
<1>4. w \in Nat /\ w \in Int /\ y \in Nat /\ y + w \in Nat
  BY DEF Agree
<1>5. Spans(Counted, Year(v, TRUE) \o (d \o <<End>>), y + w)
  BY <1>1, <1>2, <1>3, <1>4, SpansConcat, Zenon
<1>6. Roomy(Year(v, FALSE) \o (c \o <<End>>), y + w)
      /\ Short(Year(v, FALSE) \o (c \o <<End>>), y + w)
  BY <1>1, <1>3, <1>4, Zenon
<1>7. Year(v, TRUE) \o (d \o <<End>>) \in Lists /\ Year(v, FALSE) \o (c \o <<End>>) \in Lists
  BY <1>1, <1>2, ListConcat
<1> QED BY <1>4, <1>5, <1>6, <1>7 DEF Measures, Written

(* A year, before an error in the value.                                   *)
LEMMA FailAfterYear ==
  ASSUME NEW v, HasYear(v), NEW c, NEW d, NEW w, Agree(c, d, w), NEW t \in Lists
  PROVE  /\ Doomed(Year(v, TRUE) \o (d \o (<<Fail>> \o t)))
         /\ Refusing(Year(v, FALSE) \o (c \o (<<Fail>> \o t)))
<1> DEFINE f == <<Fail>> \o t
<1>1. Refusing(c \o f) /\ f \in Lists /\ c \o f \in Lists /\ d \in Lists /\ d \o f \in Lists
  BY FailsAfter, PieceFacts, ListCons, ListConcat DEF Agree
<1>2. Year(v, TRUE) \in Lists /\ Year(v, FALSE) \in Lists
  BY YearThen
<1>3. PICK y \in 0..6 :
        /\ Spans(Counted, Year(v, TRUE), y)
        /\ \A r \in Lists : \A j \in Int : Short(r, j) => Short(Year(v, FALSE) \o r, y + j)
  BY YearThen
<1>4. w \in Nat /\ y \in Nat /\ y + w \in Nat /\ Spans(Counted, d, w)
  BY DEF Agree
<1>5. /\ Year(v, TRUE) \o d \in Lists /\ (Year(v, TRUE) \o d) \o f = Year(v, TRUE) \o (d \o f)
      /\ Year(v, TRUE) \o (d \o f) \in Lists /\ Year(v, FALSE) \o (c \o f) \in Lists
  <2>1. Year(v, TRUE) \o d \in Lists /\ Year(v, TRUE) \o (d \o f) \in Lists
    BY <1>1, <1>2, ListConcat
  <2>2. Year(v, FALSE) \o (c \o f) \in Lists
    BY <1>1, <1>2, ListConcat
  <2>3. (Year(v, TRUE) \o d) \o f = Year(v, TRUE) \o (d \o f)
    <3>1. Grouped(Year(v, TRUE), d, f, f)
      BY <1>1, <1>2, Regroup, Zenon
    <3> QED BY <3>1 DEF Grouped
  <2> QED BY <2>1, <2>2, <2>3
<1>6. Spans(Counted, Year(v, TRUE) \o d, y + w)
  BY <1>1, <1>2, <1>3, <1>4, SpansConcat, Zenon
<1> HIDE DEF f
<1>7. Doomed(Year(v, TRUE) \o (d \o f))
  <2>1. Doomed((Year(v, TRUE) \o d) \o f)
    BY <1>4, <1>5, <1>6, Zenon DEF Doomed, f
  <2> QED BY <1>5, <2>1
<1>8. ASSUME NEW j \in Int PROVE Short(Year(v, FALSE) \o (c \o f), j)
  <2>1. j - y \in Int /\ y + (j - y) = j
    OBVIOUS
  <2>2. Short(c \o f, j - y)
    BY <1>1, <2>1 DEF Refusing
  <2>3. Short(Year(v, FALSE) \o (c \o f), y + (j - y))
    BY <1>1, <1>3, <2>1, <2>2, Zenon
  <2> QED BY <2>1, <2>3
<1> QED BY <1>5, <1>7, <1>8 DEF f, Refusing

(* What follows the year of a date, with a time zone or without.           *)
LEMMA DateSplits ==
  ASSUME NEW v, HasYear(v), NEW z \in Zones, NEW m \in BOOLEAN
  PROVE  /\ Date(v, z, m) = Year(v, m) \o ((<<Char, Two, Char, Two>> \o Zone(z, m)) \o <<End>>)
         /\ Year(v, m) \in Lists /\ Zone(z, m) \in Lists /\ <<Char, Two, Char, Two>> \in Lists
<1>1. Year(v, m) \in Lists
  BY YearThen
<1>2. Zone(z, m) \in Lists
  <2>1. CASE z = "bad"
    BY <2>1, PieceFacts, Single DEF Zone
  <2>2. CASE z # "bad"
    BY <2>2, ZoneAgrees DEF Agree
  <2> QED BY <2>1, <2>2
<1>3. <<Char, Two, Char, Two>> \in Lists /\ <<End>> \in Lists
  BY AgreePairs, EndOnly DEF Agree
<1>4. ((Year(v, m) \o <<Char, Two, Char, Two>>) \o Zone(z, m)) \o <<End>>
        = Year(v, m) \o ((<<Char, Two, Char, Two>> \o Zone(z, m)) \o <<End>>)
  <2> DEFINE y == Year(v, m)
             mid == <<Char, Two, Char, Two>>
             t == Zone(z, m)
             e == <<End>>
  <2>1. y \in Lists /\ mid \in Lists /\ t \in Lists /\ e \in Lists
    BY <1>1, <1>2, <1>3
  <2> HIDE DEF y, mid, t, e
  <2>2. Grouped(y, mid, t, e)
    BY <2>1, Regroup, Zenon
  <2> QED BY <2>2 DEF Grouped, y, mid, t, e
<1> QED BY <1>1, <1>2, <1>3, <1>4 DEF Date

HasZone(v) == HasYear(v) /\ v.fraction \in 0..9 /\ v.zone \in Zones

(* exess_write_date.                                                       *)
LEMMA DateAgrees ==
  ASSUME NEW v, v.kind = "date", HasZone(v), v.valid = TRUE, v.zone # "bad"
  PROVE  \E n \in Nat : Agrees(v, n)
<1> DEFINE mid == <<Char, Two, Char, Two>>
           c == mid \o Zone(v.zone, FALSE)
           d == mid \o Zone(v.zone, TRUE)
<1>1. PICK u \in 0..6 : Agree(Zone(v.zone, FALSE), Zone(v.zone, TRUE), u)
  BY ZoneAgrees DEF HasZone
<1>2. Agree(c, d, 6 + u)
  BY <1>1, AgreePairs, AgreeConcat, Zenon
<1>3. PICK y \in 0..6 : /\ Measures(Year(v, TRUE) \o (d \o <<End>>), y + (6 + u))
                        /\ Written(Year(v, FALSE) \o (c \o <<End>>), y + (6 + u))
  BY <1>2, TextAfterYear DEF HasZone
<1>4. /\ Program(v, TRUE) = Year(v, TRUE) \o (d \o <<End>>)
      /\ Program(v, FALSE) = Year(v, FALSE) \o (c \o <<End>>)
  BY DateSplits DEF HasZone, Program
<1>5. y + (6 + u) \in Nat /\ Declared(v, y + (6 + u))
  BY DEF Declared, MaxLength
<1> QED BY <1>3, <1>4, <1>5 DEF Agrees

(* exess_write_time.                                                       *)
LEMMA TimeKindAgrees ==
  ASSUME NEW v, v.kind = "time", HasZone(v), v.valid = TRUE, v.zone # "bad"
  PROVE  \E n \in Nat : Agrees(v, n)
<1>1. PICK w \in 0..24 : Agree(Time(v, FALSE), Time(v, TRUE), w)
  BY TimeAgrees DEF HasZone
<1>2. \A m \in BOOLEAN : Program(v, m) = Time(v, m) \o <<End>>
  BY DEF Program
<1>3. Measures(Program(v, TRUE), w) /\ Written(Program(v, FALSE), w)
  <2>1. /\ Time(v, FALSE) \o <<End>> \in Lists /\ Time(v, TRUE) \o <<End>> \in Lists
        /\ Roomy(Time(v, FALSE) \o <<End>>, w) /\ Short(Time(v, FALSE) \o <<End>>, w)
        /\ Spans(Counted, Time(v, TRUE) \o <<End>>, w)
    BY <1>1, AgreeEnded
  <2>2. w \in Nat
    OBVIOUS
  <2> QED BY <1>2, <2>1, <2>2 DEF Measures, Written
<1>4. w \in Nat /\ Declared(v, w)
  BY DEF Declared, MaxLength
<1> QED BY <1>3, <1>4 DEF Agrees

(* What follows the year of a date and time.                               *)
AfterYear(v, m) ==
  (((<<Char, Two, Char, Two>> \o Zone("local", m)) \o <<End>>) \o <<Char>>) \o Time(v, m)

(* A date and time is a year and what follows it.                          *)
LEMMA DateTimeSplits ==
  ASSUME NEW v, v.kind = "dateTime", HasZone(v), v.valid = TRUE, NEW m \in BOOLEAN,
         Time(v, m) \in Lists
  PROVE  Program(v, m) = Year(v, m) \o (AfterYear(v, m) \o <<End>>)
<1> DEFINE y == Year(v, m)
           b == (<<Char, Two, Char, Two>> \o Zone("local", m)) \o <<End>>
           t == Time(v, m)
<1>1. Date(v, "local", m) = y \o b /\ y \in Lists /\ b \in Lists
  BY DateSplits, EndOnly, ListConcat DEF HasZone, Zones
<1>2. <<Char>> \in Lists /\ <<End>> \in Lists /\ t \in Lists
  BY PieceFacts, Single
<1>3. Program(v, m) = ((Date(v, "local", m) \o <<Char>>) \o t) \o <<End>>
  BY DEF Program
<1> HIDE DEF b, y, t
<1>4. b \o <<Char>> \in Lists
  BY <1>1, <1>2, ListConcat
<1>5. (y \o b) \o <<Char>> = y \o (b \o <<Char>>)
  BY <1>1, <1>2, ConcatAssociative DEF Lists
<1>6. ((y \o (b \o <<Char>>)) \o t) \o <<End>> = y \o (((b \o <<Char>>) \o t) \o <<End>>)
  <2> DEFINE x == b \o <<Char>>
             e == <<End>>
  <2>1. x \in Lists /\ e \in Lists
    BY <1>2, <1>4
  <2> HIDE DEF x, e
  <2>2. Grouped(y, x, t, e)
    BY <1>1, <1>2, <2>1, Regroup, Zenon
  <2> QED BY <2>2 DEF Grouped, x, e
<1> QED BY <1>1, <1>3, <1>5, <1>6 DEF AfterYear, b, y, t

(* What is between the year and the time.                                  *)
LEMMA AfterYearAgrees ==
  ASSUME NEW e, NEW f, NEW w, Agree(e, f, w)
  PROVE  LET b(m) == ((<<Char, Two, Char, Two>> \o Zone("local", m)) \o <<End>>) \o <<Char>>
         IN  Agree(b(FALSE) \o e, b(TRUE) \o f, 7 + w)
<1> DEFINE mid == <<Char, Two, Char, Two>>
<1>1. Agree(mid, mid, 6) /\ Agree(<<>>, <<>>, 0) /\ Zone("local", TRUE) = <<>>
      /\ Zone("local", FALSE) = <<>>
  BY AgreePairs, AgreeEmpty DEF Zone
<1>2. Agree(<<End>>, <<End>>, 0) /\ Agree(<<Char>>, <<Char>>, 1)
  BY PieceFacts, AgreePiece DEF Plain
<1> HIDE DEF mid
<1>3. Agree(mid \o <<>>, mid \o <<>>, 6 + 0)
  BY <1>1, AgreeConcat, Zenon
<1>4. Agree((mid \o <<>>) \o <<End>>, (mid \o <<>>) \o <<End>>, (6 + 0) + 0)
  BY <1>2, <1>3, AgreeConcat, Zenon
<1>5. Agree(((mid \o <<>>) \o <<End>>) \o <<Char>>, ((mid \o <<>>) \o <<End>>) \o <<Char>>,
            ((6 + 0) + 0) + 1)
  BY <1>2, <1>4, AgreeConcat, Zenon
<1>6. Agree((((mid \o <<>>) \o <<End>>) \o <<Char>>) \o e,
            (((mid \o <<>>) \o <<End>>) \o <<Char>>) \o f, (((6 + 0) + 0) + 1) + w)
  BY <1>5, AgreeConcat, Zenon
<1>7. (((6 + 0) + 0) + 1) = 7
  OBVIOUS
<1> QED BY <1>1, <1>6, <1>7 DEF mid

(* exess_write_date_time.                                                  *)
LEMMA DateTimeAgrees ==
  ASSUME NEW v, v.kind = "dateTime", HasZone(v), v.valid = TRUE, v.zone # "bad"
  PROVE  \E n \in Nat : Agrees(v, n)
<1>1. PICK w \in 0..24 : Agree(Time(v, FALSE), Time(v, TRUE), w)
  BY TimeAgrees DEF HasZone
<1>2. Agree(AfterYear(v, FALSE), AfterYear(v, TRUE), 7 + w)
  BY <1>1, AfterYearAgrees DEF AfterYear
<1>3. PICK y \in 0..6 : /\ Measures(Year(v, TRUE) \o (AfterYear(v, TRUE) \o <<End>>), y + (7 + w))
                        /\ Written(Year(v, FALSE) \o (AfterYear(v, FALSE) \o <<End>>), y + (7 + w))
  BY <1>2, TextAfterYear DEF HasZone
<1>4. \A m \in BOOLEAN : Program(v, m) = Year(v, m) \o (AfterYear(v, m) \o <<End>>)
  BY <1>1, DateTimeSplits DEF Agree
<1>5. y + (7 + w) \in Nat /\ Declared(v, y + (7 + w))
  BY DEF Declared, MaxLength
<1> QED BY <1>3, <1>4, <1>5 DEF Agrees

-----------------------------------------------------------------------------
(* Durations.                                                              *)

(* Text to which the same pieces lead when it is measured and written.     *)
Continues(t, j) ==
  /\ t \in Lists /\ t # <<>> /\ j \in Nat
  /\ Roomy(t, j) /\ Short(t, j) /\ Spans(Counted, t, j)

(* A piece before the rest of a duration, to which an error leads.         *)
LEMMA ContinuesPiece ==
  ASSUME NEW p \in PieceSet, p.op \in Counted \ {"length"},
         NEW t, NEW j, Continues(t, j),
         p.op \in {"digits", "number"} => t \in Escapes,
         p.op = "field" => t \in Escapes \/ (p.n <= 2 /\ Late(t, j))
  PROVE  Continues(<<p>> \o t, j + Width(p))
<1>1. /\ t \in Lists /\ t # <<>> /\ j \in Nat /\ j \in Int
      /\ Roomy(t, j) /\ Short(t, j) /\ Spans(Counted, t, j)
  BY DEF Continues
<1>2. Width(p) \in Nat /\ (j + Width(p)) - Width(p) = j /\ j + Width(p) \in Nat
  BY <1>1, WidthNat
<1>3. Roomy(<<p>> \o t, j + Width(p))
  <2>1. Fits(p, t, j + Width(p))
    BY <1>1 DEF Fits, Counted, Checks
  <2> QED BY <1>1, <2>1, RoomyCons
<1>4. Short(<<p>> \o t, j + Width(p))
  <2>1. Recovers(p, t, j + Width(p))
    BY <1>2 DEF Recovers, Counted
  <2> QED BY <1>1, <2>1, ShortCons
<1>5. Spans(Counted, <<p>> \o t, j + Width(p))
  BY <1>1, SpansCons
<1> QED BY <1>1, <1>2, <1>3, <1>4, <1>5, ListCons DEF Continues

(* A part of the text before the rest of a duration.                       *)
LEMMA ContinuesPlain ==
  ASSUME NEW c, NEW w, Agree(c, c, w), NEW t, NEW j, Continues(t, j)
  PROVE  /\ Continues(c \o t, w + j)
         /\ t \in Escapes => c \o t \in Escapes
<1>1. /\ t \in Lists /\ t # <<>> /\ j \in Nat /\ j \in Int
      /\ Roomy(t, j) /\ Short(t, j) /\ Spans(Counted, t, j)
      /\ c \in Lists /\ w \in Nat /\ Spans(Plain, c, w) /\ Spans(Counted, c, w)
  BY DEF Continues, Agree
<1>2. Roomy(c \o t, w + j) /\ Short(c \o t, w + j) /\ Spans(Counted, c \o t, w + j)
  BY <1>1, RoomyConcat, ShortConcat, SpansConcat, Zenon
<1>3. c \o t \in Lists /\ c \o t # <<>> /\ w + j \in Nat
  BY <1>1, ListConcat, ConcatEqualIffEmpty DEF Lists
<1>4. t \in Escapes => c \o t \in Escapes
  <2>1. Spans(Plain \cup {"field"}, c, w)
    BY <1>1, SpansMonotone
  <2> QED BY <1>1, <2>1, EscapesConcat
<1> QED BY <1>2, <1>3, <1>4 DEF Continues

(* A part that is skipped after an error.                                  *)
LEMMA ContinuesSkip ==
  ASSUME NEW c \in Lists, NEW t \in Lists, t \in Escapes, NEW j, Continues(c \o t, j)
  PROVE  /\ Continues((<<IfOk(Len(c))>> \o c) \o t, j)
         /\ (<<IfOk(Len(c))>> \o c) \o t \in Escapes
<1> DEFINE p == IfOk(Len(c))
<1>1. Len(c) \in Nat
  BY LenProperties DEF Lists
<1>2. p \in PieceSet /\ p.op = "ifOk" /\ Width(p) = 0
  BY <1>1, GuardPieceFacts
<1> HIDE DEF p
<1>3. Continues(<<p>> \o (c \o t), j + Width(p)) /\ j + Width(p) = j
  <2>1. p.op \in Counted \ {"length"} /\ p.op # "field" /\ p.op \notin {"digits", "number"}
    BY <1>2 DEF Counted
  <2>2. Continues(<<p>> \o (c \o t), j + Width(p))
    BY <1>2, <2>1, ContinuesPiece, Zenon
  <2> QED BY <1>2, <2>2 DEF Continues
<1>4. (<<p>> \o c) \o t = <<p>> \o (c \o t)
  BY <1>2, ConsConcat
<1> QED BY <1>3, <1>4, EscapesSkip DEF p

(* The end of a duration.                                                  *)
LEMMA EndContinues == Continues(<<End>>, 0) /\ <<End>> \in Escapes
BY EndOnly, EndEscapes DEF Continues

(* The fraction of the seconds, and their letter.                          *)
LEMMA FractionContinues ==
  ASSUME NEW n \in 0..9
  PROVE  LET t == (If(n > 0, <<IfOk(2)>> \o Nanoseconds(n)) \o <<Char>>) \o <<End>>
         IN  t \in Escapes /\ \E j \in 1..11 : Continues(t, j)
<1> DEFINE e == <<Char>> \o <<End>>
<1>1. /\ Char \in PieceSet /\ Char.op \in Plain /\ Char.op \in Counted \ {"length"}
      /\ Char.op # "field" /\ Char.op \notin {"digits", "number"} /\ Width(Char) = 1
      /\ <<Char>> \in Lists /\ <<End>> \in Lists
  BY PieceFacts, Single DEF Plain, Counted
<1>2. Continues(e, 0 + 1) /\ e \in Escapes /\ 0 + 1 = 1
  <2>1. Continues(e, 0 + Width(Char))
    BY <1>1, EndContinues, ContinuesPiece, Zenon
  <2> QED BY <1>1, <2>1, EndContinues, EscapesCons
<1>3. e \in Lists
  BY <1>2 DEF Continues
<1>4. CASE n = 0
  <2>1. (<<>> \o <<Char>>) \o <<End>> = e
    BY <1>1, ListConcat
  <2> QED BY <1>2, <1>4, <2>1 DEF If
<1>5. CASE n > 0
  <2> DEFINE c == <<Char, String(n)>>
             t == ((<<IfOk(2)>> \o c) \o <<Char>>) \o <<End>>
  <2>1. n \in Nat /\ String(n) \in PieceSet /\ String(n).op \in Plain /\ Width(String(n)) = n
    BY CountedPieceFacts DEF Plain
  <2>2. Agree(c, c, 1 + n)
    <3>1. Agree(<<String(n)>>, <<String(n)>>, n)
      BY <2>1, AgreePiece
    <3> QED BY <1>1, <2>1, <3>1, AgreeCons, Tuple2, Zenon
  <2>3. c \in Lists /\ Len(c) = 2
    BY <2>2 DEF Agree
  <2>4. Continues(c \o e, (1 + n) + 1)
    BY <1>2, <2>2, ContinuesPlain
  <2>5. Continues((<<IfOk(2)>> \o c) \o e, (1 + n) + 1) /\ (<<IfOk(2)>> \o c) \o e \in Escapes
    BY <1>2, <1>3, <2>3, <2>4, ContinuesSkip
  <2>6. t = (<<IfOk(2)>> \o c) \o e
    <3>1. IfOk(2) \in PieceSet
      BY GuardPieceFacts
    <3>2. <<IfOk(2)>> \o c \in Lists
      BY <2>3, <3>1, ListCons
    <3> QED BY <1>1, <3>2, ConcatAssociative DEF Lists
  <2>7. If(n > 0, <<IfOk(2)>> \o Nanoseconds(n)) = <<IfOk(2)>> \o c
    BY <1>5 DEF If, Nanoseconds
  <2>8. (1 + n) + 1 \in 1..11
    OBVIOUS
  <2> QED BY <2>5, <2>6, <2>7, <2>8
<1> QED BY <1>4, <1>5

(* The seconds come last, and tell that there is no room by themselves.    *)
LEMMA SecondsContinue ==
  ASSUME NEW v, v.second \in 0..2, v.fraction \in 0..9
  PROVE  LET t == If(v.second > 0, Seconds(v)) \o <<End>>
         IN  /\ If(v.second > 0, Seconds(v)) \in Lists
             /\ \E j \in 0..13 : Continues(t, j) /\ (t \in Escapes \/ Late(t, j))
<1>1. CASE v.second = 0
  <2>1. If(v.second > 0, Seconds(v)) \o <<End>> = <<End>>
    BY <1>1, EndOnly, ListConcat DEF If
  <2>2. 0 \in 0..13
    OBVIOUS
  <2>3. If(v.second > 0, Seconds(v)) \in Lists
    BY <1>1, EmptySeq DEF If, Lists
  <2> QED BY <2>1, <2>2, <2>3, EndContinues
<1>2. CASE v.second > 0
  <2> DEFINE f == If(v.fraction > 0, <<IfOk(2)>> \o Nanoseconds(v.fraction))
             r == (f \o <<Char>>) \o <<End>>
             p == Digits(v.second)
  <2>1. r \in Escapes
    BY FractionContinues
  <2>2. PICK j \in 1..11 : Continues(r, j)
    BY FractionContinues
  <2>3. p \in PieceSet /\ p.op = "digits" /\ Width(p) = v.second /\ p.n = v.second
    BY <1>2, CountedPieceFacts
  <2>4. f \in Lists /\ <<Char>> \in Lists /\ <<End>> \in Lists /\ f \o <<Char>> \in Lists
    <3>1. f \in Lists
      <4>1. CASE v.fraction > 0
        <5>1. <<Char, String(v.fraction)>> \in Lists /\ IfOk(2) \in PieceSet
          <6>1. v.fraction \in Nat /\ 2 \in Nat
            OBVIOUS
          <6>2. Char \in PieceSet /\ String(v.fraction) \in PieceSet /\ IfOk(2) \in PieceSet
            BY <6>1, PieceFacts, CountedPieceFacts, GuardPieceFacts, Zenon
          <6> QED BY <6>2, Tuple2
        <5> QED BY <4>1, <5>1, ListCons DEF If, Nanoseconds
      <4>2. CASE ~(v.fraction > 0)
        BY <4>2, EmptySeq DEF If, Lists
      <4> QED BY <4>1, <4>2
    <3> QED BY <3>1, PieceFacts, Single, ListConcat
  <2> HIDE DEF r, f, p
  <2>5. Continues(<<p>> \o r, j + v.second)
    BY <2>1, <2>2, <2>3, ContinuesPiece DEF Counted
  <2>6. Late(<<p>> \o r, j + v.second)
    <3>1. r \in Lists
      BY <2>2 DEF Continues
    <3>2. j + v.second \in Int /\ 1 <= p.n /\ p.n < j + v.second
      BY <1>2, <2>3
    <3> QED BY <2>3, <3>1, <3>2, LateStops
  <2>7. If(v.second > 0, Seconds(v)) \o <<End>> = <<p>> \o r
    <3>1. If(v.second > 0, Seconds(v)) = (<<p>> \o f) \o <<Char>>
      BY <1>2 DEF If, Seconds, p, f
    <3>2. (<<p>> \o f) \o <<Char>> = <<p>> \o (f \o <<Char>>)
      BY <2>3, <2>4, ConsConcat
    <3>3. (<<p>> \o (f \o <<Char>>)) \o <<End>> = <<p>> \o ((f \o <<Char>>) \o <<End>>)
      BY <2>3, <2>4, ConsConcat
    <3> QED BY <3>1, <3>2, <3>3 DEF r
  <2>8. j + v.second \in 0..13
    BY <1>2
  <2>9. If(v.second > 0, Seconds(v)) \in Lists
    <3>1. If(v.second > 0, Seconds(v)) = (<<p>> \o f) \o <<Char>>
      BY <1>2 DEF If, Seconds, p, f
    <3>2. <<p>> \o f \in Lists
      BY <2>3, <2>4, ListCons
    <3>3. (<<p>> \o f) \o <<Char>> \in Lists
      BY <2>4, <3>2, ListConcat
    <3> QED BY <3>1, <3>3
  <2> QED BY <2>5, <2>6, <2>7, <2>8, <2>9
<1> QED BY <1>1, <1>2

-----------------------------------------------------------------------------

(* A field that is not zero comes before the others.                       *)
LEMMA FieldsShown ==
  ASSUME NEW n \in Nat, NEW s \in Seq(Nat)
  PROVE  /\ Shown(n) \o s \in Seq(Nat)
         /\ Fields(Shown(n) \o s) = If(n > 0, <<Field(n)>>) \o Fields(s)
         /\ Fields(s) \in Lists
<1>1. Fields(s) \in Lists
  <2>1. \A k \in 1..Len(s) : Field(s[k]) \in PieceSet
    BY CountedPieceFacts, ElementOfSeq
  <2>2. Len(s) \in Nat
    BY LenProperties
  <2> QED BY <2>1, <2>2 DEF Fields, Lists
<1>2. CASE n > 0
  <2>1. Fields(<<n>> \o s) = <<Field(n)>> \o Fields(s)
    BY DEF Fields
  <2>2. <<n>> \o s \in Seq(Nat)
    BY ConcatProperties
  <2> QED BY <1>1, <1>2, <2>1, <2>2 DEF Shown, If
<1>3. CASE n = 0
  <2>1. <<>> \o s = s /\ <<>> \o Fields(s) = Fields(s)
    BY <1>1, ConcatEmptySeq DEF Lists
  <2> QED BY <1>1, <1>3, <2>1 DEF Shown, If
<1>4. n > 0 \/ n = 0
  OBVIOUS
<1> QED BY <1>2, <1>3, <1>4, Zenon

(* A field of the date, after which an error skips everything.             *)
LEMMA DateFieldContinues ==
  ASSUME NEW n \in Nat, NEW t, NEW j, Continues(t, j), t \in Escapes
  PROVE  /\ Continues(If(n > 0, <<Field(n)>>) \o t, j + (IF n > 0 THEN n + 1 ELSE 0))
         /\ If(n > 0, <<Field(n)>>) \o t \in Escapes
<1>1. t \in Lists /\ j \in Nat
  BY DEF Continues
<1>2. /\ Field(n) \in PieceSet /\ Field(n).op = "field" /\ Width(Field(n)) = n + 1
      /\ Field(n).op \in Counted \ {"length"}
  BY CountedPieceFacts DEF Counted
<1>3. CASE n > 0
  <2>1. Continues(<<Field(n)>> \o t, j + Width(Field(n)))
    BY <1>2, ContinuesPiece
  <2>2. <<Field(n)>> \o t \in Escapes
    BY <1>1, <1>2, EscapesCons
  <2> QED BY <1>2, <1>3, <2>1, <2>2 DEF If
<1>4. CASE n = 0
  BY <1>1, <1>4, ListConcat DEF If
<1> QED BY <1>3, <1>4

(* A field of the time, after which an error may be followed by seconds.   *)
LEMMA TimeFieldContinues ==
  ASSUME NEW n \in 0..2, NEW t, NEW j, Continues(t, j), t \in Escapes \/ Late(t, j)
  PROVE  LET s == If(n > 0, <<Field(n)>>) \o t
             k == j + (IF n > 0 THEN n + 1 ELSE 0)
         IN  Continues(s, k) /\ (s \in Escapes \/ Late(s, k))
<1>1. t \in Lists /\ j \in Nat /\ j \in Int /\ n \in Nat
  BY DEF Continues
<1>2. /\ Field(n) \in PieceSet /\ Field(n).op = "field" /\ Width(Field(n)) = n + 1
      /\ Field(n).op \in Counted \ {"length"} /\ Field(n).n <= 2
  BY CountedPieceFacts DEF Counted
<1>3. CASE n > 0
  <2>1. Continues(<<Field(n)>> \o t, j + Width(Field(n)))
    BY <1>2, ContinuesPiece
  <2>2. t \in Escapes => <<Field(n)>> \o t \in Escapes
    BY <1>1, <1>2, EscapesCons
  <2>3. Late(t, j) => Late(<<Field(n)>> \o t, j + Width(Field(n)))
    BY <1>1, <1>2, LateCons
  <2> QED BY <1>2, <1>3, <2>1, <2>2, <2>3 DEF If
<1>4. CASE n = 0
  BY <1>1, <1>4, ListConcat DEF If
<1> QED BY <1>3, <1>4

(* The fields of the date, which are at most 19 characters.                *)
LEMMA DateFieldsContinue ==
  ASSUME NEW y \in 0..9, NEW m \in 0..2, NEW d \in 0..5,
         NEW t, NEW j, Continues(t, j), t \in Escapes
  PROVE  LET f == Fields(Shown(y) \o Shown(m) \o Shown(d))
         IN  f \in Lists /\ f \o t \in Escapes /\ \E w \in 0..19 : Continues(f \o t, j + w)
<1> DEFINE s == Shown(d) \o <<>>
           r == Shown(m) \o s
           a == If(y > 0, <<Field(y)>>)
           b == If(m > 0, <<Field(m)>>)
           c == If(d > 0, <<Field(d)>>)
<1>1. y \in Nat /\ m \in Nat /\ d \in Nat /\ j \in Nat /\ t \in Lists
  BY DEF Continues
<1>2. a \in Lists /\ b \in Lists /\ c \in Lists /\ <<>> \in Lists
  BY <1>1, CountedPieceFacts, Single DEF If
<1>3. Fields(<<>>) = <<>> /\ <<>> \in Seq(Nat)
  BY DEF Fields
<1>4. s \in Seq(Nat) /\ Fields(s) = c \o <<>> /\ c \o <<>> = c
  <2>1. s \in Seq(Nat) /\ Fields(s) = c \o Fields(<<>>)
    BY <1>1, <1>3, FieldsShown
  <2> QED BY <1>2, <1>3, <2>1, ConcatEmptySeq DEF Lists
<1>5. r \in Seq(Nat) /\ Fields(r) = b \o c
  <2>1. r \in Seq(Nat) /\ Fields(r) = b \o Fields(s)
    BY <1>1, <1>4, FieldsShown
  <2> QED BY <1>4, <2>1
<1>6. Fields(Shown(y) \o r) = a \o (b \o c)
  <2>1. Fields(Shown(y) \o r) = a \o Fields(r)
    BY <1>1, <1>5, FieldsShown
  <2> QED BY <1>5, <2>1
<1>7. Shown(y) \o Shown(m) \o Shown(d) = Shown(y) \o r
  <2>1. Shown(y) \in Seq(Nat) /\ Shown(m) \in Seq(Nat) /\ Shown(d) \in Seq(Nat)
    BY <1>1 DEF Shown
  <2>2. s = Shown(d)
    BY <2>1, ConcatEmptySeq
  <2> QED BY <2>1, <2>2, ConcatAssociative
<1> DEFINE p == IF d > 0 THEN d + 1 ELSE 0
           q == IF m > 0 THEN m + 1 ELSE 0
           u == IF y > 0 THEN y + 1 ELSE 0
<1>8. Continues(c \o t, j + p) /\ c \o t \in Escapes
  BY <1>1, DateFieldContinues
<1>9. Continues(b \o (c \o t), (j + p) + q) /\ b \o (c \o t) \in Escapes
  BY <1>1, <1>8, DateFieldContinues
<1>10. Continues(a \o (b \o (c \o t)), ((j + p) + q) + u) /\ a \o (b \o (c \o t)) \in Escapes
  BY <1>1, <1>9, DateFieldContinues
<1>11. p + q + u \in 0..19 /\ ((j + p) + q) + u = j + (p + q + u)
  BY <1>1
<1> HIDE DEF a, b, c, p, q, u
<1>12. (a \o (b \o c)) \o t = a \o (b \o (c \o t)) /\ a \o (b \o c) \in Lists
  <2>1. b \o c \in Lists
    BY <1>2, ListConcat
  <2>2. (a \o (b \o c)) \o t = a \o ((b \o c) \o t)
    <3>1. Grouped(a, b \o c, t, t)
      BY <1>1, <1>2, <2>1, Regroup, Zenon
    <3> QED BY <3>1 DEF Grouped
  <2>3. (b \o c) \o t = b \o (c \o t)
    BY <1>1, <1>2, ConcatAssociative DEF Lists
  <2> QED BY <1>2, <2>1, <2>2, <2>3, ListConcat
<1> QED BY <1>6, <1>7, <1>10, <1>11, <1>12

(* The fields of the time, which are at most 6 characters.                 *)
LEMMA TimeFieldsContinue ==
  ASSUME NEW h \in 0..2, NEW m \in 0..2,
         NEW t, NEW j, Continues(t, j), t \in Escapes \/ Late(t, j)
  PROVE  LET f == Fields(Shown(h) \o Shown(m))
         IN  f \in Lists /\ \E w \in 0..6 : Continues(f \o t, j + w)
<1> DEFINE s == Shown(m) \o <<>>
           a == If(h > 0, <<Field(h)>>)
           b == If(m > 0, <<Field(m)>>)
<1>1. h \in Nat /\ m \in Nat /\ j \in Nat /\ t \in Lists
  BY DEF Continues
<1>2. a \in Lists /\ b \in Lists /\ <<>> \in Lists
  BY <1>1, CountedPieceFacts, Single DEF If
<1>3. Fields(<<>>) = <<>> /\ <<>> \in Seq(Nat)
  BY DEF Fields
<1>4. s \in Seq(Nat) /\ Fields(s) = b \o <<>> /\ b \o <<>> = b
  <2>1. s \in Seq(Nat) /\ Fields(s) = b \o Fields(<<>>)
    BY <1>1, <1>3, FieldsShown
  <2> QED BY <1>2, <1>3, <2>1, ConcatEmptySeq DEF Lists
<1>5. Fields(Shown(h) \o s) = a \o b
  <2>1. Fields(Shown(h) \o s) = a \o Fields(s)
    BY <1>1, <1>4, FieldsShown
  <2> QED BY <1>4, <2>1
<1>6. Shown(h) \o Shown(m) = Shown(h) \o s
  <2>1. Shown(m) \in Seq(Nat)
    BY <1>1 DEF Shown
  <2>2. s = Shown(m)
    BY <2>1, ConcatEmptySeq
  <2> QED BY <2>2
<1> DEFINE p == IF m > 0 THEN m + 1 ELSE 0
           q == IF h > 0 THEN h + 1 ELSE 0
<1>7. Continues(b \o t, j + p) /\ (b \o t \in Escapes \/ Late(b \o t, j + p))
  BY TimeFieldContinues
<1>8. Continues(a \o (b \o t), (j + p) + q)
  BY <1>7, TimeFieldContinues
<1>9. p + q \in 0..6 /\ (j + p) + q = j + (p + q)
  BY <1>1
<1> HIDE DEF a, b, p, q
<1>10. (a \o b) \o t = a \o (b \o t) /\ a \o b \in Lists
  <2>1. a \o b \in Lists
    BY <1>2, ListConcat
  <2> QED BY <1>1, <1>2, <2>1, ListAssociative
<1> QED BY <1>5, <1>6, <1>8, <1>9, <1>10

(* The time of a duration, after which the text ends.                      *)
TimePart(v) == <<Char>> \o Fields(v.time) \o If(v.second > 0, Seconds(v))

HasTime(v) ==
  /\ \E h \in 0..2, m \in 0..2 : v.time = Shown(h) \o Shown(m)
  /\ v.second \in 0..2 /\ v.fraction \in 0..9

(* The time of a duration is at most 20 characters.                        *)
LEMMA TimePartContinues ==
  ASSUME NEW v, HasTime(v)
  PROVE  TimePart(v) \in Lists /\ \E j \in 0..20 : Continues(TimePart(v) \o <<End>>, j)
<1> DEFINE s == If(v.second > 0, Seconds(v))
           f == Fields(v.time)
           e == <<End>>
           l == <<Char>>
<1>1. v.second \in 0..2 /\ v.fraction \in 0..9
  BY DEF HasTime
<1>2. s \in Lists
  BY <1>1, SecondsContinue
<1>3. PICK j \in 0..13 : Continues(s \o e, j) /\ (s \o e \in Escapes \/ Late(s \o e, j))
  BY <1>1, SecondsContinue
<1>4. PICK h \in 0..2, m \in 0..2 : v.time = Shown(h) \o Shown(m)
  BY DEF HasTime
<1>5. f \in Lists /\ \E w \in 0..6 : Continues(f \o (s \o e), j + w)
  BY <1>3, <1>4, TimeFieldsContinue
<1>6. PICK w \in 0..6 : Continues(f \o (s \o e), j + w)
  BY <1>5
<1>7. Char \in PieceSet /\ Char.op \in Plain /\ Width(Char) = 1 /\ l \in Lists /\ e \in Lists
  BY PieceFacts, EndOnly, Single DEF Plain
<1>8. Continues(l \o (f \o (s \o e)), 1 + (j + w))
  <2>1. Agree(l, l, 1)
    BY <1>7, AgreePiece
  <2> QED BY <1>6, <2>1, ContinuesPlain
<1>9. TimePart(v) = (l \o f) \o s
  BY DEF TimePart
<1> HIDE DEF s, f, e, l
<1>10. l \o f \in Lists /\ (l \o f) \o s \in Lists
  BY <1>2, <1>5, <1>7, ListConcat
<1>11. ((l \o f) \o s) \o e = l \o (f \o (s \o e))
  <2>1. ((l \o f) \o s) \o e = l \o ((f \o s) \o e)
    <3>1. Grouped(l, f, s, e)
      BY <1>2, <1>5, <1>7, Regroup, Zenon
    <3> QED BY <3>1 DEF Grouped
  <2>2. (f \o s) \o e = f \o (s \o e)
    BY <1>2, <1>5, <1>7, ConcatAssociative DEF Lists
  <2> QED BY <2>1, <2>2
<1>12. 1 + (j + w) \in 0..20
  OBVIOUS
<1> QED BY <1>8, <1>9, <1>10, <1>11, <1>12 DEF e

HasDate(v) ==
  \E y \in 0..9, m \in 0..2, d \in 0..5 : v.date = Shown(y) \o Shown(m) \o Shown(d)

(* A duration is at most 41 characters.                                    *)
LEMMA DurationContinues ==
  ASSUME NEW v, HasDate(v), HasTime(v), v.zero = FALSE, v.negative \in BOOLEAN
  PROVE  \E n \in 0..41 : Continues(Duration(v), n)
<1> DEFINE e == <<End>>
           f == Fields(v.date)
           t == If(v.time # <<>> \/ v.second > 0, <<IfOk(Len(TimePart(v)))>> \o TimePart(v))
           a == If(v.negative, <<Char>>) \o <<Char>>
<1>1. Duration(v) = ((a \o f) \o t) \o e
  BY DEF Duration, TimePart
<1>2. e \in Lists /\ e \in Escapes /\ Continues(e, 0)
  BY EndOnly, EndContinues
<1>3. t \in Lists /\ t \o e \in Escapes /\ \E j \in 0..20 : Continues(t \o e, j)
  <2>1. TimePart(v) \in Lists
    BY TimePartContinues
  <2>2. PICK j \in 0..20 : Continues(TimePart(v) \o e, j)
    BY TimePartContinues
  <2>3. CASE v.time # <<>> \/ v.second > 0
    <3>1. t = <<IfOk(Len(TimePart(v)))>> \o TimePart(v)
      BY <2>3 DEF If
    <3>2. Continues(t \o e, j) /\ t \o e \in Escapes
      BY <1>2, <2>1, <2>2, <3>1, ContinuesSkip
    <3>3. t \in Lists
      <4>1. Len(TimePart(v)) \in Nat
        BY <2>1, LenProperties DEF Lists
      <4>2. IfOk(Len(TimePart(v))) \in PieceSet
        BY <4>1, GuardPieceFacts
      <4> QED BY <2>1, <3>1, <4>2, ListCons
    <3> QED BY <3>2, <3>3
  <2>4. CASE ~(v.time # <<>> \/ v.second > 0)
    <3>1. t = <<>> /\ t \in Lists /\ 0 \in 0..20
      BY <2>4, EmptySeq DEF If, Lists
    <3>2. t \o e = e
      BY <1>2, <3>1, ListConcat
    <3> QED BY <1>2, <3>1, <3>2
  <2> QED BY <2>3, <2>4
<1>4. PICK j \in 0..20 : Continues(t \o e, j)
  BY <1>3, Zenon
<1>5. PICK y \in 0..9, m \in 0..2, d \in 0..5 : v.date = Shown(y) \o Shown(m) \o Shown(d)
  BY DEF HasDate
<1>6. f \in Lists /\ \E w \in 0..19 : Continues(f \o (t \o e), j + w)
  <2> HIDE DEF t, e
  <2> QED BY <1>3, <1>4, <1>5, DateFieldsContinue
<1>7. PICK w \in 0..19 : Continues(f \o (t \o e), j + w)
  BY <1>6
<1>8. a \in Lists /\ \E u \in 1..2 : Agree(a, a, u)
  <2>1. Agree(<<Char>>, <<Char>>, 1)
    BY PieceFacts, AgreePiece DEF Plain
  <2>2. Agree(If(v.negative, <<Char>>), If(v.negative, <<Char>>), IF v.negative THEN 1 ELSE 0)
    BY <2>1, AgreeIf
  <2>3. Agree(a, a, (IF v.negative THEN 1 ELSE 0) + 1)
    BY <2>1, <2>2, AgreeConcat, Zenon
  <2>4. (IF v.negative THEN 1 ELSE 0) + 1 \in 1..2
    OBVIOUS
  <2> QED BY <2>3, <2>4, Zenon DEF Agree
<1>9. PICK u \in 1..2 : Agree(a, a, u)
  BY <1>8
<1>10. Continues(a \o (f \o (t \o e)), u + (j + w))
  BY <1>7, <1>9, ContinuesPlain
<1> HIDE DEF a, f, t, e
<1>11. ((a \o f) \o t) \o e = a \o (f \o (t \o e))
  <2>1. ((a \o f) \o t) \o e = a \o ((f \o t) \o e)
    <3>1. Grouped(a, f, t, e)
      BY <1>2, <1>3, <1>6, <1>8, Regroup, Zenon
    <3> QED BY <3>1 DEF Grouped
  <2>2. (f \o t) \o e = f \o (t \o e)
    BY <1>2, <1>3, <1>6, ConcatAssociative DEF Lists
  <2> QED BY <2>1, <2>2
<1>12. u + (j + w) \in 0..41
  OBVIOUS
<1> QED BY <1>1, <1>10, <1>11, <1>12

(* exess_write_duration.                                                   *)
LEMMA DurationAgrees ==
  ASSUME NEW v, v.kind = "duration", v.valid = TRUE, v.zero \in BOOLEAN, v.negative \in BOOLEAN,
         HasDate(v), HasTime(v)
  PROVE  \E n \in Nat : Agrees(v, n)
<1>1. \A m \in BOOLEAN : Program(v, m) = Duration(v)
  BY DEF Program
<1>2. \E n \in 0..41 : Continues(Duration(v), n)
  <2>1. CASE v.zero
    <3>1. String(3) \in PieceSet /\ String(3).op \in Plain /\ Width(String(3)) = 3
      BY CountedPieceFacts DEF Plain
    <3>2. Agree(<<String(3)>>, <<String(3)>>, 3)
      BY <3>1, AgreePiece
    <3>3. Continues(<<String(3)>> \o <<End>>, 3 + 0)
      BY <3>2, EndContinues, ContinuesPlain
    <3>4. Duration(v) = <<String(3)>> \o <<End>>
      BY <2>1, <3>1, PieceFacts, Tuple2 DEF Duration
    <3>5. 3 + 0 \in 0..41
      OBVIOUS
    <3> QED BY <3>3, <3>4, <3>5
  <2>2. CASE ~v.zero
    BY <2>2, DurationContinues
  <2> QED BY <2>1, <2>2
<1>3. PICK n \in 0..41 : Continues(Duration(v), n)
  BY <1>2
<1>4. n \in Nat /\ Declared(v, n)
  BY DEF Declared, MaxLength
<1>5. Measures(Program(v, TRUE), n) /\ Written(Program(v, FALSE), n)
  BY <1>1, <1>3 DEF Continues, Measures, Written
<1> QED BY <1>4, <1>5 DEF Agrees

-----------------------------------------------------------------------------
(* Values that are refused.                                                *)

(* An error in the value at once.                                          *)
LEMMA FailAlone ==
  ASSUME NEW t \in Lists
  PROVE  Doomed(<<Fail>> \o t) /\ Refusing(<<Fail>> \o t)
<1>1. Doomed(<<>> \o (<<Fail>> \o t)) /\ Refusing(<<>> \o (<<Fail>> \o t))
  BY AgreeEmpty, FailsAfter
<1>2. <<Fail>> \o t \in Lists
  BY PieceFacts, ListCons
<1>3. <<>> \o (<<Fail>> \o t) = <<Fail>> \o t
  BY <1>2, ListConcat
<1> QED BY <1>1, <1>3

FailsEarly(v) == Doomed(Program(v, TRUE)) /\ Refusing(Program(v, FALSE))

(* Nothing, and what is not valid, is refused at once.                     *)
LEMMA InvalidFails ==
  ASSUME NEW v, \/ v.kind = "nothing"
                \/ v.kind \in {"duration", "date", "time", "dateTime"} /\ v.valid = FALSE
  PROVE  FailsEarly(v)
<1>1. \A m \in BOOLEAN : Program(v, m) = <<Fail>>
  BY DEF Program
<1>2. <<Fail>> = <<Fail>> \o <<>> /\ <<>> \in Lists
  BY PieceFacts, Single
<1>3. Doomed(<<Fail>>) /\ Refusing(<<Fail>>)
  BY <1>2, FailAlone
<1> QED BY <1>1, <1>3 DEF FailsEarly

(* A date with a bad zone is refused after its digits.                     *)
LEMMA BadDateFails ==
  ASSUME NEW v, v.kind = "date", HasZone(v), v.valid = TRUE, v.zone = "bad"
  PROVE  FailsEarly(v)
<1> DEFINE mid == <<Char, Two, Char, Two>>
<1>1. \A m \in BOOLEAN : Program(v, m) = Year(v, m) \o ((mid \o Zone(v.zone, m)) \o <<End>>)
  BY DateSplits DEF HasZone, Program
<1>2. \A m \in BOOLEAN : Zone(v.zone, m) = <<Fail>>
  BY DEF Zone
<1>3. Agree(mid, mid, 6) /\ mid \in Lists /\ <<Fail>> \in Lists /\ <<End>> \in Lists
  BY AgreePairs, PieceFacts, Single DEF Agree
<1> HIDE DEF mid
<1>4. (mid \o <<Fail>>) \o <<End>> = mid \o (<<Fail>> \o <<End>>)
  BY <1>3, ConcatAssociative DEF Lists
<1>5. /\ Doomed(Year(v, TRUE) \o (mid \o (<<Fail>> \o <<End>>)))
      /\ Refusing(Year(v, FALSE) \o (mid \o (<<Fail>> \o <<End>>)))
  BY <1>3, FailAfterYear DEF HasZone
<1> QED BY <1>1, <1>2, <1>4, <1>5 DEF FailsEarly

(* A time with a bad zone: its digits, and the failure.                    *)
LEMMA BadTimeSplits ==
  ASSUME NEW v, v.fraction \in 0..9, v.zone = "bad", NEW m \in BOOLEAN
  PROVE  Time(v, m) = TimeDigits(v) \o <<Fail>> /\ Time(v, m) \in Lists /\ TimeDigits(v) \in Lists
<1>1. TimeDigits(v) \in Lists /\ <<Fail>> \in Lists
  BY TimeDigitsAgree, PieceFacts, Single DEF Agree
<1>2. Time(v, m) = TimeDigits(v) \o <<Fail>>
  BY DEF Time, TimeDigits, Zone
<1> QED BY <1>1, <1>2, ListConcat

(* A time with a bad zone is refused after its digits.                     *)
LEMMA BadTimeFails ==
  ASSUME NEW v, v.kind = "time", HasZone(v), v.valid = TRUE, v.zone = "bad"
  PROVE  FailsEarly(v)
<1> DEFINE d == TimeDigits(v)
<1>1. PICK w \in 8..18 : Agree(d, d, w)
  BY TimeDigitsAgree DEF HasZone
<1>2. \A m \in BOOLEAN : Program(v, m) = (d \o <<Fail>>) \o <<End>>
  BY BadTimeSplits DEF HasZone, Program
<1>3. d \in Lists /\ <<Fail>> \in Lists /\ <<End>> \in Lists
  BY <1>1, PieceFacts, Single DEF Agree
<1> HIDE DEF d
<1>4. (d \o <<Fail>>) \o <<End>> = d \o (<<Fail>> \o <<End>>)
  BY <1>3, ConcatAssociative DEF Lists
<1>5. Doomed(d \o (<<Fail>> \o <<End>>)) /\ Refusing(d \o (<<Fail>> \o <<End>>))
  BY <1>1, <1>3, FailsAfter
<1> QED BY <1>2, <1>4, <1>5 DEF FailsEarly

(* So is a date and time.                                                  *)
LEMMA BadDateTimeFails ==
  ASSUME NEW v, v.kind = "dateTime", HasZone(v), v.valid = TRUE, v.zone = "bad"
  PROVE  FailsEarly(v)
<1> DEFINE d == TimeDigits(v)
           b(m) == ((<<Char, Two, Char, Two>> \o Zone("local", m)) \o <<End>>) \o <<Char>>
           f == <<Fail>>
           e == <<End>>
<1>1. PICK w \in 8..18 : Agree(d, d, w)
  BY TimeDigitsAgree DEF HasZone
<1>2. Agree(b(FALSE) \o d, b(TRUE) \o d, 7 + w)
  BY <1>1, AfterYearAgrees
<1>3. /\ Doomed(Year(v, TRUE) \o ((b(TRUE) \o d) \o (f \o e)))
      /\ Refusing(Year(v, FALSE) \o ((b(FALSE) \o d) \o (f \o e)))
  <2>1. e \in Lists
    BY PieceFacts, Single
  <2> HIDE DEF b, d, e
  <2> QED BY <1>2, <2>1, FailAfterYear DEF HasZone, f
<1>4. ASSUME NEW m \in BOOLEAN
      PROVE  Program(v, m) = Year(v, m) \o ((b(m) \o d) \o (f \o e))
  <2>1. Program(v, m) = Year(v, m) \o ((b(m) \o (d \o f)) \o e)
    <3>1. Time(v, m) = d \o f /\ Time(v, m) \in Lists
      BY BadTimeSplits DEF HasZone
    <3> QED BY <3>1, DateTimeSplits DEF AfterYear
  <2>2. b(m) \in Lists
    <3>1. Zone("local", m) = <<>> /\ <<>> \in Lists /\ <<Char, Two, Char, Two>> \in Lists
      BY AgreePairs, AgreeEmpty DEF Zone, Agree
    <3>2. <<End>> \in Lists /\ <<Char>> \in Lists
      BY PieceFacts, Single
    <3> QED BY <3>1, <3>2, ListConcat
  <2>3. d \in Lists /\ f \in Lists /\ e \in Lists /\ d \o f \in Lists
    BY <1>1, PieceFacts, Single, ListConcat DEF Agree
  <2> HIDE DEF b, d, f, e
  <2>4. (b(m) \o (d \o f)) \o e = (b(m) \o d) \o (f \o e)
    <3>1. Grouped(b(m), d, f, e)
      BY <2>2, <2>3, Regroup, Zenon
    <3>2. b(m) \o d \in Lists
      BY <2>2, <2>3, ListConcat
    <3>3. Grouped(b(m) \o d, f, e, e)
      BY <2>3, <3>2, Regroup, Zenon
    <3> QED BY <3>1, <3>3 DEF Grouped
  <2> QED BY <2>1, <2>4
<1> HIDE DEF b, d, f, e
<1> QED BY <1>3, <1>4 DEF FailsEarly

(* Every bad value is refused, measured or written.                        *)
LEMMA BadFails ==
  ASSUME NEW v, IsValue(v), Bad(v)
  PROVE  FailsEarly(v)
<1>1. CASE v.kind \in {"date", "time", "dateTime"} /\ v.valid /\ v.zone = "bad"
  <2>1. HasZone(v) /\ v.valid = TRUE
    BY <1>1 DEF IsValue, HasZone, HasYear
  <2> QED BY <1>1, <2>1, BadDateFails, BadTimeFails, BadDateTimeFails
<1>2. CASE \/ v.kind = "nothing"
           \/ v.kind \in {"duration", "date", "time", "dateTime"} /\ ~v.valid
  <2>1. v.kind = "nothing" \/ v.valid = FALSE
    BY <1>2 DEF IsValue
  <2> QED BY <1>2, <2>1, InvalidFails
<1>3. \/ v.kind \in {"date", "time", "dateTime"} /\ v.valid /\ v.zone = "bad"
      \/ v.kind = "nothing"
      \/ v.kind \in {"duration", "date", "time", "dateTime"} /\ ~v.valid
  BY DEF Bad
<1> QED BY <1>1, <1>2, <1>3, Zenon

(* A decimal that is not a number is measured as nothing, and not written. *)
LEMMA LateRefusedFails ==
  ASSUME NEW v, LateRefused(v)
  PROVE  Measures(Program(v, TRUE), 0) /\ Refusing(Program(v, FALSE))
<1>1. Program(v, TRUE) = <<Length(0)>>
  BY DEF LateRefused, Program, Decimal, DecimalLength
<1>2. Program(v, FALSE) = <<Need(3)>> \o <<Fail>>
  BY DEF LateRefused, Program, Decimal
<1>3. <<Fail>> \in Lists /\ Refusing(<<Fail>>)
  BY FailAlone, PieceFacts, Single
<1>4. Need(3) \in PieceSet /\ Need(3).op \in Checks \ {"needBare"}
  BY GuardPieceFacts DEF Checks
<1>5. <<Need(3)>> \o <<Fail>> \in Lists
  BY <1>3, <1>4, ListCons
<1>6. \A j \in Int : Short(<<Need(3)>> \o <<Fail>>, j)
  BY <1>3, <1>4, ShortCheck DEF Refusing
<1> QED BY <1>1, <1>2, <1>5, <1>6, MeasuresLength DEF Refusing

(* All others agree with what is measured.                                 *)
LEMMA ValueAgrees ==
  ASSUME NEW v, IsValue(v), ~Bad(v), ~LateRefused(v)
  PROVE  \E n \in Nat : Agrees(v, n)
<1>1. CASE v.kind = "boolean" /\ v.true \in BOOLEAN
  BY <1>1, BooleanAgrees
<1>2. CASE /\ v.kind = "integer" /\ v.negative \in BOOLEAN /\ v.lowest \in BOOLEAN
           /\ v.digits \in 1..(IF v.negative THEN 19 ELSE 20)
  BY <1>2, IntegerAgrees
<1>3. CASE v.kind = "decimal" /\ v.class \in Classes /\ v.digits \in Nat \ {0} /\ v.expt \in Int
  BY <1>3, DecimalAgrees DEF LateRefused
<1>4. CASE v.kind = "double" /\ v.class \in Classes
           /\ v.digits \in 1..17 /\ v.expt \in Int /\ v.exptDigits \in 1..3
  BY <1>4, ScientificAgrees
<1>5. CASE v.kind = "float" /\ v.class \in Classes
           /\ v.digits \in 1..9 /\ v.expt \in Int /\ v.exptDigits \in 1..2
  BY <1>5, ScientificAgrees
<1>6. CASE v.kind = "duration"
  <2>1. HasDate(v) /\ HasTime(v) /\ v.valid = TRUE /\ v.zero \in BOOLEAN /\ v.negative \in BOOLEAN
    <3>1. /\ v.valid \in BOOLEAN /\ v.zero \in BOOLEAN /\ v.negative \in BOOLEAN
          /\ \E y \in 0..9, m \in 0..2, d \in 0..5 : v.date = Shown(y) \o Shown(m) \o Shown(d)
          /\ \E h \in 0..2, m \in 0..2 : v.time = Shown(h) \o Shown(m)
          /\ v.second \in 0..2 /\ v.fraction \in 0..(IF v.second > 0 THEN 9 ELSE 0)
      BY <1>6, Zenon DEF IsValue
    <3>2. v.fraction \in 0..9
      <4>1. v.fraction \in 0..(IF v.second > 0 THEN 9 ELSE 0)
        BY <3>1, Zenon
      <4> QED BY <4>1
    <3>3. HasDate(v) /\ HasTime(v)
      BY <3>1, <3>2, Zenon DEF HasDate, HasTime
    <3>4. v.valid = TRUE
      BY <1>6, <3>1, Zenon DEF Bad
    <3> QED BY <3>1, <3>3, <3>4
  <2> QED BY <1>6, <2>1, DurationAgrees
<1>7. CASE v.kind \in {"date", "time", "dateTime"}
  <2>1. HasZone(v) /\ v.valid = TRUE /\ v.zone # "bad"
    BY <1>7 DEF IsValue, HasZone, HasYear, Bad
  <2> QED BY <1>7, <2>1, DateAgrees, TimeKindAgrees, DateTimeAgrees
<1>8. CASE v.kind \in {"hex", "base64"} /\ v.size \in Nat
  BY <1>8, BlobAgrees
<1> QED BY <1>1, <1>2, <1>3, <1>4, <1>5, <1>6, <1>7, <1>8 DEF IsValue, Bad

-----------------------------------------------------------------------------
(***************************************************************************)
(* The states that are reached.                                            *)
(***************************************************************************)

(* The length of the text of a value, zero if it is refused.               *)
TextLength(v) ==
  IF Bad(v) \/ LateRefused(v) THEN 0 ELSE CHOOSE n \in Nat : Agrees(v, n)

Statuses == {"SUCCESS", "NO_SPACE", "BAD_VALUE"}

Types ==
  /\ value \in Values
  /\ pc \in {"idle", "measure", "measured", "write", "done"}
  /\ size \in Nat
  /\ pieces \in Lists
  /\ i \in Nat
  /\ status \in Statuses
  /\ cells \in [0..Top -> {"before", "char", "null"}]
  /\ measured \in [status : Statuses, count : Nat]

Fresh == size = 0 /\ i = 0 /\ status = "SUCCESS" /\ cells = Untouched

(* Without a buffer, the length of the text is added up until it ends, or  *)
(* until the error that is certain to come.                                *)
Measuring ==
  /\ size = 0 /\ cells = Untouched
  /\ \/ /\ ~Bad(value) /\ status = "SUCCESS"
        /\ Spans(Counted, pieces, TextLength(value) - i)
     \/ Bad(value) /\ status = "SUCCESS" /\ Doomed(pieces)
     \/ Bad(value) /\ status = "BAD_VALUE" /\ pieces = <<>> /\ i = 0

Measured ==
  /\ measured.status = "SUCCESS" <=> ~Bad(value)
  /\ measured.count = TextLength(value)

(* A buffer that the text and its null fit in.                             *)
Enough == ~Bad(value) /\ ~LateRefused(value) /\ TextLength(value) < size

(* The first a characters of the text, with or without a null behind them. *)
TextOf(a) == Put(Untouched, 0, a, "char")
Ended(a) == NullAt(TextOf(a), a)

(* In such a buffer the text is written up to the offset.                  *)
Filling ==
  /\ status = "SUCCESS"
  /\ Roomy(pieces, TextLength(value) - i)
  /\ cells \in {TextOf(i), Ended(i)}
  /\ pieces = <<>> => cells = Ended(i)

(* An empty string, if there is room for one.                              *)
Empty == size > 0 => cells[0] = "null"

(* Otherwise an error is certain to come; or it has come, and the string   *)
(* is certain to be emptied; or it has come, and what follows may hide it, *)
(* with too little room left for that to be the last of it.                *)
Failing ==
  \/ status = "SUCCESS" /\ \E j \in Int : Short(pieces, j) /\ i + j >= size
  \/ /\ status = "SUCCESS"
     /\ pieces # <<>> /\ Head(pieces).op = "needBare"
     /\ i = 0 /\ size < Head(pieces).n /\ Empty
  \/ status # "SUCCESS" /\ pieces \in Escapes
  \/ /\ status # "SUCCESS" /\ i + 2 >= size
     /\ \E j \in Int : Late(pieces, j) /\ Short(pieces, j)
  \/ status # "SUCCESS" /\ pieces = <<>> /\ i = 0 /\ Empty

Writing == IF Enough THEN Filling ELSE Failing

(* The inductive invariant.                                                *)
IInv ==
  /\ Types
  /\ pc = "idle" => Fresh
  /\ pc = "measure" => Measuring
  /\ pc = "measured" => i = 0 /\ status = "SUCCESS" /\ cells = Untouched
  /\ pc \in {"measured", "write", "done"} => Measured
  /\ pc \in {"write", "done"} => Writing
  /\ pc = "done" => pieces = <<>>

-----------------------------------------------------------------------------

(* What is measured and what is written, for every value.                  *)
LEMMA TextLengthAgrees ==
  ASSUME NEW v, IsValue(v)
  PROVE  /\ TextLength(v) \in Nat
         /\ Declared(v, TextLength(v))
         /\ Bad(v) => FailsEarly(v)
         /\ LateRefused(v) => /\ Measures(Program(v, TRUE), TextLength(v))
                              /\ Refusing(Program(v, FALSE))
         /\ ~Bad(v) /\ ~LateRefused(v) => Agrees(v, TextLength(v))
<1>1. CASE Bad(v)
  <2>1. TextLength(v) = 0 /\ FailsEarly(v) /\ ~LateRefused(v)
    BY <1>1, BadFails DEF TextLength, Bad, LateRefused
  <2>2. Declared(v, 0)
    BY DEF Declared, MaxLength
  <2>3. 0 \in Nat
    OBVIOUS
  <2> QED BY <1>1, <2>1, <2>2, <2>3, Zenon
<1>2. CASE LateRefused(v)
  <2>1. TextLength(v) = 0 /\ Declared(v, 0) /\ ~Bad(v)
    BY <1>2 DEF TextLength, Declared, MaxLength, LateRefused, Bad
  <2>2. Measures(Program(v, TRUE), 0) /\ Refusing(Program(v, FALSE))
    BY <1>2, LateRefusedFails
  <2>3. 0 \in Nat
    OBVIOUS
  <2> QED BY <1>2, <2>1, <2>2, <2>3, Zenon
<1>3. CASE ~Bad(v) /\ ~LateRefused(v)
  <2>1. \E n \in Nat : Agrees(v, n)
    BY <1>3, ValueAgrees
  <2>2. TextLength(v) = CHOOSE n \in Nat : Agrees(v, n)
    BY <1>3 DEF TextLength
  <2>3. TextLength(v) \in Nat /\ Agrees(v, TextLength(v))
    BY <2>1, <2>2, Zenon
  <2> QED BY <1>3, <2>3 DEF Agrees
<1> QED BY <1>1, <1>2, <1>3

(* Storing characters, and a null, at the end of the text.                 *)
LEMMA TextShapes ==
  ASSUME NEW a \in Nat
  PROVE  /\ TextOf(a) = [j \in 0..Top |-> IF j < a THEN "char" ELSE "before"]
         /\ Ended(a) = [j \in 0..Top |-> IF j < a THEN "char"
                                         ELSE IF j = a THEN "null" ELSE "before"]
<1>1. TextOf(a) = [j \in 0..Top |-> IF j < a THEN "char" ELSE "before"]
  BY DEF TextOf, Put, Untouched
<1> QED BY <1>1 DEF Ended, NullAt, Put

(* The cells before the offset hold the text, those behind it nothing.     *)
LEMMA TextCells ==
  ASSUME NEW a \in Nat, NEW c \in {TextOf(a), Ended(a)}
  PROVE  /\ c = [j \in 0..Top |-> c[j]]
         /\ \A j \in 0..Top : (j < a => c[j] = "char") /\ (j > a => c[j] = "before")
<1>1. CASE c = TextOf(a)
  <2>1. c = [j \in 0..Top |-> IF j < a THEN "char" ELSE "before"]
    BY <1>1, TextShapes
  <2> QED BY <2>1
<1>2. CASE c = Ended(a)
  <2>1. c = [j \in 0..Top |-> IF j < a THEN "char" ELSE IF j = a THEN "null" ELSE "before"]
    BY <1>2, TextShapes
  <2> QED BY <2>1
<1> QED BY <1>1, <1>2

(* Characters stored at the end of the text extend it.                     *)
LEMMA TextStored ==
  ASSUME NEW a \in Nat, NEW n \in Nat, NEW c \in {TextOf(a), Ended(a)}, NEW b \in Nat, b = a + n
  PROVE  /\ Put(c, a, n, "char") \in {TextOf(b), Ended(b)}
         /\ n > 0 => Put(c, a, n, "char") = TextOf(b)
<1>1. ASSUME n > 0 PROVE Put(c, a, n, "char") = TextOf(b)
  <2>1. /\ TextOf(b) = [j \in 0..Top |-> IF j < b THEN "char" ELSE "before"]
        /\ Put(c, a, n, "char") = [j \in 0..Top |-> IF j \in a..(a + n - 1) THEN "char" ELSE c[j]]
    BY TextShapes DEF Put
  <2>2. \A j \in 0..Top : (j < a => c[j] = "char") /\ (j > a => c[j] = "before")
    BY TextCells
  <2>3. ASSUME NEW j \in 0..Top
        PROVE  (IF j \in a..(a + n - 1) THEN "char" ELSE c[j])
                 = (IF j < b THEN "char" ELSE "before")
    BY <1>1, <2>2
  <2> QED BY <2>1, <2>3
<1>2. ASSUME n = 0 PROVE Put(c, a, n, "char") = c /\ a = b
  <2>1. c = [j \in 0..Top |-> c[j]]
    BY TextCells
  <2>2. \A j \in 0..Top : j \notin a..(a + n - 1)
    BY <1>2
  <2>3. Put(c, a, n, "char") = [j \in 0..Top |-> c[j]]
    BY <2>2 DEF Put
  <2>4. a = b
    BY <1>2
  <2> QED BY <2>1, <2>3, <2>4
<1> QED BY <1>1, <1>2

(* A null stored at the end of the text ends it.                           *)
LEMMA NullStored ==
  ASSUME NEW a \in Nat, NEW c \in {TextOf(a), Ended(a)}
  PROVE  NullAt(c, a) = Ended(a)
<1>1. Ended(a) = [j \in 0..Top |-> IF j < a THEN "char" ELSE IF j = a THEN "null" ELSE "before"]
  BY TextShapes
<1>2. NullAt(c, a) = [j \in 0..Top |-> IF j \in a..(a + 1 - 1) THEN "null" ELSE c[j]]
  BY DEF NullAt, Put
<1>3. \A j \in 0..Top : (j < a => c[j] = "char") /\ (j > a => c[j] = "before")
  BY TextCells
<1>4. ASSUME NEW j \in 0..Top
      PROVE  (IF j \in a..(a + 1 - 1) THEN "null" ELSE c[j])
               = (IF j < a THEN "char" ELSE IF j = a THEN "null" ELSE "before")
  BY <1>3
<1> QED BY <1>1, <1>2, <1>4

(* What the pieces store at the end of the text.                           *)
LEMMA TextGrows ==
  ASSUME NEW a \in Nat, NEW n \in Nat, NEW c \in {TextOf(a), Ended(a)}
  PROVE  /\ Put(c, a, n, "char") \in {TextOf(a + n), Ended(a + n)}
         /\ n > 0 => Put(c, a, n, "char") = TextOf(a + n)
         /\ NullAt(c, a) = Ended(a)
         /\ NullAt(Put(c, a, n, "char"), a + n) = Ended(a + n)
         /\ Put(NullAt(Put(c, a, n, "char"), a + n), a + n, 0, "char")
              \in {TextOf(a + n), Ended(a + n)}
         /\ Put(NullAt(Put(c, a, n, "char"), a + n), a + n, 1, "char") = TextOf(a + n + 1)
<1> DEFINE b == a + n
<1>1. b \in Nat /\ b + 1 \in Nat /\ b + 0 = b /\ 0 \in Nat /\ 1 \in Nat /\ 1 > 0
  OBVIOUS
<1>2. /\ Put(c, a, n, "char") \in {TextOf(b), Ended(b)}
      /\ n > 0 => Put(c, a, n, "char") = TextOf(b)
  BY <1>1, TextStored
<1> HIDE DEF b
<1>3. NullAt(Put(c, a, n, "char"), b) = Ended(b) /\ NullAt(c, a) = Ended(a)
  BY <1>1, <1>2, NullStored
<1>4. Put(Ended(b), b, 0, "char") \in {TextOf(b), Ended(b)}
      /\ Put(Ended(b), b, 1, "char") = TextOf(b + 1)
  BY <1>1, TextStored
<1> QED BY <1>2, <1>3, <1>4 DEF b

(* Cells hold characters and nulls.                                        *)
LEMMA StoredType ==
  ASSUME NEW c \in [0..Top -> {"before", "char", "null"}], NEW a, NEW n,
         NEW mark \in {"char", "null"}
  PROVE  /\ Put(c, a, n, mark) \in [0..Top -> {"before", "char", "null"}]
         /\ NullAt(c, a) \in [0..Top -> {"before", "char", "null"}]
BY DEF Put, NullAt

(* A null in the first cell.                                               *)
LEMMA NullFirst ==
  ASSUME NEW c
  PROVE  NullAt(c, 0)[0] = "null"
BY BoundsAssumption DEF NullAt, Put

(* Either the first piece is the last, or there is more.                   *)
LEMMA Amounts ==
  ASSUME Types, pieces # <<>>
  PROVE  /\ Head(pieces) \in PieceSet /\ Tail(pieces) \in Lists
         /\ Amount \in Nat /\ Width(Head(pieces)) \in Nat
         /\ SubSeq(pieces, Amount + 2, Len(pieces)) \in Lists
<1>1. Head(pieces) \in PieceSet /\ Tail(pieces) \in Lists
  BY ListParts DEF Types
<1>2. Amount \in Nat /\ Width(Head(pieces)) \in Nat
  BY <1>1, WidthNat DEF Amount, PieceSet
<1>3. SubSeq(pieces, Amount + 2, Len(pieces)) \in Lists
  <2>1. pieces \in Seq(PieceSet) /\ Len(pieces) \in Nat
    BY LenProperties DEF Types, Lists
  <2>2. \A k \in (Amount + 2)..Len(pieces) : pieces[k] \in PieceSet
    BY <1>2, <2>1, ElementOfSeq
  <2>3. Amount + 2 \in Int /\ Len(pieces) \in Int
    BY <1>2, <2>1
  <2> QED BY <2>2, <2>3, SubSeqProperties DEF Lists
<1> QED BY <1>1, <1>2, <1>3

-----------------------------------------------------------------------------
(* The types of the variables.                                             *)

(* The writers are lists of pieces.                                        *)
LEMMA ProgramLists ==
  ASSUME NEW v, IsValue(v)
  PROVE  Program(v, TRUE) \in Lists /\ Program(v, FALSE) \in Lists
<1>1. CASE Bad(v)
  BY <1>1, TextLengthAgrees DEF FailsEarly, Doomed, Refusing
<1>2. CASE LateRefused(v)
  BY <1>2, TextLengthAgrees DEF Measures, Refusing
<1>3. CASE ~Bad(v) /\ ~LateRefused(v)
  BY <1>3, TextLengthAgrees DEF Agrees, Measures, Written
<1> QED BY <1>1, <1>2, <1>3

(* Every step keeps the types of the variables.                            *)
LEMMA TypesKept ==
  ASSUME Types, [Next]_vars
  PROVE  Types'
<1> DEFINE Cells == [0..Top -> {"before", "char", "null"}]
<1> USE DEF Types
<1>1. IsValue(value)
  BY ValuesAssumption
<1>2. /\ {"SUCCESS", "NO_SPACE", "BAD_VALUE"} = Statuses
      /\ <<>> \in Lists
  BY EmptySeq DEF Statuses, Lists
<1>3. CASE Measure
  BY <1>1, <1>3, ProgramLists DEF Measure
<1>4. CASE Write
  <2>1. size' \in Nat
    BY <1>4, BoundsAssumption DEF Write
  <2>2. cells' \in Cells
    BY <1>4, StoredType DEF Write
  <2> QED BY <1>1, <1>4, <2>1, <2>2, ProgramLists DEF Write
<1>5. CASE Return
  <2>1. measured' \in [status : Statuses, count : Nat] /\ i' \in Nat /\ status' \in Statuses
    BY <1>2, <1>5 DEF Return
  <2>2. pc' \in {"measured", "done"}
    BY <1>5 DEF Return
  <2> QED BY <1>5, <2>1, <2>2 DEF Return
<1>6. CASE pieces # <<>> /\ WritePiece
  <2>1. /\ Tail(pieces) \in Lists /\ Amount \in Nat
        /\ SubSeq(pieces, Amount + 2, Len(pieces)) \in Lists
    BY <1>6, Amounts
  <2>2. \A n \in Nat : i + n \in Nat
    OBVIOUS
  <2>3. \A c \in Cells : \A a, n : /\ Put(c, a, n, "char") \in Cells
                                   /\ NullAt(c, a) \in Cells
    BY StoredType
  <2>4. Amount + 0 \in Nat /\ Amount + 1 \in Nat /\ 0 \in Nat /\ 1 \in Nat /\ 2 \in Nat
    BY <2>1
  <2> HIDE DEF Cells
  <2>5. cells \in Cells
    BY DEF Cells
  <2> DEFINE Moved == /\ i' \in Nat /\ pieces' \in Lists /\ status' \in Statuses
                      /\ cells' \in Cells
  <2> SUFFICES Moved /\ UNCHANGED <<value, pc, size, measured>>
    BY DEF Cells
  <2>6. \A n \in Nat : Advance(n) => i' \in Nat /\ pieces' \in Lists
    BY <2>1, <2>2 DEF Advance
  <2>7. \A st \in Statuses, c \in Cells : EndFailed(st, c) => Moved
    BY <1>2, <2>3 DEF EndFailed
  <2>8. \A n \in Nat, tag \in {0, 1} : WriteNumberAt(n, tag) => Moved
    <3> SUFFICES ASSUME NEW n \in Nat, NEW tag \in {0, 1}, WriteNumberAt(n, tag)
                 PROVE  Moved
      OBVIOUS
    <3>1. n + tag \in Nat
      OBVIOUS
    <3>2. CASE ~HasBuffer
      BY <1>2, <2>5, <2>6, <3>1, <3>2 DEF WriteNumberAt
    <3>3. CASE HasBuffer /\ RoomFor(n)
      <4>1. Put(NullAt(Put(cells, i, n, "char"), i + n), i + n, tag, "char") \in Cells
        BY <2>3, <2>5
      <4>2. Advance(n + tag) /\ cells' \in Cells /\ status' = status
        BY <3>3, <4>1 DEF WriteNumberAt
      <4> QED BY <2>6, <3>1, <4>2
    <3>4. CASE HasBuffer /\ ~RoomFor(n)
      <4>1. /\ status' = "NO_SPACE" /\ pieces' = Tail(pieces) /\ i' = i
            /\ cells' = IF i < size THEN NullAt(cells, i) ELSE cells
        BY <3>4 DEF WriteNumberAt
      <4> QED BY <1>2, <2>1, <2>3, <2>5, <4>1
    <3> QED BY <3>2, <3>3, <3>4
  <2>9. CASE WriteChar
    BY <2>3, <2>4, <2>5, <2>6, <2>9 DEF WriteChar, Unchanged
  <2>10. CASE WriteString
    BY <2>1, <2>3, <2>5, <2>6, <2>10 DEF WriteString, Unchanged
  <2>11. CASE WriteTwo
    BY <2>3, <2>4, <2>5, <2>6, <2>11 DEF WriteTwo, Unchanged
  <2>12. CASE WriteDigits
    <3>1. status' \in Statuses /\ cells' \in Cells
      BY <1>2, <2>3, <2>5, <2>12 DEF WriteDigits
    <3>2. i' \in Nat /\ pieces' \in Lists
      BY <2>1, <2>6, <2>12 DEF WriteDigits
    <3> QED BY <2>12, <3>1, <3>2 DEF WriteDigits, Unchanged
  <2>13. CASE WriteNumber
    BY <2>1, <2>8, <2>13 DEF WriteNumber, Unchanged
  <2>14. CASE WriteField
    BY <2>1, <2>5, <2>8, <2>14 DEF WriteField, Unchanged
  <2>15. CASE AddLength
    BY <2>1, <2>5, <2>6, <2>15 DEF AddLength, Unchanged
  <2>16. CASE WriteRaw
    BY <2>1, <2>3, <2>5, <2>6, <2>16 DEF WriteRaw, Unchanged
  <2>17. CASE WriteNull
    BY <2>3, <2>4, <2>5, <2>6, <2>17 DEF WriteNull, Unchanged
  <2>18. CASE CheckRoom
    BY <1>2, <2>3, <2>4, <2>5, <2>6, <2>7, <2>18 DEF CheckRoom, Unchanged
  <2>19. CASE SkipAfterError
    BY <2>1, <2>5, <2>19 DEF SkipAfterError, Unchanged
  <2>20. CASE BadValue
    BY <1>2, <2>5, <2>7, <2>20 DEF BadValue, Unchanged
  <2>21. CASE EndWrite
    BY <1>2, <2>3, <2>4, <2>5, <2>6, <2>7, <2>21 DEF EndWrite, Unchanged
  <2> QED BY <1>6, <2>9, <2>10, <2>11, <2>12, <2>13, <2>14, <2>15, <2>16, <2>17, <2>18,
             <2>19, <2>20, <2>21 DEF WritePiece
<1>7. CASE UNCHANGED vars
  BY <1>7 DEF vars
<1>8. WritePiece => pieces # <<>>
  BY DEF WritePiece, WriteChar, WriteString, WriteTwo, WriteDigits, WriteNumber, WriteField,
         AddLength, WriteRaw, WriteNull, CheckRoom, SkipAfterError, BadValue, EndWrite, At
<1> QED BY <1>3, <1>4, <1>5, <1>6, <1>7, <1>8 DEF Next

-----------------------------------------------------------------------------
(* Measuring.                                                              *)

(* What every piece does to the variables that no piece changes.           *)
LEMMA PieceFrame ==
  ASSUME WritePiece
  PROVE  /\ Running /\ pieces # <<>>
         /\ value' = value /\ pc' = pc /\ size' = size /\ measured' = measured
BY DEF WritePiece, WriteChar, WriteString, WriteTwo, WriteDigits, WriteNumber, WriteField,
       AddLength, WriteRaw, WriteNull, CheckRoom, SkipAfterError, BadValue, EndWrite, At,
       Unchanged

(* Without a buffer a counted piece only goes on.                          *)
LEMMA CountedStep ==
  ASSUME Types, pc = "measure", status = "SUCCESS", WritePiece, Head(pieces).op \in Counted
  PROVE  /\ pieces' = Tail(pieces) /\ i' = i + Width(Head(pieces))
         /\ status' = "SUCCESS" /\ cells' = cells
<1> DEFINE p == Head(pieces)
<1>1. ~HasBuffer /\ pieces # <<>>
  BY PieceFrame DEF HasBuffer
<1>2. p \in PieceSet /\ Amount \in Nat /\ Amount = p.n /\ i \in Nat
  BY <1>1, Amounts DEF Amount, Types
<1>3. CASE WriteChar
  BY <1>1, <1>3 DEF WriteChar, Advance, At, Width
<1>4. CASE WriteString
  BY <1>1, <1>2, <1>4 DEF WriteString, Advance, At, Width
<1>5. CASE WriteTwo
  BY <1>1, <1>5 DEF WriteTwo, Advance, At, Width
<1>6. CASE WriteDigits
  BY <1>1, <1>2, <1>6 DEF WriteDigits, Advance, At, Width
<1>7. CASE WriteNumber
  BY <1>1, <1>2, <1>7 DEF WriteNumber, WriteNumberAt, Advance, At, Width
<1>8. CASE WriteField
  BY <1>1, <1>2, <1>8 DEF WriteField, WriteNumberAt, Advance, At, Width
<1>9. CASE AddLength
  BY <1>1, <1>2, <1>9 DEF AddLength, Advance, At, Width
<1>10. CASE SkipAfterError
  BY <1>1, <1>2, <1>10 DEF SkipAfterError, At, Width
<1>11. CASE EndWrite
  BY <1>1, <1>2, <1>11 DEF EndWrite, Advance, At, Width
<1>12. CASE WriteRaw \/ WriteNull \/ CheckRoom \/ BadValue
  BY <1>12 DEF WriteRaw, WriteNull, CheckRoom, BadValue, At, Counted
<1> QED BY <1>3, <1>4, <1>5, <1>6, <1>7, <1>8, <1>9, <1>10, <1>11, <1>12 DEF WritePiece

(* An error in the value ends the measuring.                               *)
LEMMA FailStep ==
  ASSUME Types, pc = "measure", WritePiece, Head(pieces).op = "fail"
  PROVE  pieces' = <<>> /\ i' = 0 /\ status' = "BAD_VALUE" /\ cells' = cells
<1>1. BadValue
  BY DEF WritePiece, WriteChar, WriteString, WriteTwo, WriteDigits, WriteNumber, WriteField,
         AddLength, WriteRaw, WriteNull, CheckRoom, SkipAfterError, EndWrite, At
<1> QED BY <1>1 DEF BadValue, EndFailed, HasBuffer

(* An error that is certain to come.                                       *)
LEMMA DoomedStep ==
  ASSUME NEW s, Doomed(s)
  PROVE  /\ s \in Lists /\ s # <<>>
         /\ Head(s).op = "fail" \/ (Head(s).op \in Counted /\ Doomed(Tail(s)))
<1>1. PICK c \in Lists, t \in Lists, w \in Nat :
        s = c \o (<<Fail>> \o t) /\ Spans(Counted, c, w) /\ s \in Lists
  BY DEF Doomed
<1> DEFINE f == <<Fail>> \o t
<1>2. f \in Lists /\ f # <<>> /\ Head(f) = Fail /\ Fail.op = "fail"
  BY PieceFacts, ListCons
<1> HIDE DEF f
<1>3. CASE c = <<>>
  <2>1. s = f
    BY <1>1, <1>2, <1>3, ListConcat DEF f
  <2> QED BY <1>1, <1>2, <2>1
<1>4. CASE c # <<>>
  <2>1. s # <<>> /\ Head(s) = Head(c) /\ Tail(s) = Tail(c) \o f /\ Tail(c) \in Lists
    BY <1>1, <1>2, <1>4, ListConcat, ListParts DEF f
  <2>2. /\ Head(c).op \in Counted /\ w - Width(Head(c)) \in Nat
        /\ Spans(Counted, Tail(c), w - Width(Head(c)))
    BY <1>1, <1>4, SpansStep
  <2>3. Tail(s) \in Lists
    BY <1>1, <2>1, ListParts
  <2>4. Doomed(Tail(s))
    BY <2>1, <2>2, <2>3, Zenon DEF Doomed, f
  <2> QED BY <1>1, <2>1, <2>2, <2>4
<1> QED BY <1>3, <1>4

(* Every piece adds to the measured length what it will write.             *)
LEMMA MeasuringStep ==
  ASSUME Types, pc = "measure", Measuring, WritePiece
  PROVE  Measuring'
<1>1. value' = value /\ size' = size /\ pieces # <<>>
  BY PieceFrame
<1>2. TextLength(value) \in Nat /\ TextLength(value) \in Int /\ i \in Nat
  <2>1. IsValue(value)
    BY ValuesAssumption DEF Types
  <2>2. TextLength(value) \in Nat
    BY <2>1, TextLengthAgrees
  <2> QED BY <2>2 DEF Types
<1>3. CASE ~Bad(value) /\ status = "SUCCESS" /\ Spans(Counted, pieces, TextLength(value) - i)
  <2> DEFINE p == Head(pieces)
             j == TextLength(value) - i
  <2>1. j \in Int /\ pieces \in Lists /\ Width(p) \in Nat
    BY <1>1, <1>2, Amounts DEF Types
  <2>2. p.op \in Counted /\ Spans(Counted, Tail(pieces), j - Width(p))
    BY <1>1, <1>3, <2>1, SpansStep
  <2>3. pieces' = Tail(pieces) /\ i' = i + Width(p) /\ status' = "SUCCESS" /\ cells' = cells
    BY <1>3, <2>2, CountedStep
  <2>4. j - Width(p) = TextLength(value) - i'
    BY <1>2, <2>1, <2>3
  <2> QED BY <1>1, <1>3, <2>2, <2>3, <2>4 DEF Measuring
<1>4. CASE Bad(value) /\ status = "SUCCESS" /\ Doomed(pieces)
  <2>1. CASE Head(pieces).op = "fail"
    BY <1>1, <1>4, <2>1, FailStep DEF Measuring
  <2>2. CASE Head(pieces).op \in Counted /\ Doomed(Tail(pieces))
    BY <1>1, <1>4, <2>2, CountedStep DEF Measuring
  <2> QED BY <1>4, <2>1, <2>2, DoomedStep
<1> QED BY <1>1, <1>3, <1>4 DEF Measuring

-----------------------------------------------------------------------------
(* Writing to a buffer that the text fits in.                              *)

(* What the pieces store at the end of the text, with room for it all.     *)
LEMMA FillingStep ==
  ASSUME Types, pc = "write", Enough, Filling, WritePiece
  PROVE  Filling'
<1> DEFINE p == Head(pieces)
           t == Tail(pieces)
           l == TextLength(value)
           j == l - i
           n == p.n
<1>1. /\ value' = value /\ size' = size /\ pieces # <<>> /\ HasBuffer
      /\ status = "SUCCESS" /\ cells \in {TextOf(i), Ended(i)}
  BY PieceFrame DEF HasBuffer, Filling
<1>2. l \in Nat /\ l < size /\ size \in Nat /\ i \in Nat /\ j \in Int
  <2>1. IsValue(value)
    BY ValuesAssumption DEF Types
  <2>2. l \in Nat
    BY <2>1, TextLengthAgrees
  <2> QED BY <2>2 DEF Types, Enough
<1>3. /\ p \in PieceSet /\ t \in Lists /\ n \in Nat /\ Amount = n
      /\ Width(p) \in Nat
  BY <1>1, Amounts DEF Amount
<1>4. Fits(p, t, j) /\ j - Width(p) \in Nat /\ Roomy(t, j - Width(p))
  BY <1>1, <1>2, RoomyStep DEF Types, Filling
<1>5. l' = l /\ i + Width(p) <= l
  BY <1>1, <1>2, <1>3, <1>4
<1>6. \A m \in Nat :
        /\ Put(cells, i, m, "char") \in {TextOf(i + m), Ended(i + m)}
        /\ NullAt(cells, i) = Ended(i)
        /\ NullAt(Put(cells, i, m, "char"), i + m) = Ended(i + m)
        /\ Put(NullAt(Put(cells, i, m, "char"), i + m), i + m, 0, "char")
             \in {TextOf(i + m), Ended(i + m)}
        /\ Put(NullAt(Put(cells, i, m, "char"), i + m), i + m, 1, "char") = TextOf(i + m + 1)
  BY <1>1, <1>2, TextGrows
<1> HIDE DEF p, t, n
(* Every piece goes on by its width, and the last leaves the null.         *)
<1> DEFINE Moves(w) ==
             /\ i' = i + w /\ pieces' = t /\ status' = "SUCCESS"
             /\ cells' \in {TextOf(i + w), Ended(i + w)}
             /\ t = <<>> => cells' = Ended(i + w)
<1>7. ASSUME Moves(Width(p)) PROVE Filling'
  <2>1. l - (i + Width(p)) = j - Width(p)
    BY <1>2, <1>3
  <2>2. Roomy(t, l - (i + Width(p)))
    BY <1>4, <2>1
  <2> QED BY <1>5, <1>7, <2>2 DEF Filling
<1>8. t = <<>> => p.op \in {"end", "null"}
  BY <1>4 DEF Fits
<1>9. CASE WriteChar
  <2>1. p.op = "char" /\ Width(p) = 1 /\ t # <<>> /\ size >= i + 1
    BY <1>2, <1>5, <1>8, <1>9 DEF WriteChar, At, Width, p
  <2> QED BY <1>1, <1>6, <1>7, <1>9, <2>1 DEF WriteChar, Advance, t
<1>10. CASE WriteString
  <2>1. p.op = "string" /\ Width(p) = n /\ t # <<>> /\ size >= i + n + 1
    BY <1>2, <1>3, <1>5, <1>8, <1>10 DEF WriteString, At, Width, p, n
  <2>2. NullAt(Put(cells, i, n, "char"), i + n) = Ended(i + n)
    BY <1>3, <1>6
  <2> QED BY <1>1, <1>3, <1>7, <1>10, <2>1, <2>2 DEF WriteString, Advance, t
<1>11. CASE WriteTwo
  <2>1. p.op = "two" /\ Width(p) = 2 /\ t # <<>> /\ size >= i + 1
    BY <1>2, <1>5, <1>8, <1>11 DEF WriteTwo, At, Width, p
  <2> QED BY <1>1, <1>6, <1>7, <1>11, <2>1 DEF WriteTwo, Advance, t
<1>12. CASE WriteDigits
  <2>1. p.op = "digits" /\ Width(p) = n /\ t # <<>> /\ ~(i + n >= size)
    BY <1>2, <1>3, <1>5, <1>8, <1>12 DEF WriteDigits, At, Width, p, n
  <2> QED BY <1>1, <1>3, <1>6, <1>7, <1>12, <2>1 DEF WriteDigits, Advance, t
<1>13. ASSUME NEW tag \in {0, 1}, WriteNumberAt(n, tag), Width(p) = n + tag, t # <<>>
       PROVE  Moves(Width(p))
  <2>1. RoomFor(n)
    BY <1>2, <1>3, <1>5, <1>13 DEF RoomFor
  <2>2. /\ i' = i + Width(p) /\ pieces' = t /\ status' = "SUCCESS"
        /\ cells' = Put(NullAt(Put(cells, i, n, "char"), i + n), i + n, tag, "char")
    BY <1>1, <1>13, <2>1 DEF WriteNumberAt, Advance, t
  <2>3. cells' \in {TextOf(i + n + tag), Ended(i + n + tag)}
    <3>1. CASE tag = 0
      BY <1>2, <1>3, <1>6, <2>2, <3>1
    <3>2. CASE tag = 1
      BY <1>3, <1>6, <2>2, <3>2
    <3> QED BY <3>1, <3>2
  <2>4. i + n + tag = i + Width(p)
    BY <1>2, <1>3, <1>13
  <2> QED BY <1>13, <2>2, <2>3, <2>4
<1>14. CASE WriteNumber
  <2>1. p.op = "number" /\ Width(p) = n + 0 /\ t # <<>>
    BY <1>3, <1>8, <1>14 DEF WriteNumber, At, Width, p, n
  <2> QED BY <1>3, <1>7, <1>13, <1>14, <2>1 DEF WriteNumber
<1>15. CASE WriteField
  <2>1. p.op = "field" /\ Width(p) = n + 1 /\ t # <<>>
    BY <1>3, <1>8, <1>15 DEF WriteField, At, Width, p, n
  <2> QED BY <1>1, <1>3, <1>7, <1>13, <1>15, <2>1 DEF WriteField
<1>16. CASE AddLength
  BY <1>4, <1>16 DEF AddLength, At, Fits, p
<1>17. CASE WriteRaw
  <2>1. p.op = "raw" /\ Width(p) = n /\ t # <<>>
    BY <1>3, <1>8, <1>17 DEF WriteRaw, At, Width, p, n
  <2> QED BY <1>1, <1>3, <1>6, <1>7, <1>17, <2>1 DEF WriteRaw, Advance, t
<1>18. CASE WriteNull
  <2>1. Width(p) = 0 /\ i + 0 = i
    BY <1>2, <1>18 DEF WriteNull, At, Width, p
  <2>2. cells' = Ended(i)
    BY <1>3, <1>6, <1>18 DEF WriteNull
  <2> QED BY <1>1, <1>7, <1>18, <2>1, <2>2 DEF WriteNull, Advance, t
<1>19. CASE CheckRoom
  <2>1. p.op \in Checks /\ Width(p) = 0 /\ t # <<>> /\ i + 0 = i
    BY <1>2, <1>8, <1>19 DEF CheckRoom, At, Width, Checks, p
  <2>2. n <= j + 1
    BY <1>4, <2>1 DEF Fits, n, p
  <2>3. ~Lacks
    BY <1>2, <1>3, <2>2 DEF Lacks
  <2> QED BY <1>1, <1>7, <1>19, <2>1, <2>3 DEF CheckRoom, Advance, t
<1>20. CASE SkipAfterError
  <2>1. Width(p) = 0 /\ t # <<>> /\ i + 0 = i
    BY <1>2, <1>8, <1>20 DEF SkipAfterError, At, Width, p
  <2> QED BY <1>1, <1>7, <1>20, <2>1 DEF SkipAfterError, t
<1>21. CASE BadValue
  BY <1>4, <1>21 DEF BadValue, At, Fits, p
<1>22. CASE EndWrite
  <2>1. Width(p) = 0 /\ i + 0 = i /\ ~(i >= size)
    BY <1>2, <1>3, <1>5, <1>22 DEF EndWrite, At, Width, p
  <2>2. cells' = Ended(i) /\ Advance(0) /\ status' = "SUCCESS"
    BY <1>1, <1>3, <1>6, <1>22, <2>1 DEF EndWrite
  <2> QED BY <1>7, <2>1, <2>2 DEF Advance, t
<1> QED BY <1>9, <1>10, <1>11, <1>12, <1>14, <1>15, <1>16, <1>17, <1>18, <1>19, <1>20, <1>21,
           <1>22 DEF WritePiece

-----------------------------------------------------------------------------
(* Writing when the text does not fit, or is refused.                      *)

(* end_write with an error leaves an empty string.                         *)
LEMMA EmptiedFails ==
  ASSUME pc = "write", UNCHANGED size, NEW st \in {"NO_SPACE", "BAD_VALUE"}, NEW c,
         EndFailed(st, c)
  PROVE  Failing'
<1>1. status' # "SUCCESS" /\ pieces' = <<>> /\ i' = 0
  BY DEF EndFailed
<1>2. size' > 0 => cells'[0] = "null"
  BY NullFirst DEF EndFailed, HasBuffer
<1> QED BY <1>1, <1>2 DEF Failing, Empty

(* An error that is certain to come.                                       *)
LEMMA ComingStep ==
  ASSUME Types, pc = "write", status = "SUCCESS", WritePiece,
         NEW j \in Int, Short(pieces, j), i + j >= size
  PROVE  Failing'
<1> DEFINE p == Head(pieces)
           t == Tail(pieces)
           n == p.n
<1>1. size' = size /\ pieces # <<>> /\ HasBuffer /\ size \in Nat /\ i \in Nat
  BY PieceFrame DEF HasBuffer, Types
<1>2. p \in PieceSet /\ t \in Lists /\ n \in Nat /\ Amount = n /\ Width(p) \in Nat
  BY <1>1, Amounts DEF Amount
<1>3. Recovers(p, t, j) /\ (Refuses(p, j) \/ Short(t, j - Width(p)))
  BY ShortStep DEF Types
<1> HIDE DEF p, t, n
<1>4. ASSUME i' = i + Width(p), pieces' = t, status' = "SUCCESS", Short(t, j - Width(p))
      PROVE  Failing'
  <2>1. j - Width(p) \in Int /\ i' + (j - Width(p)) >= size'
    BY <1>1, <1>2, <1>4
  <2> QED BY <1>4, <2>1 DEF Failing
<1>5. ASSUME status' = "NO_SPACE", pieces' = t, t \in Escapes
      PROVE  Failing'
  BY <1>5 DEF Failing
<1>6. p.op \notin {"fail", "end"} \cup Checks => Short(t, j - Width(p))
  BY <1>3 DEF Refuses
<1>7. CASE WriteChar
  <2>1. Width(p) = 1 /\ Short(t, j - Width(p))
    BY <1>6, <1>7 DEF WriteChar, At, Width, Checks, p
  <2> QED BY <1>4, <1>7, <2>1 DEF WriteChar, Advance, t
<1>8. CASE WriteString
  <2>1. Width(p) = n /\ Short(t, j - Width(p))
    BY <1>6, <1>8 DEF WriteString, At, Width, Checks, p, n
  <2> QED BY <1>2, <1>4, <1>8, <2>1 DEF WriteString, Advance, t
<1>9. CASE WriteTwo
  <2>1. Width(p) = 2 /\ Short(t, j - Width(p))
    BY <1>6, <1>9 DEF WriteTwo, At, Width, Checks, p
  <2> QED BY <1>4, <1>9, <2>1 DEF WriteTwo, Advance, t
<1>10. CASE WriteDigits
  <2>1. p.op = "digits" /\ Width(p) = n /\ Short(t, j - Width(p))
    BY <1>6, <1>10 DEF WriteDigits, At, Width, Checks, p, n
  <2>2. t \in Escapes
    BY <1>3, <2>1 DEF Recovers
  <2>3. CASE i + Amount >= size
    BY <1>1, <1>5, <1>10, <2>2, <2>3 DEF WriteDigits, t
  <2>4. CASE ~(i + Amount >= size)
    BY <1>2, <1>4, <1>10, <2>1, <2>4 DEF WriteDigits, Advance, t
  <2> QED BY <2>3, <2>4
<1>11. CASE WriteNumber
  <2>1. p.op = "number" /\ Width(p) = n /\ n + 0 = n /\ Short(t, j - Width(p))
    BY <1>2, <1>6, <1>11 DEF WriteNumber, At, Width, Checks, p, n
  <2>2. t \in Escapes
    BY <1>3, <2>1 DEF Recovers
  <2>3. WriteNumberAt(n, 0)
    BY <1>2, <1>11 DEF WriteNumber
  <2>4. CASE RoomFor(n)
    BY <1>1, <1>4, <2>1, <2>3, <2>4 DEF WriteNumberAt, Advance, t
  <2>5. CASE ~RoomFor(n)
    BY <1>1, <1>5, <2>2, <2>3, <2>5 DEF WriteNumberAt, t
  <2> QED BY <2>4, <2>5
<1>12. CASE WriteField
  <2>1. p.op = "field" /\ Width(p) = n + 1 /\ Short(t, j - Width(p))
    BY <1>6, <1>12 DEF WriteField, At, Width, Checks, p, n
  <2>2. t \in Escapes \/ (n <= 2 /\ Late(t, j - Width(p)))
    BY <1>3, <2>1 DEF Recovers, n
  <2>3. WriteNumberAt(n, 1)
    BY <1>2, <1>12 DEF WriteField
  <2>4. CASE RoomFor(n)
    BY <1>1, <1>4, <2>1, <2>3, <2>4 DEF WriteNumberAt, Advance, t
  <2>5. CASE ~RoomFor(n)
    <3>1. status' = "NO_SPACE" /\ pieces' = t /\ i' = i
      BY <1>1, <2>3, <2>5 DEF WriteNumberAt, t
    <3>2. CASE t \in Escapes
      BY <1>5, <3>1, <3>2
    <3>3. CASE n <= 2 /\ Late(t, j - Width(p))
      <4>1. i' + 2 >= size' /\ j - Width(p) \in Int
        BY <1>1, <1>2, <2>5, <3>1, <3>3 DEF RoomFor
      <4> QED BY <2>1, <3>1, <3>3, <4>1 DEF Failing
    <3> QED BY <2>2, <3>2, <3>3
  <2> QED BY <2>4, <2>5
<1>13. CASE AddLength
  BY <1>3, <1>13 DEF AddLength, At, Recovers, p
<1>14. CASE WriteRaw
  <2>1. Width(p) = n /\ Short(t, j - Width(p))
    BY <1>6, <1>14 DEF WriteRaw, At, Width, Checks, p, n
  <2> QED BY <1>2, <1>4, <1>14, <2>1 DEF WriteRaw, Advance, t
<1>15. CASE WriteNull
  <2>1. Width(p) = 0 /\ Short(t, j - Width(p))
    BY <1>6, <1>15 DEF WriteNull, At, Width, Checks, p
  <2> QED BY <1>4, <1>15, <2>1 DEF WriteNull, Advance, t
<1>16. CASE CheckRoom
  <2>1. p.op \in {"need", "needMarked"} /\ Width(p) = 0 /\ p.op \in Checks
    BY <1>3, <1>16 DEF CheckRoom, At, Width, Checks, Recovers, p
  <2>2. CASE Lacks
    <3>1. CASE At("need")
      BY <1>1, <1>16, <2>2, <3>1, EmptiedFails DEF CheckRoom, Unchanged
    <3>2. CASE At("needMarked")
      <4>1. ~At("need")
        BY <3>2 DEF At
      <4>2. status' = "NO_SPACE" /\ i' = 0 /\ pieces' = <<>> /\ cells' = NullAt(cells, 0)
        BY <1>16, <2>2, <3>2, <4>1 DEF CheckRoom
      <4> QED BY <4>2, NullFirst DEF Failing, Empty
    <3>3. At("need") \/ At("needMarked")
      BY <1>16, <2>1 DEF CheckRoom, At, p
    <3> QED BY <3>1, <3>2, <3>3
  <2>3. CASE ~Lacks
    <3>1. ~(j < n)
      BY <1>1, <1>2, <2>3 DEF Lacks
    <3>2. Short(t, j - Width(p))
      BY <1>3, <2>1, <3>1 DEF Refuses, n
    <3> QED BY <1>4, <1>16, <2>1, <2>3, <3>2 DEF CheckRoom, Advance, t
  <2> QED BY <2>2, <2>3
<1>17. CASE SkipAfterError
  <2>1. Width(p) = 0 /\ Short(t, j - Width(p)) /\ i + 0 = i
    BY <1>1, <1>6, <1>17 DEF SkipAfterError, At, Width, Checks, p
  <2> QED BY <1>4, <1>17, <2>1 DEF SkipAfterError, t
<1>18. CASE BadValue
  BY <1>1, <1>18, EmptiedFails DEF BadValue, Unchanged
<1>19. CASE EndWrite
  <2>1. p.op = "end" /\ Width(p) = 0
    BY <1>19 DEF EndWrite, At, Width, p
  <2>2. CASE i >= size
    BY <1>1, <1>19, <2>2, EmptiedFails DEF EndWrite, Unchanged
  <2>3. CASE ~(i >= size)
    <3>1. ~(j <= 0)
      BY <1>1, <2>3
    <3>2. Short(t, j - Width(p))
      BY <1>3, <2>1, <3>1 DEF Refuses, Checks
    <3> QED BY <1>4, <1>19, <2>1, <2>3, <3>2 DEF EndWrite, Advance, t
  <2> QED BY <2>2, <2>3
<1> QED BY <1>7, <1>8, <1>9, <1>10, <1>11, <1>12, <1>13, <1>14, <1>15, <1>16, <1>17, <1>18,
           <1>19 DEF WritePiece

(* A check that fails at once.                                             *)
LEMMA BareStep ==
  ASSUME Types, pc = "write", status = "SUCCESS", WritePiece,
         pieces # <<>>, Head(pieces).op = "needBare",
         i = 0, size < Head(pieces).n, Empty
  PROVE  Failing'
<1>1. CheckRoom /\ At("needBare") /\ ~At("need") /\ ~At("needMarked")
  BY DEF WritePiece, WriteChar, WriteString, WriteTwo, WriteDigits, WriteNumber, WriteField,
         AddLength, WriteRaw, WriteNull, CheckRoom, SkipAfterError, BadValue, EndWrite, At
<1>2. Lacks
  BY Amounts DEF Lacks, Amount, Types
<1>3. status' = "NO_SPACE" /\ i' = 0 /\ pieces' = <<>> /\ cells' = cells /\ size' = size
  BY <1>1, <1>2 DEF CheckRoom, Unchanged
<1> QED BY <1>3 DEF Failing, Empty

(* The way to end_write after an error.                                    *)
LEMMA EscapingStep ==
  ASSUME Types, pc = "write", status # "SUCCESS", WritePiece, pieces \in Escapes
  PROVE  Failing'
<1> DEFINE p == Head(pieces)
<1>1. /\ p.op \in Plain \cup {"field", "fail", "ifOk"}
      /\ \/ p.op \in {"end", "fail"}
         \/ p.op = "ifOk" /\ SubSeq(pieces, p.n + 2, Len(pieces)) \in Escapes
         \/ p.op # "ifOk" /\ Tail(pieces) \in Escapes
  BY EscapeStep DEF Types
<1>2. UNCHANGED size /\ status \in {"NO_SPACE", "BAD_VALUE"}
  BY PieceFrame DEF Types, Statuses
<1>3. CASE WriteChar \/ WriteString \/ WriteTwo
  <2>1. p.op \in {"char", "string", "two"}
    BY <1>3 DEF WriteChar, WriteString, WriteTwo, At
  <2>2. status' = status /\ pieces' = Tail(pieces)
    BY <1>3 DEF WriteChar, WriteString, WriteTwo, Advance
  <2> QED BY <1>1, <2>1, <2>2 DEF Failing
<1>4. CASE WriteField
  <2>1. p.op = "field" /\ status' = status /\ pieces' = Tail(pieces)
    BY <1>4 DEF WriteField, At
  <2> QED BY <1>1, <2>1 DEF Failing
<1>5. CASE SkipAfterError
  <2>1. /\ p.op = "ifOk" /\ status' = status
        /\ pieces' = SubSeq(pieces, p.n + 2, Len(pieces))
    BY <1>5 DEF SkipAfterError, At, Amount
  <2> QED BY <1>1, <2>1 DEF Failing
<1>6. CASE BadValue
  BY <1>2, <1>6, EmptiedFails DEF BadValue
<1>7. CASE EndWrite
  BY <1>2, <1>7, EmptiedFails DEF EndWrite
<1>8. CASE \/ WriteDigits \/ WriteNumber \/ AddLength \/ WriteRaw \/ WriteNull \/ CheckRoom
  BY <1>1, <1>8 DEF WriteDigits, WriteNumber, AddLength, WriteRaw, WriteNull, CheckRoom, At, Plain
<1> QED BY <1>3, <1>4, <1>5, <1>6, <1>7, <1>8 DEF WritePiece

(* Digits that forget an error, with too little room for more.             *)
LEMMA HiddenStep ==
  ASSUME Types, pc = "write", status # "SUCCESS", WritePiece, i + 2 >= size,
         NEW j \in Int, Late(pieces, j), Short(pieces, j)
  PROVE  Failing'
<1> DEFINE p == Head(pieces)
           t == Tail(pieces)
<1>1. /\ pieces # <<>> /\ size' = size /\ HasBuffer /\ size \in Nat /\ i \in Nat
      /\ p \in PieceSet /\ Amount = p.n /\ Amount \in Nat /\ Width(p) \in Nat
  BY PieceFrame, Amounts DEF HasBuffer, Types, Amount
<1>2. \/ p.op = "field" /\ Late(t, j - Width(p))
      \/ p.op = "digits" /\ 1 <= p.n /\ p.n < j
  BY LateStep DEF Types
<1>3. Recovers(p, t, j) /\ (Refuses(p, j) \/ Short(t, j - Width(p)))
  BY ShortStep DEF Types
<1> HIDE DEF p, t
<1>4. CASE p.op = "field"
  <2>1. Late(t, j - Width(p)) /\ Short(t, j - Width(p))
    BY <1>2, <1>3, <1>4 DEF Refuses, Checks
  <2>2. WriteField
    BY <1>4 DEF WritePiece, WriteChar, WriteString, WriteTwo, WriteDigits, WriteNumber,
       AddLength, WriteRaw, WriteNull, CheckRoom, SkipAfterError, BadValue, EndWrite, At, p
  <2>3. pieces' = t /\ i' = i /\ status' = status
    BY <2>2 DEF WriteField, t
  <2>4. j - Width(p) \in Int
    BY <1>1
  <2> QED BY <1>1, <2>1, <2>3, <2>4 DEF Failing
<1>5. CASE p.op = "digits"
  <2>1. /\ t \in Escapes /\ Short(t, j - Width(p)) /\ Width(p) = Amount
        /\ 1 <= Amount /\ Amount < j
    BY <1>1, <1>2, <1>3, <1>5 DEF Refuses, Recovers, Checks, Width
  <2>2. WriteDigits
    BY <1>5 DEF WritePiece, WriteChar, WriteString, WriteTwo, WriteNumber, WriteField,
       AddLength, WriteRaw, WriteNull, CheckRoom, SkipAfterError, BadValue, EndWrite, At, p
  <2>3. CASE i + Amount >= size
    BY <1>1, <2>1, <2>2, <2>3 DEF WriteDigits, Failing, t
  <2>4. CASE ~(i + Amount >= size)
    <3>1. status' = "SUCCESS" /\ pieces' = t /\ i' = i + Amount
      BY <2>2, <2>4 DEF WriteDigits, Advance, t
    <3>2. j - Width(p) \in Int /\ i' + (j - Width(p)) >= size'
      BY <1>1, <2>1, <3>1
    <3> QED BY <2>1, <3>1, <3>2 DEF Failing
  <2> QED BY <2>3, <2>4
<1> QED BY <1>2, <1>4, <1>5

(* Every piece keeps the error that is certain, or was reported, in sight. *)
LEMMA FailingStep ==
  ASSUME Types, pc = "write", Failing, WritePiece
  PROVE  Failing'
<1>1. pieces # <<>>
  BY PieceFrame
<1>2. CASE status = "SUCCESS" /\ \E j \in Int : Short(pieces, j) /\ i + j >= size
  BY <1>2, ComingStep
<1>3. CASE /\ status = "SUCCESS"
           /\ pieces # <<>> /\ Head(pieces).op = "needBare"
           /\ i = 0 /\ size < Head(pieces).n /\ Empty
  BY <1>3, BareStep
<1>4. CASE status # "SUCCESS" /\ pieces \in Escapes
  BY <1>4, EscapingStep
<1>5. CASE /\ status # "SUCCESS" /\ i + 2 >= size
           /\ \E j \in Int : Late(pieces, j) /\ Short(pieces, j)
  BY <1>5, HiddenStep
<1> QED BY <1>1, <1>2, <1>3, <1>4, <1>5 DEF Failing

-----------------------------------------------------------------------------
(***************************************************************************)
(* The inductive invariant.                                                *)
(***************************************************************************)

(* The invariant holds initially.                                          *)
LEMMA InitIInv == Init => IInv
<1> SUFFICES ASSUME Init PROVE IInv
  OBVIOUS
<1>1. <<>> \in Lists
  BY EmptySeq DEF Lists
<1>2. Untouched \in [0..Top -> {"before", "char", "null"}]
  BY DEF Untouched
<1>3. Types
  BY <1>1, <1>2 DEF Init, Types, Statuses
<1> QED BY <1>3 DEF Init, IInv, Fresh

(* The measuring call starts with the whole text to be measured.           *)
LEMMA MeasureIInv ==
  ASSUME IInv, Measure
  PROVE  IInv'
<1>1. /\ value' = value /\ pc' = "measure" /\ size' = 0 /\ i' = 0 /\ status' = "SUCCESS"
      /\ cells' = Untouched /\ Untouched' = Untouched
      /\ pieces' = Program(value, TRUE) /\ IsValue(value)
  BY ValuesAssumption DEF IInv, Fresh, Measure, Types, Untouched
<1>2. Types'
  BY TypesKept DEF IInv, Next
<1>3. TextLength(value) \in Nat /\ TextLength(value) - 0 = TextLength(value)
  <2>1. TextLength(value) \in Nat
    BY <1>1, TextLengthAgrees, Zenon
  <2> QED BY <2>1
<1>4. Measuring'
  <2>1. CASE Bad(value)
    <3>1. Doomed(pieces')
      BY <1>1, <2>1, TextLengthAgrees DEF FailsEarly
    <3> QED BY <1>1, <2>1, <3>1 DEF Measuring
  <2>2. CASE ~Bad(value)
    <3>1. Spans(Counted, pieces', TextLength(value))
      BY <1>1, <2>2, TextLengthAgrees DEF Agrees, Measures
    <3> QED BY <1>1, <1>3, <2>2, <3>1 DEF Measuring
  <2> QED BY <2>1, <2>2
<1> QED BY <1>1, <1>2, <1>4 DEF IInv

(* Writing starts with the string cleared.                                 *)
LEMMA WriteIInv ==
  ASSUME IInv, Write
  PROVE  IInv'
<1>1. /\ value' = value /\ pc' = "write" /\ i' = 0 /\ status' = "SUCCESS"
      /\ measured' = measured /\ pieces' = Program(value, FALSE)
      /\ cells' = IF size' > 0 THEN NullAt(Untouched, 0) ELSE Untouched
      /\ IsValue(value) /\ Measured
  BY ValuesAssumption DEF IInv, Write, Types
<1>2. Types' /\ size' \in Nat
  <2>1. Types'
    BY TypesKept DEF IInv, Next
  <2> QED BY <2>1 DEF Types
<1> DEFINE l == TextLength(value)
<1>3. l \in Nat /\ l \in Int /\ l - 0 = l /\ 0 \in Nat
  <2>1. l \in Nat
    BY <1>1, TextLengthAgrees, Zenon
  <2> HIDE DEF l
  <2> QED BY <2>1
<1>4. Empty'
  BY <1>1, NullFirst DEF Empty
<1>5. ASSUME Enough' PROVE Filling'
  <2>1. Roomy(pieces', l - 0) /\ size' > 0
    <3>1. Roomy(pieces', l)
      BY <1>1, <1>5, TextLengthAgrees, Zenon DEF Enough, Agrees, Written
    <3>2. l < size' /\ size' \in Nat
      BY <1>1, <1>2, <1>5 DEF Enough
    <3> HIDE DEF l
    <3> QED BY <1>3, <3>1, <3>2
  <2>2. Untouched = TextOf(0)
    BY DEF TextOf, Put, Untouched
  <2>3. cells' = Ended(0)
    BY <1>1, <2>1, <2>2 DEF Ended
  <2> QED BY <1>1, <2>1, <2>3 DEF Filling
<1>6. ASSUME ~Enough' PROVE Failing'
  <2>1. CASE Refusing(pieces')
    <3>1. size' \in Int /\ 0 + size' >= size'
      <4>1. \A k \in Nat : k \in Int /\ 0 + k >= k
        OBVIOUS
      <4> QED BY <1>2, <4>1, Zenon
    <3>2. Short(pieces', size')
      BY <2>1, <3>1 DEF Refusing
    <3> QED BY <1>1, <3>1, <3>2 DEF Failing
  <2>2. CASE ~Bad(value) /\ ~LateRefused(value)
    <3>1. size' <= l /\ 0 + l >= size'
      BY <1>1, <1>2, <1>3, <1>6, <2>2 DEF Enough
    <3>2. Short(pieces', l) \/ Bare(pieces', l)
      BY <1>1, <2>2, TextLengthAgrees DEF Agrees, Written
    <3>3. CASE Short(pieces', l)
      BY <1>1, <1>3, <3>1, <3>3 DEF Failing
    <3>4. CASE Bare(pieces', l)
      <4>1. size' < Head(pieces').n /\ pieces' # <<>> /\ Head(pieces').op = "needBare"
        BY <1>2, <1>3, <3>1, <3>4 DEF Bare
      <4> QED BY <1>1, <1>4, <4>1 DEF Failing
    <3> QED BY <3>2, <3>3, <3>4
  <2>3. Bad(value) \/ LateRefused(value) => Refusing(pieces')
    BY <1>1, TextLengthAgrees DEF FailsEarly
  <2> QED BY <2>1, <2>2, <2>3
<1>7. Writing' /\ Measured'
  BY <1>1, <1>5, <1>6 DEF Writing, Measured
<1> QED BY <1>1, <1>2, <1>7 DEF IInv

(* Every piece keeps the invariant.                                        *)
LEMMA PieceIInv ==
  ASSUME IInv, WritePiece
  PROVE  IInv'
<1>1. /\ value' = value /\ pc' = pc /\ size' = size /\ measured' = measured
      /\ pc \in {"measure", "write"}
  BY PieceFrame DEF Running
<1>2. Types' /\ Types
  BY TypesKept DEF IInv, Next
<1>3. CASE pc = "measure"
  <2>1. Measuring'
    BY <1>2, <1>3, MeasuringStep DEF IInv
  <2> QED BY <1>1, <1>2, <1>3, <2>1 DEF IInv
<1>4. CASE pc = "write"
  <2>1. Measured' /\ Writing
    BY <1>1, <1>4 DEF IInv, Measured
  <2>2. Enough' <=> Enough
    BY <1>1 DEF Enough
  <2>3. Writing'
    BY <1>2, <1>4, <2>1, <2>2, FillingStep, FailingStep DEF Writing
  <2> QED BY <1>1, <1>2, <1>4, <2>1, <2>3 DEF IInv
<1> QED BY <1>1, <1>3, <1>4

(* Returning keeps the invariant: nothing is left to be written.           *)
LEMMA ReturnIInv ==
  ASSUME IInv, Return
  PROVE  IInv'
<1>1. /\ value' = value /\ size' = size /\ cells' = cells /\ pieces' = pieces /\ pieces = <<>>
      /\ pc \in {"measure", "write"}
  BY DEF Return, Running
<1>2. Types' /\ Types
  BY TypesKept DEF IInv, Next
<1>3. CASE pc = "measure"
  <2>1. /\ pc' = "measured" /\ i' = 0 /\ status' = "SUCCESS"
        /\ measured' = [status |-> status, count |-> i]
        /\ measured'.status = status /\ measured'.count = i
    BY <1>3 DEF Return, HasBuffer
  <2>2. Measuring /\ cells = Untouched /\ Untouched' = Untouched
    BY <1>3 DEF IInv, Measuring, Untouched
  <2>3. /\ status = "SUCCESS" <=> ~Bad(value)
        /\ i = TextLength(value)
    <3>1. CASE Bad(value) /\ status = "SUCCESS" /\ Doomed(pieces)
      BY <1>1, <3>1, DoomedStep
    <3>2. CASE Bad(value) /\ status = "BAD_VALUE" /\ pieces = <<>> /\ i = 0
      BY <3>2 DEF TextLength
    <3>3. CASE ~Bad(value) /\ status = "SUCCESS" /\ Spans(Counted, pieces, TextLength(value) - i)
      <4>1. TextLength(value) \in Nat /\ i \in Nat /\ pieces \in Lists
        <5>1. IsValue(value)
          BY <1>2, ValuesAssumption DEF Types
        <5>2. TextLength(value) \in Nat
          BY <5>1, TextLengthAgrees
        <5> QED BY <1>2, <5>2 DEF Types
      <4>2. TextLength(value) - i = 0
        BY <1>1, <3>3, <4>1, SpansStep
      <4> QED BY <3>3, <4>1, <4>2
    <3> QED BY <2>2, <3>1, <3>2, <3>3 DEF Measuring
  <2>4. Measured'
    BY <1>1, <2>1, <2>3 DEF Measured
  <2> QED BY <1>1, <1>2, <2>1, <2>2, <2>4 DEF IInv
<1>4. CASE pc = "write"
  <2>1. pc' = "done" /\ i' = i /\ status' = status /\ measured' = measured
    BY <1>4 DEF Return, HasBuffer
  <2>2. Writing /\ Measured
    BY <1>4 DEF IInv
  <2>3. Writing'
    BY <1>1, <2>1, <2>2 DEF Writing, Enough, Filling, Failing, Empty, TextOf, Ended, NullAt, Put,
                            Untouched
  <2> QED BY <1>1, <1>2, <2>1, <2>2, <2>3 DEF IInv, Measured
<1> QED BY <1>1, <1>3, <1>4

(* The invariant holds in all states that are reached.                     *)
THEOREM Invariance == Spec => []IInv
<1>1. Init => IInv
  BY InitIInv
<1>2. IInv /\ [Next]_vars => IInv'
  <2> SUFFICES ASSUME IInv, [Next]_vars PROVE IInv'
    OBVIOUS
  <2>1. CASE Measure
    BY <2>1, MeasureIInv
  <2>2. CASE Write
    BY <2>2, WriteIInv
  <2>3. CASE WritePiece
    BY <2>3, PieceIInv
  <2>4. CASE Return
    BY <2>4, ReturnIInv
  <2>5. CASE UNCHANGED vars
    BY <2>5 DEF vars, IInv, Types, Fresh, Measuring, Measured, Writing, Enough, Filling, Failing,
                Empty, TextOf, Ended, NullAt, Put, Untouched
  <2> QED BY <2>1, <2>2, <2>3, <2>4, <2>5 DEF Next
<1> QED BY <1>1, <1>2, PTL DEF Spec

(* A buffer one larger than the length that was measured always suffices.  *)
THEOREM MeasuredSuffices == Spec => []MeasuredLengthSuffices
<1>1. IInv => MeasuredLengthSuffices
  <2> SUFFICES ASSUME IInv, pc = "done", measured.status = "SUCCESS", size > measured.count,
                      ~Refused
               PROVE  /\ status = "SUCCESS"
                      /\ i = measured.count
                      /\ cells = NullAt(Put(Untouched, 0, i, "char"), i)
    BY DEF MeasuredLengthSuffices
  <2>1. Measured /\ Writing /\ pieces = <<>> /\ Types
    BY DEF IInv
  <2>2. TextLength(value) \in Nat /\ i \in Nat /\ size \in Nat /\ pieces \in Lists
    <3>1. IsValue(value)
      BY <2>1, ValuesAssumption DEF Types
    <3>2. TextLength(value) \in Nat
      BY <3>1, TextLengthAgrees
    <3> QED BY <2>1, <3>2 DEF Types
  <2>3. ~Bad(value) /\ measured.count = TextLength(value)
    BY <2>1 DEF Measured
  <2>4. Enough
    BY <2>2, <2>3 DEF Enough, Refused, LateRefused
  <2>5. Filling
    BY <2>1, <2>4 DEF Writing
  <2>6. TextLength(value) - i = 0
    BY <2>1, <2>2, <2>5, RoomyStep DEF Filling
  <2> QED BY <2>1, <2>2, <2>3, <2>5, <2>6 DEF Filling, Ended, TextOf
<1> QED BY <1>1, Invariance, PTL

(* A smaller one never does, and an error leaves nothing in it.            *)
THEOREM ErrorsLeaveNothing == Spec => []ErrorLeavesNothing
<1>1. IInv => ErrorLeavesNothing
  <2> SUFFICES ASSUME IInv, pc = "done"
               PROVE  /\ (status = "SUCCESS") =>
                           (measured.status = "SUCCESS" /\ size > measured.count /\ ~Refused)
                      /\ (status # "SUCCESS") => (i = 0 /\ (size > 0 => cells[0] = "null"))
    BY DEF ErrorLeavesNothing
  <2>1. Measured /\ Writing /\ pieces = <<>> /\ Types
    BY DEF IInv
  <2>2. CASE Enough
    <3>1. ~Bad(value) /\ ~LateRefused(value) /\ TextLength(value) < size /\ status = "SUCCESS"
      BY <2>1, <2>2 DEF Enough, Writing, Filling
    <3>2. measured.status = "SUCCESS" /\ measured.count = TextLength(value) /\ size \in Nat
          /\ measured.count \in Nat
      BY <2>1, <3>1 DEF Measured, Types
    <3>3. size > measured.count
      BY <3>1, <3>2
    <3>4. ~Refused
      BY <3>1 DEF Refused, LateRefused
    <3> QED BY <3>1, <3>2, <3>3, <3>4
  <2>3. CASE ~Enough
    <3>1. Failing
      BY <2>1, <2>3 DEF Writing
    <3>2. pieces \notin Escapes /\ \A j \in Int : ~Short(pieces, j)
      BY <2>1, EscapeStep, ShortStep DEF Types
    <3>3. status # "SUCCESS" /\ i = 0 /\ Empty
      BY <2>1, <3>1, <3>2 DEF Failing
    <3> QED BY <3>3 DEF Empty
  <2> QED BY <2>2, <2>3
<1> QED BY <1>1, Invariance, PTL

(* No string is longer than exess.h declares for its datatype.             *)
THEOREM LengthsAreDeclared == Spec => []LengthsDeclared
<1>1. IInv => LengthsDeclared
  <2> SUFFICES ASSUME IInv, pc = "measured", value.kind \in DOMAIN MaxLength
               PROVE  measured.count <= MaxLength[value.kind]
    BY DEF LengthsDeclared
  <2>1. Measured /\ Types
    BY DEF IInv
  <2>2. IsValue(value)
    BY <2>1, ValuesAssumption DEF Types
  <2>3. Declared(value, TextLength(value))
    BY <2>2, TextLengthAgrees
  <2> QED BY <2>1, <2>3 DEF Measured, Declared
<1> QED BY <1>1, Invariance, PTL

-----------------------------------------------------------------------------
(***************************************************************************)
(* Writers that stay inside of the buffer: every piece checks for itself   *)
(* whether it fits, or there is room for it since an earlier check.        *)
(***************************************************************************)

(* Pieces that store nothing behind the end, and need no room before.      *)
Careful == {"char", "string", "digits", "fail", "end"}

Asks == {"need", "needBare"}

(* Lists of pieces, each with the room that is known to be left.           *)
RoomNext ==
  [x \in States |->
     <<Tail(x[1]), CASE Head(x[1]).op \in Asks -> Head(x[1]).n
                     [] Head(x[1]).op = "raw" -> x[2] - Head(x[1]).n
                     [] OTHER -> 0>>]

InsideOk ==
  {x \in States :
     /\ x[2] \in Nat
     /\ x[1] # <<>> => \/ Head(x[1]).op \in Careful \cup Asks
                       \/ Head(x[1]).op = "raw" /\ Head(x[1]).n <= x[2]
                       \/ Head(x[1]).op = "null" /\ 1 <= x[2]}

Inside(s, r) == <<s, r>> \in Certified(InsideOk, Finished, RoomNext)

(* The room that is known to be left after the first piece.                *)
LEMMA RoomAfter ==
  ASSUME NEW p \in PieceSet, NEW t \in Lists, NEW r \in Nat
  PROVE  RoomNext[<<<<p>> \o t, r>>] = <<t, CASE p.op \in Asks -> p.n
                                              [] p.op = "raw" -> r - p.n
                                              [] OTHER -> 0>>
<1>1. r \in Int
  OBVIOUS
<1>2. /\ <<<<p>> \o t, r>> \in States /\ <<<<p>> \o t, r>>[1] = <<p>> \o t
      /\ <<<<p>> \o t, r>>[2] = r /\ Head(<<p>> \o t) = p /\ Tail(<<p>> \o t) = t
  BY <1>1, ConsState, Zenon
<1> QED BY <1>2, Zenon DEF RoomNext

(* Nothing stays inside.                                                   *)
LEMMA InsideEmpty ==
  ASSUME NEW r \in Nat
  PROVE  Inside(<<>>, r)
<1>1. <<>> \in Lists /\ r \in Int
  BY EmptySeq DEF Lists
<1>2. <<<<>>, r>> \in InsideOk /\ <<<<>>, r>> \in Finished
  BY <1>1, PairState DEF InsideOk, Finished
<1> QED BY <1>2, CertifiedStop DEF Inside

(* A piece that stays inside, before a list that does.                     *)
LEMMA InsideCons ==
  ASSUME NEW p \in PieceSet, NEW t \in Lists, NEW r \in Nat
  PROVE  /\ p.op \in Careful /\ Inside(t, 0) => Inside(<<p>> \o t, r)
         /\ p.op \in Asks /\ Inside(t, p.n) => Inside(<<p>> \o t, r)
         /\ p.op = "raw" /\ p.n <= r /\ Inside(t, r - p.n) => Inside(<<p>> \o t, r)
         /\ p.op = "null" /\ 1 <= r /\ Inside(t, 0) => Inside(<<p>> \o t, r)
<1> DEFINE x == <<<<p>> \o t, r>>
<1>1. r \in Int
  OBVIOUS
<1>2. x \in States /\ x[1] = <<p>> \o t /\ x[2] = r /\ Head(<<p>> \o t) = p
  BY <1>1, ConsState, Zenon
<1>3. RoomNext[x] = <<t, CASE p.op \in Asks -> p.n [] p.op = "raw" -> r - p.n [] OTHER -> 0>>
  BY RoomAfter, Zenon
<1> HIDE DEF x
<1>4. ASSUME x \in InsideOk, NEW q, RoomNext[x] = <<t, q>>, Inside(t, q)
      PROVE  Inside(<<p>> \o t, r)
  BY <1>4, CertifiedCons DEF Inside, x
<1>5. ASSUME p.op \in Careful, Inside(t, 0) PROVE Inside(<<p>> \o t, r)
  <2>1. RoomNext[x] = <<t, 0>>
    BY <1>3, <1>5 DEF Careful, Asks
  <2>2. x \in InsideOk
    BY <1>2, <1>5 DEF InsideOk
  <2> QED BY <1>4, <1>5, <2>1, <2>2
<1>6. ASSUME p.op \in Asks, Inside(t, p.n) PROVE Inside(<<p>> \o t, r)
  <2>1. RoomNext[x] = <<t, p.n>>
    BY <1>3, <1>6 DEF Asks
  <2>2. x \in InsideOk
    BY <1>2, <1>6 DEF InsideOk
  <2> QED BY <1>4, <1>6, <2>1, <2>2
<1>7. ASSUME p.op = "raw", p.n <= r, Inside(t, r - p.n) PROVE Inside(<<p>> \o t, r)
  <2>1. RoomNext[x] = <<t, r - p.n>>
    BY <1>3, <1>7 DEF Asks
  <2>2. x \in InsideOk
    BY <1>2, <1>7 DEF InsideOk
  <2> QED BY <1>4, <1>7, <2>1, <2>2
<1>8. ASSUME p.op = "null", 1 <= r, Inside(t, 0) PROVE Inside(<<p>> \o t, r)
  <2>1. RoomNext[x] = <<t, 0>>
    BY <1>3, <1>8 DEF Asks
  <2>2. x \in InsideOk
    BY <1>2, <1>8 DEF InsideOk
  <2> QED BY <1>4, <1>8, <2>1, <2>2
<1> QED BY <1>5, <1>6, <1>7, <1>8

(* The first piece stays inside, and so does the rest.                     *)
LEMMA InsideStep ==
  ASSUME NEW s \in Lists, NEW r \in Int, Inside(s, r), s # <<>>
  PROVE  /\ r \in Nat
         /\ \/ Head(s).op \in Careful /\ Inside(Tail(s), 0)
            \/ Head(s).op \in Asks /\ Inside(Tail(s), Head(s).n)
            \/ Head(s).op = "raw" /\ Head(s).n <= r /\ Inside(Tail(s), r - Head(s).n)
            \/ Head(s).op = "null" /\ 1 <= r /\ Inside(Tail(s), 0)
<1> DEFINE p == Head(s)
           t == Tail(s)
           x == <<s, r>>
<1>1. p \in PieceSet /\ t \in Lists /\ s = <<p>> \o t
  BY ListParts
<1>2. x \in InsideOk
  BY CertifiedOk DEF Inside
<1>3. /\ r \in Nat
      /\ \/ p.op \in Careful \cup Asks
         \/ p.op = "raw" /\ p.n <= r
         \/ p.op = "null" /\ 1 <= r
  BY <1>2, PairState DEF InsideOk
<1>4. RoomNext[x] = <<t, CASE p.op \in Asks -> p.n [] p.op = "raw" -> r - p.n [] OTHER -> 0>>
  BY <1>1, <1>3, RoomAfter, Zenon
<1>5. x \notin Finished
  BY PairState DEF Finished
<1>6. RoomNext[x] \in Certified(InsideOk, Finished, RoomNext)
  BY <1>5, CertifiedStep DEF Inside
<1> HIDE DEF x, p, t
<1>7. CASE p.op \in Careful
  <2>1. RoomNext[x] = <<t, 0>>
    BY <1>4, <1>7 DEF Careful, Asks
  <2> QED BY <1>3, <1>6, <1>7, <2>1 DEF Inside, p, t
<1>8. CASE p.op \in Asks
  <2>1. RoomNext[x] = <<t, p.n>>
    BY <1>4, <1>8 DEF Asks
  <2> QED BY <1>3, <1>6, <1>8, <2>1 DEF Inside, p, t
<1>9. CASE p.op = "raw" /\ p.n <= r
  <2>1. RoomNext[x] = <<t, r - p.n>>
    BY <1>4, <1>9 DEF Asks
  <2> QED BY <1>3, <1>6, <1>9, <2>1 DEF Inside, p, t
<1>10. CASE p.op = "null" /\ 1 <= r
  <2>1. RoomNext[x] = <<t, 0>>
    BY <1>4, <1>10 DEF Asks
  <2> QED BY <1>3, <1>6, <1>10, <2>1 DEF Inside, p, t
<1> QED BY <1>3, <1>7, <1>8, <1>9, <1>10

-----------------------------------------------------------------------------

(* end_write stays inside.                                                 *)
LEMMA EndInside ==
  ASSUME NEW r \in Nat
  PROVE  Inside(<<End>>, r) /\ <<End>> \in Lists
<1>1. /\ End \in PieceSet /\ End.op \in Careful /\ <<End>> \in Lists
      /\ <<>> \in Lists /\ <<End>> = <<End>> \o <<>> /\ 0 \in Nat
  BY PieceFacts, Single DEF Careful
<1>2. Inside(<<End>> \o <<>>, r)
  BY <1>1, InsideEmpty, InsideCons
<1> QED BY <1>1, <1>2

(* So does a piece that checks for itself,                                 *)
LEMMA CarefulInside ==
  ASSUME NEW p \in PieceSet, p.op \in Careful, NEW t \in Lists, NEW r \in Nat, Inside(t, 0)
  PROVE  Inside(<<p>> \o t, r) /\ <<p>> \o t \in Lists
BY InsideCons, ListCons

(* a check before what it has found room for,                              *)
LEMMA AskInside ==
  ASSUME NEW n \in Nat, NEW t \in Lists, NEW r \in Nat, Inside(t, n)
  PROVE  /\ Inside(<<Need(n)>> \o t, r) /\ <<Need(n)>> \o t \in Lists
         /\ Inside(<<NeedBare(n)>> \o t, r) /\ <<NeedBare(n)>> \o t \in Lists
<1>1. /\ Need(n) \in PieceSet /\ Need(n).op \in Asks /\ Need(n).n = n
      /\ NeedBare(n) \in PieceSet /\ NeedBare(n).op \in Asks /\ NeedBare(n).n = n
  BY GuardPieceFacts DEF Asks
<1> QED BY <1>1, InsideCons, ListCons

(* characters that there is known to be room for,                          *)
LEMMA RawInside ==
  ASSUME NEW n \in Nat, NEW t \in Lists, NEW r \in Nat, Inside(t, r)
  PROVE  Inside(<<Raw(n)>> \o t, r + n) /\ <<Raw(n)>> \o t \in Lists
<1>1. Raw(n) \in PieceSet /\ Raw(n).op = "raw" /\ Raw(n).n = n
  BY CountedPieceFacts DEF Raw, Piece
<1>2. r + n \in Nat /\ n <= r + n /\ (r + n) - n = r
  OBVIOUS
<1> QED BY <1>1, <1>2, InsideCons, ListCons

(* write_special,                                                          *)
LEMMA SpecialInside ==
  ASSUME NEW n \in Nat, NEW r \in Nat
  PROVE  Inside(Special(n), r) /\ Special(n) \in Lists
<1>1. /\ Null \in PieceSet /\ Null.op = "null" /\ <<Null>> \in Lists /\ <<>> \in Lists
      /\ <<Null>> = <<Null>> \o <<>> /\ 1 \in Nat /\ 1 <= 1 /\ 0 \in Nat
  BY PieceFacts, Single
<1>2. Inside(<<Null>>, 1)
  BY <1>1, InsideEmpty, InsideCons
<1>3. Inside(<<Raw(n)>> \o <<Null>>, 1 + n) /\ <<Raw(n)>> \o <<Null>> \in Lists
  BY <1>1, <1>2, RawInside
<1>4. 1 + n = n + 1 /\ n + 1 \in Nat
  OBVIOUS
<1>5. /\ Inside(<<Need(n + 1)>> \o (<<Raw(n)>> \o <<Null>>), r)
      /\ <<Need(n + 1)>> \o (<<Raw(n)>> \o <<Null>>) \in Lists
  <2> DEFINE s == <<Raw(n)>> \o <<Null>>
  <2>1. Inside(s, n + 1) /\ s \in Lists
    BY <1>3, <1>4
  <2> HIDE DEF s
  <2>2. /\ Inside(<<Need(n + 1)>> \o s, r) /\ <<Need(n + 1)>> \o s \in Lists
    BY <1>4, <2>1, AskInside, Zenon
  <2> QED BY <2>2, Zenon DEF s
<1>6. Special(n) = <<Need(n + 1)>> \o (<<Raw(n)>> \o <<Null>>)
  <2>1. Raw(n) \in PieceSet /\ Need(n + 1) \in PieceSet
    BY <1>4, CountedPieceFacts, GuardPieceFacts
  <2>2. <<Raw(n), Null>> = <<Raw(n)>> \o <<Null>>
    BY <1>1, <2>1, Tuple2
  <2>3. <<Need(n + 1), Raw(n), Null>> = <<Need(n + 1)>> \o <<Raw(n), Null>>
    BY <1>1, <2>1, Tuple3
  <2> QED BY <2>2, <2>3 DEF Special
<1> QED BY <1>5, <1>6

(* and the parts of a decimal after the check of their length.             *)
LEMMA PartsInside ==
  ASSUME NEW a \in Nat, NEW b \in Nat, NEW c \in Nat, NEW r \in Nat
  PROVE  LET s == (<<Need(a + b + c + 1)>> \o <<Raw(a), Raw(b), Raw(c)>>) \o <<End>>
         IN  s \in Lists /\ Inside(s, r)
<1> DEFINE w == <<End>>
           x == <<Raw(c)>> \o w
           y == <<Raw(b)>> \o x
           z == <<Raw(a)>> \o y
           m == a + b + c + 1
<1>1. /\ m \in Nat /\ 1 \in Nat /\ 1 + c \in Nat /\ (1 + c) + b \in Nat
      /\ ((1 + c) + b) + a = m
  OBVIOUS
<1>2. /\ Need(m) \in PieceSet /\ Raw(a) \in PieceSet /\ Raw(b) \in PieceSet
      /\ Raw(c) \in PieceSet
  BY <1>1, GuardPieceFacts, CountedPieceFacts
<1>3. w \in Lists /\ Inside(w, 1)
  BY <1>1, EndInside
<1>4. x \in Lists /\ Inside(x, 1 + c)
  BY <1>1, <1>3, RawInside, Zenon
<1>5. y \in Lists /\ Inside(y, (1 + c) + b)
  BY <1>1, <1>4, RawInside, Zenon
<1>6. z \in Lists /\ Inside(z, ((1 + c) + b) + a)
  BY <1>1, <1>5, RawInside, Zenon
<1> HIDE DEF m
<1>7. <<Need(m)>> \o z \in Lists /\ Inside(<<Need(m)>> \o z, r)
  BY <1>1, <1>6, AskInside, Zenon
<1>8. (<<Need(m)>> \o <<Raw(a), Raw(b), Raw(c)>>) \o w = <<Need(m)>> \o z
  <2> HIDE DEF w
  <2>1. /\ <<Raw(a), Raw(b), Raw(c)>> = <<Raw(a)>> \o <<Raw(b), Raw(c)>>
        /\ <<Raw(b), Raw(c)>> = <<Raw(b)>> \o <<Raw(c)>>
        /\ <<Raw(a), Raw(b), Raw(c)>> \in Lists /\ <<Raw(b), Raw(c)>> \in Lists
        /\ <<Raw(c)>> \in Lists
    BY <1>2, Tuple2, Tuple3, Single, Zenon
  <2>2. (<<Raw(b)>> \o <<Raw(c)>>) \o w = <<Raw(b)>> \o (<<Raw(c)>> \o w)
    BY <1>2, <1>3, <2>1, ConsConcat, Zenon
  <2>3. (<<Raw(a)>> \o <<Raw(b), Raw(c)>>) \o w = <<Raw(a)>> \o (<<Raw(b), Raw(c)>> \o w)
    BY <1>2, <1>3, <2>1, ConsConcat, Zenon
  <2>4. (<<Need(m)>> \o <<Raw(a), Raw(b), Raw(c)>>) \o w
          = <<Need(m)>> \o (<<Raw(a), Raw(b), Raw(c)>> \o w)
    BY <1>2, <1>3, <2>1, ConsConcat, Zenon
  <2> QED BY <2>1, <2>2, <2>3, <2>4
<1> QED BY <1>7, <1>8 DEF m

Guarded(v) == Inside(Program(v, FALSE), 0)

(* exess_write_boolean stays inside, and what writes nothing.              *)
LEMMA TextInside ==
  ASSUME NEW v, v.kind \in {"nothing", "boolean"}
  PROVE  Guarded(v)
<1>1. CASE v.kind = "nothing"
  <2>1. /\ Fail \in PieceSet /\ Fail.op \in Careful /\ <<>> \in Lists /\ 0 \in Nat
        /\ <<Fail>> = <<Fail>> \o <<>>
    BY PieceFacts, Single DEF Careful
  <2>2. Inside(<<Fail>> \o <<>>, 0)
    BY <2>1, InsideEmpty, CarefulInside
  <2>3. Program(v, FALSE) = <<Fail>>
    BY <1>1 DEF Program
  <2> QED BY <2>1, <2>2, <2>3 DEF Guarded
<1>2. CASE v.kind = "boolean"
  <2> DEFINE n == IF v.true THEN 4 ELSE 5
  <2>1. String(n) \in PieceSet /\ String(n).op \in Careful /\ 0 \in Nat /\ End \in PieceSet
    BY CountedPieceFacts, PieceFacts DEF Careful
  <2>2. Program(v, FALSE) = <<String(n), End>>
    BY <1>2 DEF Program, Boolean
  <2> HIDE DEF n
  <2>3. Program(v, FALSE) = <<String(n)>> \o <<End>>
    BY <2>1, <2>2, Tuple2
  <2>4. Inside(<<String(n)>> \o <<End>>, 0)
    BY <2>1, EndInside, CarefulInside
  <2> QED BY <2>3, <2>4 DEF Guarded
<1> QED BY <1>1, <1>2

(* exess_write_long and exess_write_ulong stay inside.                     *)
LEMMA IntegerInside ==
  ASSUME NEW v, v.kind = "integer", v.digits \in Nat
  PROVE  Guarded(v)
<1>1. /\ String(20) \in PieceSet /\ String(20).op \in Careful
      /\ Digits(v.digits) \in PieceSet /\ Digits(v.digits).op \in Careful
      /\ Char \in PieceSet /\ Char.op \in Careful /\ End \in PieceSet /\ 0 \in Nat
  BY CountedPieceFacts, PieceFacts DEF Careful
<1>2. CASE v.lowest
  <2>1. Program(v, FALSE) = <<String(20), End>>
    BY <1>2 DEF Program, Integer
  <2>2. <<String(20), End>> = <<String(20)>> \o <<End>>
    BY <1>1, Tuple2
  <2> QED BY <1>1, <2>1, <2>2, EndInside, CarefulInside DEF Guarded
<1>3. CASE ~v.lowest
  <2> DEFINE t == <<Digits(v.digits)>> \o <<End>>
  <2>1. t \in Lists /\ Inside(t, 0)
    BY <1>1, EndInside, CarefulInside
  <2>2. <<Digits(v.digits), End>> = t
    BY <1>1, Tuple2
  <2>3. Program(v, FALSE) = If(v.negative, <<Char>>) \o t
    BY <1>3, <2>2 DEF Program, Integer
  <2> HIDE DEF t
  <2>4. Inside(<<Char>> \o t, 0) /\ <<>> \o t = t
    BY <1>1, <2>1, CarefulInside, ListConcat
  <2> QED BY <2>1, <2>3, <2>4 DEF Guarded, If
<1> QED BY <1>2, <1>3

(* exess_write_decimal stays inside.                                       *)
LEMMA DecimalInside ==
  ASSUME NEW v, v.kind = "decimal", v.class \in Classes,
         v.digits \in Nat \ {0}, v.expt \in Int
  PROVE  Guarded(v)
<1>1. ASSUME NEW t \in Lists, Inside(t, 3), Program(v, FALSE) = <<Need(3)>> \o t
      PROVE  Guarded(v)
  <2>1. 3 \in Nat /\ 0 \in Nat
    OBVIOUS
  <2> QED BY <1>1, <2>1, AskInside DEF Guarded
<1>2. CASE v.class \in {"nan", "-inf", "inf"}
  <2>1. /\ Fail \in PieceSet /\ Fail.op \in Careful /\ <<>> \in Lists /\ 0 \in Nat /\ 3 \in Nat
        /\ <<Fail>> = <<Fail>> \o <<>> /\ <<Fail>> \in Lists
    BY PieceFacts, Single DEF Careful
  <2>2. Inside(<<Fail>> \o <<>>, 3)
    BY <2>1, InsideEmpty, CarefulInside
  <2>3. Program(v, FALSE) = <<Need(3)>> \o <<Fail>>
    BY <1>2 DEF Program, Decimal
  <2> QED BY <1>1, <2>1, <2>2, <2>3
<1>3. CASE v.class \in {"-0", "0"}
  <2>1. \E n \in {3, 4} : Program(v, FALSE) = <<Need(3)>> \o Special(n)
    BY <1>3 DEF Program, Decimal
  <2>2. PICK n \in {3, 4} : Program(v, FALSE) = <<Need(3)>> \o Special(n)
    BY <2>1
  <2>3. Special(n) \in Lists /\ Inside(Special(n), 3)
    BY SpecialInside
  <2> QED BY <1>1, <2>2, <2>3
<1>4. CASE v.class \in {"-", "+"}
  <2> DEFINE m == v.digits + 1 + DecimalZeros(v)
             c == If(v.class = "-", <<Raw(1)>>)
             q == <<Need(m + 1)>>
             d == DecimalParts(v)
             e == <<End>>
             s == (q \o d) \o e
  <2>1. PICK a, b, k \in Nat : d = <<Raw(a), Raw(b), Raw(k)>> /\ a + b + k = m
    BY DecimalPartsLength
  <2>2. \A r \in Nat : s \in Lists /\ Inside(s, r)
    BY <2>1, PartsInside
  <2>3. q \in Lists /\ d \in Lists /\ e \in Lists
    <3>1. m + 1 \in Nat
      BY DecimalPartsLength
    <3>2. Need(m + 1) \in PieceSet
      BY <3>1, GuardPieceFacts
    <3>3. Raw(a) \in PieceSet /\ Raw(b) \in PieceSet /\ Raw(k) \in PieceSet
      BY CountedPieceFacts
    <3>4. <<Raw(a), Raw(b), Raw(k)>> \in Lists
      BY <3>3, Tuple3
    <3>5. q \in Lists
      BY <3>2, Single
    <3> QED BY <2>1, <3>4, <3>5, EndOnly
  <2>4. Program(v, FALSE) = <<Need(3)>> \o (((c \o q) \o d) \o e)
    BY <1>4 DEF Program, Decimal
  <2>5. 2 \in Nat /\ 3 \in Nat /\ 1 \in Nat /\ 2 + 1 = 3
    OBVIOUS
  <2> HIDE DEF q, d, e
  <2>6. CASE v.class = "+"
    <3>1. c = <<>> /\ <<>> \o q = q
      BY <2>3, <2>6, ListConcat DEF If
    <3>2. Program(v, FALSE) = <<Need(3)>> \o s
      BY <2>4, <3>1
    <3>3. s \in Lists /\ Inside(s, 3)
      BY <2>2, <2>5
    <3> QED BY <1>1, <3>2, <3>3, Zenon
  <2>7. CASE v.class = "-"
    <3>1. c = <<Raw(1)>> /\ Raw(1) \in PieceSet
      BY <2>5, <2>7, CountedPieceFacts DEF If
    <3>2. ((c \o q) \o d) \o e = <<Raw(1)>> \o s
      <4>1. (<<Raw(1)>> \o q) \o d = <<Raw(1)>> \o (q \o d) /\ q \o d \in Lists
        BY <2>3, <3>1, ConsConcat
      <4>2. (<<Raw(1)>> \o (q \o d)) \o e = <<Raw(1)>> \o ((q \o d) \o e)
        BY <2>3, <3>1, <4>1, ConsConcat
      <4> QED BY <3>1, <4>1, <4>2
    <3>3. Inside(<<Raw(1)>> \o s, 3) /\ <<Raw(1)>> \o s \in Lists
      <4> HIDE DEF s
      <4> QED BY <2>2, <2>5, RawInside
    <3> QED BY <1>1, <2>4, <3>2, <3>3
  <2> QED BY <1>4, <2>6, <2>7
<1> QED BY <1>2, <1>3, <1>4 DEF Classes

(* exess_write_hex and exess_write_base64 stay inside.                     *)
IsBlob(v) == v.kind \in {"hex", "base64"} /\ v.size \in Nat

LEMMA BlobInside ==
  ASSUME NEW v, IsBlob(v)
  PROVE  Guarded(v)
<1>0. v.kind \in {"hex", "base64"} /\ v.size \in Nat
  BY DEF IsBlob
<1> DEFINE n == IF v.kind = "hex" THEN 2 * v.size ELSE ((v.size + 2) \div 3) * 4
           t == <<Raw(n)>> \o <<End>>
<1>1. n \in Nat
  <2>1. (v.size + 2) \div 3 \in Nat
    BY <1>0
  <2> QED BY <1>0, <2>1
<1>2. Program(v, FALSE) = <<NeedBare(n + 1), Raw(n), End>>
  BY <1>0 DEF Program, Blob
<1> HIDE DEF n
<1>3. n + 1 \in Nat /\ 1 \in Nat /\ 0 \in Nat /\ 1 + n = n + 1
  BY <1>1
<1>4. NeedBare(n + 1) \in PieceSet /\ Raw(n) \in PieceSet /\ End \in PieceSet
  BY <1>1, <1>3, GuardPieceFacts, CountedPieceFacts, PieceFacts
<1>5. <<NeedBare(n + 1), Raw(n), End>> = <<NeedBare(n + 1)>> \o t
  <2>1. <<Raw(n), End>> = <<Raw(n)>> \o <<End>>
    BY <1>4, Tuple2
  <2>2. <<NeedBare(n + 1), Raw(n), End>> = <<NeedBare(n + 1)>> \o <<Raw(n), End>>
    BY <1>4, Tuple3
  <2> QED BY <2>1, <2>2
<1>6. t \in Lists /\ Inside(t, n + 1)
  BY <1>1, <1>3, EndInside, RawInside
<1> HIDE DEF t
<1>7. Inside(<<NeedBare(n + 1)>> \o t, 0)
  BY <1>3, <1>6, AskInside
<1> QED BY <1>2, <1>5, <1>7 DEF Guarded

Checked == {"nothing", "boolean", "integer", "decimal", "hex", "base64"}

(* So do all writers of the checked kinds.                                 *)
LEMMA CheckedGuarded ==
  ASSUME NEW v, IsValue(v), v.kind \in Checked
  PROVE  Guarded(v)
<1>1. CASE v.kind \in {"nothing", "boolean"}
  BY <1>1, TextInside
<1>2. CASE v.kind = "integer"
  <2>1. v.digits \in Nat
    BY <1>2 DEF IsValue
  <2> QED BY <1>2, <2>1, IntegerInside
<1>3. CASE v.kind = "decimal"
  <2>1. v.class \in Classes /\ v.digits \in Nat \ {0} /\ v.expt \in Int
    BY <1>3 DEF IsValue
  <2> QED BY <1>3, <2>1, DecimalInside
<1>4. CASE v.kind \in {"hex", "base64"}
  <2>1. IsBlob(v)
    BY <1>4 DEF IsBlob, IsValue
  <2> QED BY <2>1, BlobInside, Zenon
<1> QED BY <1>1, <1>2, <1>3, <1>4 DEF Checked

-----------------------------------------------------------------------------

Behind == \A k \in size..Top : cells[k] = "before"

(* What is known to be left of the buffer is left.                         *)
Covered == \E r \in Nat : Inside(pieces, r) /\ (r > 0 => i + r <= size)

(* A piece of a checked writer stores only what it knows to fit.           *)
LEMMA CheckedStep ==
  ASSUME Types, pc = "write", WritePiece, Behind, Covered
  PROVE  Behind' /\ Covered'
<1> DEFINE p == Head(pieces)
           t == Tail(pieces)
           n == p.n
<1>1. /\ size' = size /\ pieces # <<>> /\ HasBuffer
      /\ size \in Nat /\ i \in Nat /\ Top \in Nat /\ pieces \in Lists
  BY PieceFrame, BoundsAssumption DEF HasBuffer, Types
<1>2. p \in PieceSet /\ t \in Lists /\ n \in Nat /\ Amount = n
  BY <1>1, Amounts DEF Amount
<1>3. PICK r \in Nat : Inside(pieces, r) /\ (r > 0 => i + r <= size)
  BY DEF Covered
<1>4. \/ p.op \in Careful /\ Inside(t, 0)
      \/ p.op \in Asks /\ Inside(t, n)
      \/ p.op = "raw" /\ n <= r /\ Inside(t, r - n)
      \/ p.op = "null" /\ 1 <= r /\ Inside(t, 0)
  BY <1>1, <1>3, InsideStep
<1> HIDE DEF p, t, n
<1> DEFINE Clear(c) == \A k \in size..Top : c[k] = "before"
<1>5. ASSUME NEW c, NEW a \in Nat, NEW m \in Nat, NEW mark, Clear(c), a + m <= size
      PROVE  Clear(Put(c, a, m, mark))
  BY <1>1, <1>5 DEF Put
<1>6. ASSUME NEW c, NEW a \in Nat, Clear(c), a < size
      PROVE  Clear(NullAt(c, a))
  BY <1>1, <1>6 DEF NullAt, Put
<1>7. Inside(<<>>, 0) /\ 0 \in Nat
  BY InsideEmpty
<1>8. ASSUME NEW q \in Nat, Inside(pieces', q), q > 0 => i' + q <= size PROVE Covered'
  BY <1>1, <1>8 DEF Covered
<1>9. (Clear(cells') => Behind') /\ Clear(cells)
  BY <1>1 DEF Behind
<1> HIDE DEF Clear
<1>10. ASSUME NEW st, EndFailed(st, cells) PROVE Behind' /\ Covered'
  <2>1. pieces' = <<>> /\ cells' = IF size > 0 THEN NullAt(cells, 0) ELSE cells
    BY <1>1, <1>10 DEF EndFailed
  <2>2. Clear(cells')
    <3>1. CASE size > 0
      <4>1. 0 < size /\ cells' = NullAt(cells, 0)
        BY <2>1, <3>1
      <4> QED BY <1>6, <1>7, <1>9, <4>1
    <3>2. CASE ~(size > 0)
      BY <1>9, <2>1, <3>2
    <3> QED BY <3>1, <3>2
  <2> QED BY <1>7, <1>8, <1>9, <2>1, <2>2
<1>11. CASE WriteChar
  <2>1. Inside(t, 0) /\ pieces' = t
    BY <1>4, <1>11 DEF WriteChar, At, Asks, Advance, p, t
  <2>2. Clear(cells')
    <3>1. CASE size >= i + 1
      <4>1. i + 1 <= size /\ 1 \in Nat /\ cells' = Put(cells, i, 1, "char")
        BY <1>1, <1>11, <3>1 DEF WriteChar
      <4> QED BY <1>1, <1>5, <1>9, <4>1
    <3>2. CASE ~(size >= i + 1)
      BY <1>9, <1>11, <3>2 DEF WriteChar
    <3> QED BY <3>1, <3>2
  <2> QED BY <1>7, <1>8, <1>9, <2>1, <2>2
<1>12. CASE WriteString
  <2>1. Inside(t, 0) /\ pieces' = t
    BY <1>4, <1>12 DEF WriteString, At, Asks, Advance, p, t
  <2>2. Clear(cells')
    <3>1. CASE size >= i + n + 1
      <4>1. i + n \in Nat /\ i + n <= size /\ i + n < size
        BY <1>1, <1>2, <3>1
      <4>2. cells' = NullAt(Put(cells, i, n, "char"), i + n)
        BY <1>1, <1>2, <1>12, <3>1 DEF WriteString
      <4>3. Clear(Put(cells, i, n, "char"))
        BY <1>1, <1>2, <1>5, <1>9, <4>1
      <4> QED BY <1>6, <4>1, <4>2, <4>3
    <3>2. CASE ~(size >= i + n + 1)
      BY <1>2, <1>9, <1>12, <3>2 DEF WriteString
    <3> QED BY <3>1, <3>2
  <2> QED BY <1>7, <1>8, <1>9, <2>1, <2>2
<1>13. CASE WriteDigits
  <2>1. Inside(t, 0) /\ pieces' = t
    BY <1>4, <1>13 DEF WriteDigits, At, Asks, Advance, p, t
  <2>2. Clear(cells')
    <3>1. CASE i + n >= size
      <4>1. cells' = IF size > 0 THEN NullAt(cells, 0) ELSE cells
        BY <1>1, <1>2, <1>13, <3>1 DEF WriteDigits
      <4>2. CASE size > 0
        <5>1. 0 < size
          BY <4>2
        <5> QED BY <1>6, <1>7, <1>9, <4>1, <4>2, <5>1
      <4>3. CASE ~(size > 0)
        BY <1>9, <4>1, <4>3
      <4> QED BY <4>2, <4>3
    <3>2. CASE ~(i + n >= size)
      <4>1. i + n <= size /\ cells' = Put(cells, i, n, "char")
        BY <1>1, <1>2, <1>13, <3>2 DEF WriteDigits
      <4> QED BY <1>1, <1>2, <1>5, <1>9, <4>1
    <3> QED BY <3>1, <3>2
  <2> QED BY <1>7, <1>8, <1>9, <2>1, <2>2
<1>14. CASE WriteTwo \/ WriteNumber \/ WriteField \/ AddLength \/ SkipAfterError
  BY <1>4, <1>14 DEF WriteTwo, WriteNumber, WriteField, AddLength, SkipAfterError, At, Careful,
                     Asks, p
<1>15. CASE WriteRaw
  <2>1. n <= r /\ Inside(t, r - n) /\ pieces' = t /\ i' = i + n
    BY <1>2, <1>4, <1>15 DEF WriteRaw, At, Careful, Asks, Advance, p, t
  <2>2. r - n \in Nat /\ (r - n > 0 => i' + (r - n) <= size)
    BY <1>1, <1>2, <1>3, <2>1
  <2>3. Clear(cells')
    <3>1. cells' = Put(cells, i, n, "char")
      BY <1>2, <1>15 DEF WriteRaw
    <3>2. CASE n > 0
      <4>1. i + n <= size
        BY <1>1, <1>2, <1>3, <2>1, <3>2
      <4> QED BY <1>1, <1>2, <1>5, <1>9, <3>1, <4>1
    <3>3. CASE n = 0
      BY <1>1, <1>9, <3>1, <3>3 DEF Clear, Put
    <3> QED BY <1>2, <3>2, <3>3
  <2> QED BY <1>8, <1>9, <2>1, <2>2, <2>3
<1>16. CASE WriteNull
  <2>1. 1 <= r /\ Inside(t, 0) /\ pieces' = t
    BY <1>4, <1>16 DEF WriteNull, At, Careful, Asks, Advance, p, t
  <2>2. i < size
    BY <1>1, <1>3, <2>1
  <2>3. Clear(cells')
    <3>1. cells' = NullAt(cells, i)
      BY <1>16 DEF WriteNull
    <3> QED BY <1>1, <1>6, <1>9, <2>2, <3>1
  <2> QED BY <1>7, <1>8, <1>9, <2>1, <2>3
<1>17. CASE CheckRoom
  <2>1. p.op \in Asks /\ Inside(t, n) /\ ~At("needMarked")
    BY <1>4, <1>17 DEF CheckRoom, At, Careful, Asks, p
  <2>2. CASE ~Lacks
    <3>1. pieces' = t /\ i' = i + 0 /\ cells' = cells
      BY <1>17, <2>2 DEF CheckRoom, Advance, t
    <3>2. i' + n <= size
      BY <1>1, <1>2, <2>2, <3>1 DEF Lacks
    <3> QED BY <1>2, <1>8, <1>9, <2>1, <3>1, <3>2
  <2>3. CASE Lacks /\ At("need")
    BY <1>10, <1>17, <2>3 DEF CheckRoom
  <2>4. CASE Lacks /\ ~At("need")
    <3>1. pieces' = <<>> /\ cells' = cells
      BY <1>17, <2>1, <2>4 DEF CheckRoom
    <3> QED BY <1>7, <1>8, <1>9, <3>1
  <2> QED BY <2>2, <2>3, <2>4
<1>18. CASE BadValue
  BY <1>10, <1>18 DEF BadValue
<1>19. CASE EndWrite
  <2>1. CASE status # "SUCCESS" \/ i >= size
    BY <1>1, <1>10, <1>19, <2>1 DEF EndWrite
  <2>2. CASE status = "SUCCESS" /\ ~(i >= size)
    <3>1. Inside(t, 0) /\ pieces' = t
      BY <1>1, <1>4, <1>19, <2>2 DEF EndWrite, At, Asks, Advance, p, t
    <3>2. i < size /\ cells' = NullAt(cells, i)
      BY <1>1, <1>19, <2>2 DEF EndWrite
    <3>3. Clear(cells')
      BY <1>1, <1>6, <1>9, <3>2
    <3> QED BY <1>7, <1>8, <1>9, <3>1, <3>3
  <2> QED BY <2>1, <2>2
<1> QED BY <1>11, <1>12, <1>13, <1>14, <1>15, <1>16, <1>17, <1>18, <1>19 DEF WritePiece

(* The strengthening of CheckedWritersStayInside that is inductive.        *)
Stays ==
  value.kind \in Checked =>
    /\ pc \in {"write", "done"} => Behind
    /\ pc = "write" => Covered

(* Every step keeps what is known of the room.                             *)
LEMMA StaysKept ==
  ASSUME IInv, Stays, [Next]_vars
  PROVE  Stays'
<1>1. CASE Measure
  BY <1>1 DEF Measure, Stays
<1>2. CASE Write
  <2>1. /\ value' = value /\ pieces' = Program(value, FALSE)
        /\ cells' = IF size' > 0 THEN NullAt(Untouched, 0) ELSE Untouched
        /\ value \in Values
    BY <1>2 DEF Write, IInv, Types
  <2>2. size' \in Nat
    <3>1. Types'
      BY <1>2, TypesKept DEF IInv, Next
    <3> QED BY <3>1 DEF Types
  <2>3. \A k \in size'..Top : cells'[k] = "before"
    BY <2>1, <2>2, BoundsAssumption DEF NullAt, Put, Untouched
  <2>4. value.kind \in Checked => Inside(pieces', 0)
    BY <2>1, ValuesAssumption, CheckedGuarded DEF Guarded
  <2>5. 0 \in Nat /\ ~(0 > 0)
    OBVIOUS
  <2>6. value.kind \in Checked => Covered'
    BY <2>4, <2>5, Zenon DEF Covered
  <2> QED BY <2>1, <2>3, <2>6 DEF Stays, Behind
<1>3. CASE WritePiece
  <2>1. value' = value /\ pc' = pc /\ pc \in {"measure", "write"}
    BY <1>3, PieceFrame DEF Running
  <2>2. CASE pc = "measure" \/ value.kind \notin Checked
    BY <2>1, <2>2 DEF Stays
  <2>3. CASE pc = "write" /\ value.kind \in Checked
    BY <1>3, <2>1, <2>3, CheckedStep DEF Stays, IInv
  <2> QED BY <2>1, <2>2, <2>3
<1>4. CASE Return
  <2>1. /\ value' = value /\ size' = size /\ cells' = cells
        /\ (pc' = "done" /\ pc = "write") \/ pc' = "measured"
    BY <1>4 DEF Return, Running, HasBuffer
  <2> QED BY <2>1 DEF Stays, Behind
<1>5. CASE UNCHANGED vars
  BY <1>5 DEF vars, Stays, Behind, Covered
<1> QED BY <1>1, <1>2, <1>3, <1>4, <1>5 DEF Next

(* The writers that check every piece, or first how much they will write,  *)
(* never store behind the end of the buffer.                               *)
THEOREM CheckedStayInside == Spec => []CheckedWritersStayInside
<1>1. Init => Stays
  BY DEF Init, Stays
<1>2. IInv /\ Stays => CheckedWritersStayInside
  <2> SUFFICES ASSUME IInv, Stays, value.kind \in Checked, NEW k \in size..Top
               PROVE  cells[k] = "before"
    BY DEF CheckedWritersStayInside, Checked
  <2>1. CASE pc \in {"write", "done"}
    BY <2>1 DEF Stays, Behind
  <2>2. CASE pc \in {"idle", "measure", "measured"}
    <3>1. cells = Untouched /\ size \in Nat
      BY <2>2 DEF IInv, Fresh, Measuring, Types
    <3> QED BY <3>1, BoundsAssumption DEF Untouched
  <2>3. pc \in {"idle", "measure", "measured", "write", "done"}
    BY DEF IInv, Types
  <2> QED BY <2>1, <2>2, <2>3
<1>3. IInv /\ Stays /\ [Next]_vars => Stays'
  BY StaysKept
<1>4. Spec => []Stays
  <2>1. Init /\ [][Next]_vars /\ []IInv => []Stays
    BY <1>1, <1>3, PTL
  <2> QED BY <2>1, Invariance, PTL DEF Spec
<1> QED BY <1>2, <1>4, Invariance, PTL

=============================================================================
