---------------------- MODULE ExperienceMemoryProofs ----------------------
(* What holds of the experience memory for every number of handlers, ids   *)
(* and appends cut short.                                                  *)
EXTENDS ExperienceMemory, FiniteSetTheorems, TLAPS

(* A finite set that gains at most one element, or loses one.              *)
LEMMA OneMore ==
  ASSUME NEW S, IsFiniteSet(S), NEW T, NEW x, T \subseteq S \cup {x}
  PROVE  IsFiniteSet(T) /\ Cardinality(T) \in Nat /\ Cardinality(S) \in Nat
           /\ Cardinality(T) <= Cardinality(S) + 1
  <1>0. Cardinality(S) \in Nat  BY FS_CardinalityType
  <1>1. IsFiniteSet(S \cup {x}) /\ Cardinality(S \cup {x}) <= Cardinality(S) + 1
    <2>1. CASE x \in S
      <3>1. S \cup {x} = S  BY <2>1
      <3> QED  BY <1>0, <3>1
    <2>2. CASE x \notin S
      <3>1. IsFiniteSet(S \cup {x}) /\ Cardinality(S \cup {x}) = Cardinality(S) + 1
        BY <2>2, FS_AddElement
      <3> QED  BY <1>0, <3>1
    <2> QED  BY <2>1, <2>2
  <1>2. IsFiniteSet(T) /\ Cardinality(T) <= Cardinality(S \cup {x})
    BY <1>1, FS_Subset
  <1>3. Cardinality(S) \in Nat /\ Cardinality(T) \in Nat
            /\ Cardinality(S \cup {x}) \in Nat
    BY <1>1, <1>2, FS_CardinalityType
  <1> QED  BY <1>1, <1>2, <1>3

LEMMA NoMore ==
  ASSUME NEW S, IsFiniteSet(S), NEW T, T \subseteq S
  PROVE  IsFiniteSet(T) /\ Cardinality(T) \in Nat /\ Cardinality(S) \in Nat
           /\ Cardinality(T) <= Cardinality(S)
  BY FS_Subset, FS_CardinalityType

(* The file after a write: the lines that were ended stay, and the last    *)
(* line is the piece, or a text that no record can be read from.           *)
Line == Id \cup {Bad, Garbled}

LEMMA EndOfFile ==
  ASSUME TypeOK, NEW piece \in Line, WriteAtEnd(piece)
  PROVE  /\ file' \in Seq(Line)
         /\ file' # <<>>
         /\ Len(file) \in Nat
         /\ ~open => /\ Len(file') = Len(file) + 1
                     /\ file'[Len(file')] = piece
                     /\ \A i \in 1..Len(file) : file'[i] = file[i]
         /\ open  => /\ Len(file') = Len(file)
                     /\ Len(file) > 0
                     /\ file'[Len(file)] \in {Bad, Garbled}
                     /\ \A i \in 1..Len(file) : i # Len(file) => file'[i] = file[i]
  <1>0. Len(file) \in Nat  BY DEF TypeOK
  <1>1. CASE ~open
    <2>1. file' = Append(file, piece)  BY <1>1 DEF WriteAtEnd
    <2>2. file \in Seq(Line)  BY DEF TypeOK, Line
    <2> QED  BY <1>0, <1>1, <2>1, <2>2
  <1>2. CASE open
    <2>1. file' = [file EXCEPT ![Len(file)] = Glued(file[Len(file)], piece)]
      BY <1>2 DEF WriteAtEnd
    <2>2. file \in Seq(Line) /\ file # <<>>  BY <1>2 DEF TypeOK, Line
    <2>3. Glued(file[Len(file)], piece) \in {Bad, Garbled}  BY DEF Glued
    <2>4. Len(file) \in 1..Len(file)  BY <2>2
    <2>5. Glued(file[Len(file)], piece) \in Line  BY <2>3 DEF Line
    <2> QED  BY <1>0, <1>2, <2>1, <2>2, <2>3, <2>4, <2>5
  <1> QED  BY <1>1, <1>2

(* Requests carry ids.                                                     *)
LEMMA RequestIsId ==
  ASSUME TypeOK, NEW h \in Handler, pc[h] # "idle"
  PROVE  req[h] \in Id /\ req[h] \in Line
  BY DEF TypeOK, Line

(* Whatever a handler does, its answer leaves it idle and without a record.*)
LEMMA AnswerKeepsTypes ==
  ASSUME TypeOK, NEW h \in Handler, Answer(h)
  PROVE  /\ pc' \in [Handler -> {"idle", "load", "append"}]
         /\ req' \in [Handler -> Id \cup {NoId}]
         /\ \A g \in Handler : pc'[g] = "idle" <=> req'[g] = NoId
  BY DEF TypeOK, Answer

LEMMA TypeInit == Init => TypeOK
  <1> SUFFICES ASSUME Init PROVE TypeOK
    OBVIOUS
  <1>1. file \in Seq(Id \cup {Bad, Garbled}) /\ cuts \in 0..MaxCuts /\ known \subseteq Id
    BY CutsAssumption DEF Init
  <1>2. /\ pc \in [Handler -> {"idle", "load", "append"}]
        /\ req \in [Handler -> Id \cup {NoId}]
        /\ \A h \in Handler : pc[h] = "idle" <=> req[h] = NoId
    BY DEF Init
  <1>3. open \in BOOLEAN /\ (open => file # <<>>)
    BY DEF Init
  <1> QED  BY <1>1, <1>2, <1>3 DEF TypeOK

LEMMA TypeStep == TypeOK /\ [Next]_vars => TypeOK'
  <1> SUFFICES ASSUME TypeOK, [Next]_vars PROVE TypeOK'
    OBVIOUS
  <1>1. ASSUME NEW h \in Handler, NEW id \in Id, Build(h, id) PROVE TypeOK'
    <2>1. id # NoId  BY IdAssumption
    <2> QED  BY <1>1, <2>1 DEF Build, TypeOK
  <1>2. ASSUME NEW h \in Handler, LoadRaises(h) PROVE TypeOK'
    BY <1>2, AnswerKeepsTypes DEF LoadRaises, TypeOK
  <1>3. ASSUME NEW h \in Handler, LoadFinds(h) PROVE TypeOK'
    <2>1. req[h] \in Id  BY <1>3 DEF LoadFinds, Recorded
    <2> QED  BY <1>3, <2>1, AnswerKeepsTypes DEF LoadFinds, TypeOK
  <1>4. ASSUME NEW h \in Handler, LoadMisses(h) PROVE TypeOK'
    BY <1>4 DEF LoadMisses, TypeOK
  <1>5. ASSUME NEW h \in Handler, AppendLine(h) PROVE TypeOK'
    <2>1. req[h] \in Id /\ req[h] \in Line  BY <1>5, RequestIsId DEF AppendLine
    <2>2. file' \in Seq(Line) /\ file' # <<>>
      BY <1>5, <2>1, EndOfFile DEF AppendLine
    <2>3. open' = FALSE /\ cuts' = cuts /\ known' = known \cup {req[h]}
      BY <1>5 DEF AppendLine
    <2>4. known' \subseteq Id /\ cuts' \in 0..MaxCuts  BY <2>1, <2>3 DEF TypeOK
    <2>5. Answer(h)  BY <1>5 DEF AppendLine
    <2> QED  BY <2>2, <2>3, <2>4, <2>5, AnswerKeepsTypes DEF TypeOK, Line
  <1>6. ASSUME NEW h \in Handler, AppendFails(h) PROVE TypeOK'
    BY <1>6, AnswerKeepsTypes DEF AppendFails, TypeOK
  <1>7. ASSUME NEW h \in Handler, AppendCut(h) PROVE TypeOK'
    <2>1. req[h] \in Line  BY <1>7, RequestIsId DEF AppendCut
    <2>2. PICK piece \in {req[h], Bad, Garbled} : WriteAtEnd(piece)
      BY <1>7 DEF AppendCut
    <2>3. piece \in Line  BY <2>1 DEF Line
    <2>4. file' \in Seq(Line) /\ file' # <<>>  BY <2>2, <2>3, EndOfFile
    <2>5. open' = TRUE /\ cuts' = cuts + 1 /\ known' = known /\ cuts < MaxCuts
      BY <1>7 DEF AppendCut
    <2>6. cuts' \in 0..MaxCuts  BY <2>5, CutsAssumption DEF TypeOK
    <2>7. Answer(h)  BY <1>7 DEF AppendCut
    <2> QED  BY <2>4, <2>5, <2>6, <2>7, AnswerKeepsTypes DEF TypeOK, Line
  <1>8. CASE Restart
    BY <1>8 DEF Restart, TypeOK
  <1>9. CASE UNCHANGED vars
    BY <1>9 DEF vars, TypeOK
  <1> QED  BY <1>1, <1>2, <1>3, <1>4, <1>5, <1>6, <1>7, <1>8, <1>9 DEF Next

(* A line of the file is a record or an unreadable text, and only handlers *)
(* at work have a record in hand.                                          *)
THEOREM TypeCorrect == Spec => []TypeOK
  BY TypeInit, TypeStep, PTL DEF Spec

-----------------------------------------------------------------------------
(* Duplicates.                                                             *)

LEMMA Countable ==
  ASSUME TypeOK, NEW id
  PROVE  /\ IsFiniteSet(Copies(id))
         /\ IsFiniteSet(Appending(id))
         /\ Cardinality(Copies(id)) \in Nat
         /\ Cardinality(Appending(id)) \in Nat
         /\ Cardinality(Handler) \in Nat
         /\ Cardinality(Appending(id)) <= Cardinality(Handler)
  <1>1. DOMAIN file = 1..Len(file) /\ Len(file) \in Nat  BY DEF TypeOK
  <1>2. IsFiniteSet(DOMAIN file)  BY <1>1, FS_Interval
  <1>3. Copies(id) \subseteq DOMAIN file  BY DEF Copies
  <1>4. Appending(id) \subseteq Handler  BY DEF Appending
  <1> QED  BY <1>2, <1>3, <1>4, HandlerAssumption, NoMore

(* What makes the bound move: the copies of one id, and the handlers about *)
(* to write one more.                                                      *)
Bounded(id) ==
  Copies(id) # {} =>
    Cardinality(Copies(id)) + Cardinality(Appending(id)) <= Cardinality(Handler)

LEMMA BoundedKept ==
  ASSUME TypeOK, NEW id \in Id, Bounded(id),
         Copies(id)' \subseteq Copies(id), Appending(id)' \subseteq Appending(id)
  PROVE  Bounded(id)'
  <1> DEFINE C == Copies(id)  A == Appending(id)  C1 == Copies(id)'  A1 == Appending(id)'
  <1>1. Cardinality(C1) \in Nat /\ Cardinality(C1) <= Cardinality(C)
          /\ Cardinality(C) \in Nat
    BY Countable, NoMore
  <1>2. Cardinality(A1) \in Nat /\ Cardinality(A1) <= Cardinality(A)
          /\ Cardinality(A) \in Nat
    BY Countable, NoMore
  <1>3. Cardinality(Handler) \in Nat  BY Countable
  <1> QED  BY <1>1, <1>2, <1>3 DEF Bounded

(* A handler that writes leaves the set of those about to write before the *)
(* copy it may add is counted.                                             *)
LEMMA BoundedWrite ==
  ASSUME TypeOK, NEW id \in Id, Bounded(id),
         NEW h \in Handler, pc[h] = "append", Answer(h),
         NEW piece \in {req[h], Bad, Garbled}, WriteAtEnd(piece)
  PROVE  Bounded(id)'
  <1>1. piece \in Line  BY RequestIsId DEF Line
  <1>2. DOMAIN file = 1..Len(file) /\ Len(file) \in Nat  BY DEF TypeOK
  <1>3. file' \in Seq(Line)  BY <1>1, EndOfFile
  <1>4. DOMAIN file' = 1..Len(file')  BY <1>3
  <1>5. id \notin {Bad, Garbled}  BY IdAssumption
  <1>6. CASE req[h] # id
    <2>1. Copies(id)' \subseteq Copies(id)
      <3>1. piece # id  BY <1>5, <1>6
      <3>2. SUFFICES ASSUME NEW i \in 1..Len(file'), file'[i] = id
                     PROVE  i \in 1..Len(file) /\ file[i] = id
        BY <1>2, <1>4 DEF Copies
      <3>3. CASE open
        BY <1>1, <1>5, <3>2, <3>3, EndOfFile
      <3>4. CASE ~open
        <4>1. /\ Len(file') = Len(file) + 1
              /\ file'[Len(file')] = piece
              /\ \A j \in 1..Len(file) : file'[j] = file[j]
          BY <1>1, <3>4, EndOfFile
        <4>2. i # Len(file')  BY <3>1, <3>2, <4>1
        <4>3. i \in 1..Len(file)  BY <1>2, <3>2, <4>1, <4>2
        <4> QED  BY <3>2, <4>1, <4>3
      <3> QED  BY <3>3, <3>4
    <2>2. Appending(id)' \subseteq Appending(id)
      BY DEF Appending, Answer, TypeOK
    <2> QED  BY <2>1, <2>2, BoundedKept
  <1>7. CASE req[h] = id
    <2>1. Copies(id)' \subseteq Copies(id) \cup {Len(file) + 1}
      <3>1. SUFFICES ASSUME NEW i \in 1..Len(file'), file'[i] = id,
                            i # Len(file) + 1
                     PROVE  i \in 1..Len(file) /\ file[i] = id
        BY <1>2, <1>4 DEF Copies
      <3>2. CASE open
        BY <1>1, <1>5, <3>1, <3>2, EndOfFile
      <3>3. CASE ~open
        <4>1. /\ Len(file') = Len(file) + 1
              /\ \A j \in 1..Len(file) : file'[j] = file[j]
          BY <1>1, <3>3, EndOfFile
        <4>2. i \in 1..Len(file)  BY <1>2, <3>1, <4>1
        <4> QED  BY <3>1, <4>1, <4>2
      <3> QED  BY <3>2, <3>3
    <2>2. h \in Appending(id)  BY <1>7 DEF Appending
    <2>3. Appending(id)' \subseteq Appending(id) \ {h}
      BY DEF Appending, Answer, TypeOK
    <2> DEFINE C == Cardinality(Copies(id))  A == Cardinality(Appending(id))
    <2>4. Cardinality(Appending(id) \ {h}) = A - 1 /\ IsFiniteSet(Appending(id) \ {h})
      BY <2>2, Countable, FS_RemoveElement
    <2>5. Cardinality(Appending(id)') <= A - 1 /\ Cardinality(Appending(id)') \in Nat
      BY <2>3, <2>4, NoMore
    <2>6. Cardinality(Copies(id)') <= C + 1 /\ Cardinality(Copies(id)') \in Nat
      BY <2>1, Countable, OneMore
    <2>7. A \in Nat /\ C \in Nat /\ Cardinality(Handler) \in Nat
            /\ A <= Cardinality(Handler)
      BY Countable
    <2>8. CASE Copies(id) = {}
      <3>1. C = 0  BY <2>8, FS_EmptySet
      <3> QED  BY <2>5, <2>6, <2>7, <3>1 DEF Bounded
    <2>9. CASE Copies(id) # {}
      <3>1. C + A <= Cardinality(Handler)  BY <2>9 DEF Bounded
      <3> QED  BY <2>5, <2>6, <2>7, <3>1 DEF Bounded
    <2> QED  BY <2>8, <2>9
  <1> QED  BY <1>6, <1>7

LEMMA BoundedStep ==
  ASSUME TypeOK, NEW id \in Id, Bounded(id), [Next]_vars
  PROVE  Bounded(id)'
  <1>1. ASSUME NEW h \in Handler, NEW r \in Id, Build(h, r) PROVE Bounded(id)'
    <2>1. Copies(id)' = Copies(id)  BY <1>1 DEF Build, Copies
    <2>2. Appending(id)' \subseteq Appending(id)
      BY <1>1 DEF Build, Appending, TypeOK
    <2> QED  BY <2>1, <2>2, BoundedKept
  <1>2. ASSUME NEW h \in Handler, LoadRaises(h) \/ LoadFinds(h) \/ AppendFails(h)
        PROVE  Bounded(id)'
    <2>1. UNCHANGED file /\ Answer(h)  BY <1>2 DEF LoadRaises, LoadFinds, AppendFails
    <2>2. Copies(id)' = Copies(id)  BY <2>1 DEF Copies
    <2>3. Appending(id)' \subseteq Appending(id)
      BY <2>1 DEF Answer, Appending, TypeOK
    <2> QED  BY <2>2, <2>3, BoundedKept
  <1>3. ASSUME NEW h \in Handler, LoadMisses(h) PROVE Bounded(id)'
    <2>1. Copies(id)' = Copies(id)  BY <1>3 DEF LoadMisses, Copies
    <2>2. CASE req[h] = id
      <3>1. Copies(id) = {}  BY <1>3, <2>2 DEF LoadMisses, Recorded, Copies
      <3> QED  BY <2>1, <3>1 DEF Bounded
    <2>3. CASE req[h] # id
      <3>1. Appending(id)' \subseteq Appending(id)
        BY <1>3, <2>3 DEF LoadMisses, Appending, TypeOK
      <3> QED  BY <2>1, <3>1, BoundedKept
    <2> QED  BY <2>2, <2>3
  <1>4. ASSUME NEW h \in Handler, AppendLine(h) PROVE Bounded(id)'
    BY <1>4, BoundedWrite DEF AppendLine
  <1>5. ASSUME NEW h \in Handler, AppendCut(h) PROVE Bounded(id)'
    BY <1>5, BoundedWrite DEF AppendCut
  <1>6. CASE Restart
    <2>1. Copies(id)' = Copies(id)  BY <1>6 DEF Restart, Copies
    <2>2. Appending(id)' \subseteq Appending(id)  BY <1>6 DEF Restart, Appending
    <2> QED  BY <2>1, <2>2, BoundedKept
  <1>7. CASE UNCHANGED vars
    <2>1. Copies(id)' = Copies(id) /\ Appending(id)' = Appending(id)
      BY <1>7 DEF vars, Copies, Appending
    <2> QED  BY <2>1, BoundedKept
  <1> QED  BY <1>1, <1>2, <1>3, <1>4, <1>5, <1>6, <1>7 DEF Next

LEMMA BoundedInit == Init => DuplicatesBounded
  BY DEF Init, DuplicatesBounded, Copies

(* One record is never stored more often than requests can run together;   *)
(* with one handler thread the look-up makes remember_experience           *)
(* idempotent.                                                             *)
THEOREM StoredOncePerHandler == Spec => []DuplicatesBounded
  <1>1. TypeOK /\ DuplicatesBounded /\ [Next]_vars => DuplicatesBounded'
    BY BoundedStep DEF DuplicatesBounded, Bounded
  <1> QED  BY TypeCorrect, BoundedInit, <1>1, PTL DEF Spec

-----------------------------------------------------------------------------
(* Losses.                                                                 *)

(* What an unfinished last line may still cost: the next record, and the   *)
(* record the line holds, if it holds one.                                 *)
LastLine == file[Len(file)]
Debt == IF ~open THEN 0 ELSE IF LastLine \in Id THEN 2 ELSE 1

Losses ==
  /\ IsFiniteSet(known)
  /\ Cardinality(Lost) + Debt <= 2 * cuts

(* A write keeps the records of every line but an unfinished one.          *)
LEMMA RecordedKept ==
  ASSUME TypeOK, NEW piece \in Line, WriteAtEnd(piece)
  PROVE  /\ ~open => Recorded \subseteq Recorded' /\ {piece} \cap Id \subseteq Recorded'
         /\ open  => Recorded \ {LastLine} \subseteq Recorded'
  <1>1. DOMAIN file = 1..Len(file) /\ Len(file) \in Nat  BY DEF TypeOK
  <1>2. file' \in Seq(Line)  BY EndOfFile
  <1>3. DOMAIN file' = 1..Len(file') /\ Len(file') \in Nat  BY <1>2
  <1>4. ASSUME NEW r \in Recorded, NEW i \in 1..Len(file), file'[i] = file[i],
               file[i] = r, Len(file) <= Len(file')
        PROVE  r \in Recorded'
    <2>1. i \in DOMAIN file'  BY <1>1, <1>3, <1>4
    <2> QED  BY <1>4, <2>1 DEF Recorded
  <1>5. CASE ~open
    <2>1. /\ Len(file') = Len(file) + 1
          /\ file'[Len(file')] = piece
          /\ \A i \in 1..Len(file) : file'[i] = file[i]
      BY <1>5, EndOfFile
    <2>2. Len(file') \in DOMAIN file'  BY <1>1, <1>3, <2>1
    <2>3. {piece} \cap Id \subseteq Recorded'  BY <2>1, <2>2 DEF Recorded
    <2>4. ASSUME NEW r \in Recorded PROVE r \in Recorded'
      <3>1. PICK i \in 1..Len(file) : file[i] = r  BY <1>1 DEF Recorded
      <3> QED  BY <1>1, <1>4, <2>1, <3>1
    <2> QED  BY <1>5, <2>3, <2>4
  <1>6. CASE open
    <2>1. /\ Len(file') = Len(file)
          /\ \A i \in 1..Len(file) : i # Len(file) => file'[i] = file[i]
      BY <1>6, EndOfFile
    <2>2. ASSUME NEW r \in Recorded \ {LastLine} PROVE r \in Recorded'
      <3>1. PICK i \in 1..Len(file) : file[i] = r  BY <1>1 DEF Recorded
      <3>2. i # Len(file)  BY <2>2, <3>1 DEF LastLine
      <3>3. file'[i] = file[i]  BY <2>1, <3>1, <3>2
      <3>4. Len(file) <= Len(file')  BY <1>1, <2>1
      <3>5. r \in Recorded  BY <2>2
      <3> QED  BY <1>4, <3>1, <3>3, <3>4, <3>5
    <2> QED  BY <1>6, <2>2
  <1> QED  BY <1>5, <1>6

LEMMA LossesKept ==
  ASSUME TypeOK, Losses, UNCHANGED <<file, open, cuts, known>>
  PROVE  Losses'
  BY DEF Losses, Lost, Recorded, Debt, LastLine

LEMMA LossesAppend ==
  ASSUME TypeOK, Losses, NEW h \in Handler, AppendLine(h)
  PROVE  Losses'
  <1> DEFINE r == req[h]
  <1>1. r \in Id /\ r \in Line  BY RequestIsId DEF AppendLine
  <1>2. /\ WriteAtEnd(r) /\ open' = FALSE
        /\ known' = known \cup {r} /\ cuts' = cuts
    BY DEF AppendLine
  <1>3. IsFiniteSet(known')  BY <1>2, FS_AddElement DEF Losses
  <1>4. IsFiniteSet(Lost)  BY NoMore DEF Losses, Lost
  <1>5. Debt' = 0  BY <1>2 DEF Debt
  <1>6. cuts \in Nat  BY CutsAssumption DEF TypeOK
  <1>7. Cardinality(Lost') <= Cardinality(Lost) + Debt
          /\ Cardinality(Lost') \in Nat /\ Cardinality(Lost) \in Nat
    <2>1. CASE ~open
      <3>1. Lost' \subseteq Lost
        BY <1>1, <1>2, <2>1, RecordedKept DEF Lost
      <3>2. Debt = 0  BY <2>1 DEF Debt
      <3>3. Cardinality(Lost') <= Cardinality(Lost)
              /\ Cardinality(Lost') \in Nat /\ Cardinality(Lost) \in Nat
        BY <1>4, <3>1, NoMore
      <3> QED  BY <3>2, <3>3
    <2>2. CASE open /\ LastLine \notin Id
      <3>1. Lost' \subseteq Lost \cup {r}
        <4>1. Recorded \subseteq Recorded'
          BY <1>1, <1>2, <2>2, RecordedKept DEF Recorded
        <4> QED  BY <1>2, <4>1 DEF Lost
      <3>2. Debt = 1  BY <2>2 DEF Debt
      <3>3. Cardinality(Lost') <= Cardinality(Lost) + 1
              /\ Cardinality(Lost') \in Nat /\ Cardinality(Lost) \in Nat
        BY <1>4, <3>1, OneMore
      <3> QED  BY <3>2, <3>3
    <2>3. CASE open /\ LastLine \in Id
      <3>1. Lost' \subseteq (Lost \cup {r}) \cup {LastLine}
        BY <1>1, <1>2, <2>3, RecordedKept DEF Lost
      <3>2. Debt = 2  BY <2>3 DEF Debt
      <3>3. /\ IsFiniteSet(Lost \cup {r}) /\ Cardinality(Lost) \in Nat
            /\ Cardinality(Lost \cup {r}) <= Cardinality(Lost) + 1
            /\ Cardinality(Lost \cup {r}) \in Nat
        BY <1>4, OneMore
      <3>4. Cardinality(Lost') <= Cardinality(Lost \cup {r}) + 1
              /\ Cardinality(Lost') \in Nat
        BY <3>1, <3>3, OneMore
      <3> QED  BY <3>2, <3>3, <3>4
    <2> QED  BY <2>1, <2>2, <2>3
  <1>8. Cardinality(Lost) + Debt <= 2 * cuts  BY DEF Losses
  <1>9. Debt \in Nat  BY DEF Debt
  <1>10. Cardinality(Lost') + Debt' <= 2 * cuts'
    BY <1>2, <1>5, <1>6, <1>7, <1>8, <1>9
  <1> QED  BY <1>3, <1>10 DEF Losses

LEMMA LossesCut ==
  ASSUME TypeOK, Losses, NEW h \in Handler, AppendCut(h)
  PROVE  Losses'
  <1>1. PICK piece \in {req[h], Bad, Garbled} : WriteAtEnd(piece)
    BY DEF AppendCut
  <1>2. piece \in Line  BY RequestIsId DEF AppendCut, Line
  <1>3. open' = TRUE /\ known' = known /\ cuts' = cuts + 1  BY DEF AppendCut
  <1>4. IsFiniteSet(known') /\ IsFiniteSet(Lost)  BY <1>3, NoMore DEF Losses, Lost
  <1>5. cuts \in Nat  BY CutsAssumption DEF TypeOK
  <1>6. Cardinality(Lost) + Debt <= 2 * cuts  BY DEF Losses
  <1>7. CASE ~open
    <2>1. Lost' \subseteq Lost  BY <1>1, <1>2, <1>3, <1>7, RecordedKept DEF Lost
    <2>2. Cardinality(Lost') <= Cardinality(Lost)
            /\ Cardinality(Lost') \in Nat /\ Cardinality(Lost) \in Nat
      BY <1>4, <2>1, NoMore
    <2>3. Debt = 0 /\ Debt' \in 0..2  BY <1>7 DEF Debt
    <2>4. Cardinality(Lost') + Debt' <= 2 * cuts'
      BY <1>3, <1>5, <1>6, <2>2, <2>3
    <2> QED  BY <1>4, <2>4 DEF Losses
  <1>8. CASE open
    <2>1. Debt' = 1
      <3>1. Len(file') = Len(file) /\ file'[Len(file)] \in {Bad, Garbled}
        BY <1>1, <1>2, <1>8, EndOfFile
      <3>2. LastLine' \notin Id  BY <3>1, IdAssumption DEF LastLine
      <3> QED  BY <1>3, <3>2 DEF Debt
    <2>2. Cardinality(Lost') + 1 <= Cardinality(Lost) + Debt
            /\ Cardinality(Lost') \in Nat /\ Cardinality(Lost) \in Nat
      <3>1. CASE LastLine \notin Id
        <4>1. Recorded \subseteq Recorded'
          BY <1>1, <1>2, <1>8, <3>1, RecordedKept DEF Recorded
        <4>2. Lost' \subseteq Lost  BY <1>3, <4>1 DEF Lost
        <4>3. Debt = 1  BY <1>8, <3>1 DEF Debt
        <4>4. Cardinality(Lost') <= Cardinality(Lost)
                /\ Cardinality(Lost') \in Nat /\ Cardinality(Lost) \in Nat
          BY <1>4, <4>2, NoMore
        <4> QED  BY <4>3, <4>4
      <3>2. CASE LastLine \in Id
        <4>1. Lost' \subseteq Lost \cup {LastLine}
          BY <1>1, <1>2, <1>3, <1>8, RecordedKept DEF Lost
        <4>2. Debt = 2  BY <1>8, <3>2 DEF Debt
        <4>3. Cardinality(Lost') <= Cardinality(Lost) + 1
                /\ Cardinality(Lost') \in Nat /\ Cardinality(Lost) \in Nat
          BY <1>4, <4>1, OneMore
        <4> QED  BY <4>2, <4>3
      <3> QED  BY <3>1, <3>2
    <2>3. Debt \in Nat  BY DEF Debt
    <2>4. Cardinality(Lost') + Debt' <= 2 * cuts'
      BY <1>3, <1>5, <1>6, <2>1, <2>2, <2>3
    <2> QED  BY <1>4, <2>4 DEF Losses
  <1> QED  BY <1>7, <1>8

LEMMA LossesInit == Init => Losses
  <1> SUFFICES ASSUME Init PROVE Losses
    OBVIOUS
  <1>1. known = {} /\ Lost = {} /\ cuts = 0 /\ ~open  BY DEF Init, Lost
  <1>2. Debt = 0  BY <1>1 DEF Debt
  <1>3. IsFiniteSet(known) /\ Cardinality(Lost) = 0  BY <1>1, FS_EmptySet
  <1> QED  BY <1>1, <1>2, <1>3 DEF Losses

LEMMA LossesStep ==
  ASSUME TypeOK, Losses, [Next]_vars
  PROVE  Losses'
  <1>1. ASSUME NEW h \in Handler, LoadFinds(h) PROVE Losses'
    <2>1. /\ known' = known \cup {req[h]} /\ req[h] \in Recorded
          /\ UNCHANGED <<file, open, cuts>>
      BY <1>1 DEF LoadFinds
    <2>2. IsFiniteSet(known')  BY <2>1, FS_AddElement DEF Losses
    <2>3. Lost' = Lost  BY <2>1 DEF Lost, Recorded
    <2>4. Debt' = Debt  BY <2>1 DEF Debt, LastLine
    <2> QED  BY <2>1, <2>2, <2>3, <2>4 DEF Losses
  <1>2. ASSUME NEW h \in Handler, AppendLine(h) PROVE Losses'
    BY <1>2, LossesAppend
  <1>3. ASSUME NEW h \in Handler, AppendCut(h) PROVE Losses'
    BY <1>3, LossesCut
  <1>4. ASSUME UNCHANGED <<file, open, cuts, known>> PROVE Losses'
    BY <1>4, LossesKept
  <1> QED
    BY <1>1, <1>2, <1>3, <1>4
    DEF Next, vars, Build, LoadRaises, LoadMisses, AppendFails, Restart

(* An append that is cut short costs at most two experiences, however many *)
(* handlers, records and restarts there are; without one, what a client    *)
(* has been told is in the memory is there.                                *)
THEOREM CutsCostAtMostTwo == Spec => []LossBounded
  <1>1. Losses /\ TypeOK => LossBounded
    <2> SUFFICES ASSUME Losses, TypeOK PROVE LossBounded
      OBVIOUS
    <2>1. IsFiniteSet(Lost)  BY NoMore DEF Losses, Lost
    <2>2. Cardinality(Lost) \in Nat  BY <2>1, FS_CardinalityType
    <2>3. cuts \in Nat  BY CutsAssumption DEF TypeOK
    <2>4. Debt \in Nat  BY DEF Debt
    <2>5. Cardinality(Lost) + Debt <= 2 * cuts  BY DEF Losses
    <2> QED  BY <2>2, <2>3, <2>4, <2>5 DEF LossBounded
  <1>2. TypeOK /\ Losses /\ [Next]_vars => Losses'
    BY LossesStep
  <1> QED  BY TypeCorrect, LossesInit, <1>1, <1>2, PTL DEF Spec

-----------------------------------------------------------------------------
(* What no append, no failure and no restart can undo: a line that has its *)
(* newline stays as it is, and so does one that is not UTF-8, with its     *)
(* newline or without.                                                     *)
LinesStay ==
  \A i \in DOMAIN file :
    i < Len(file) \/ ~open \/ file[i] = Garbled =>
      i \in DOMAIN file' /\ file'[i] = file[i]

(* A line that is not UTF-8 ends every later load.                         *)
GarbledForGood == ~Readable => ~Readable'

LEMMA WriteKeepsLines ==
  ASSUME TypeOK, NEW piece \in Line, WriteAtEnd(piece)
  PROVE  LinesStay
  <1> SUFFICES ASSUME NEW i \in DOMAIN file, i < Len(file) \/ ~open \/ file[i] = Garbled
               PROVE  i \in DOMAIN file' /\ file'[i] = file[i]
    BY DEF LinesStay
  <1>1. DOMAIN file = 1..Len(file) /\ Len(file) \in Nat /\ i \in 1..Len(file)  BY DEF TypeOK
  <1>2. file' \in Seq(Line)  BY EndOfFile
  <1>3. DOMAIN file' = 1..Len(file') /\ Len(file') \in Nat  BY <1>2
  <1>4. CASE ~open
    <2>1. Len(file') = Len(file) + 1 /\ file'[i] = file[i]  BY <1>1, <1>4, EndOfFile
    <2> QED  BY <1>1, <1>3, <2>1
  <1>5. CASE open /\ i # Len(file)
    <2>1. Len(file') = Len(file) /\ file'[i] = file[i]  BY <1>1, <1>5, EndOfFile
    <2> QED  BY <1>1, <1>3, <2>1
  <1>6. CASE open /\ i = Len(file)
    <2>1. file[Len(file)] = Garbled  BY <1>1, <1>6
    <2>2. Glued(file[Len(file)], piece) = Garbled  BY <2>1 DEF Glued
    <2>3. file' = [file EXCEPT ![Len(file)] = Garbled]  BY <1>6, <2>2 DEF WriteAtEnd
    <2> QED  BY <1>1, <1>6, <2>1, <2>3
  <1> QED  BY <1>4, <1>5, <1>6

LEMMA StepKeepsLines == TypeOK /\ [Next]_vars => LinesStay
  <1> SUFFICES ASSUME TypeOK, [Next]_vars PROVE LinesStay
    OBVIOUS
  <1>1. ASSUME NEW h \in Handler, AppendLine(h) PROVE LinesStay
    <2>1. req[h] \in Line /\ WriteAtEnd(req[h])  BY <1>1, RequestIsId DEF AppendLine
    <2> QED  BY <2>1, WriteKeepsLines
  <1>2. ASSUME NEW h \in Handler, AppendCut(h) PROVE LinesStay
    <2>1. req[h] \in Line  BY <1>2, RequestIsId DEF AppendCut
    <2>2. PICK piece \in {req[h], Bad, Garbled} : WriteAtEnd(piece)
      BY <1>2 DEF AppendCut
    <2>3. piece \in Line  BY <2>1 DEF Line
    <2> QED  BY <2>2, <2>3, WriteKeepsLines
  <1>3. ASSUME UNCHANGED file PROVE LinesStay  BY <1>3 DEF LinesStay
  <1> QED
    BY <1>1, <1>2, <1>3
    DEF Next, vars, Build, LoadRaises, LoadFinds, LoadMisses, AppendFails, Restart

(* The file is append-only, for all the handlers write to it without a     *)
(* lock: what has been recorded on a line of its own is never lost.  The   *)
(* price is that a cut inside a character is for good as well: from then   *)
(* on every load raises, and no request is answered "stored" again.        *)
THEOREM FileOnlyGrows == Spec => [][LinesStay /\ GarbledForGood]_vars
  <1>1. TypeOK /\ [Next]_vars => LinesStay /\ GarbledForGood
    <2>1. LinesStay => GarbledForGood  BY DEF LinesStay, GarbledForGood, Readable
    <2> QED  BY <2>1, StepKeepsLines
  <1> QED  BY TypeCorrect, <1>1, PTL DEF Spec
=============================================================================
