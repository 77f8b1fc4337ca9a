----------------------- MODULE CapabilityCacheProofs -----------------------
(* The cache of capability manifests for any handlers, workflows, names,   *)
(* edits, failing puts and restarts, and what the detector finds in any    *)
(* nodes.                                                                  *)
EXTENDS CapabilityCache, SequenceTheorems, FiniteSetTheorems, TLAPS

Place == {"idle", "lookup", "reading", "build", "build only", "put", "answered", "refused",
          "unreadable"}
Piece == (Manifest \cup {None}) \X Nat
HandlerType == [pc : Place, of : Workflow \cup {None}, named : Path \cup {None}, at : Nat,
                seen : Seq(Piece), alone : BOOLEAN, answer : Manifest \cup {None},
                hit : {"no", "whole", "pieced"}]

Types ==
  /\ content \in [Path -> Workflow]
  /\ cached \in [Workflow -> Seq(Piece) \cup {None}]
  /\ version \in 0..restarts /\ restarts \in 0..MaxRestarts
  /\ handler \in [Handler -> HandlerType]
  /\ spoiled \subseteq Workflow

(* Every piece of a file is of a manifest of the workflow of the file.     *)
PurePieces(f, w) ==
  \A i \in DOMAIN f : f[i] = Hole \/ (f[i][1] \in Manifest /\ f[i][1].of = w)
PureFile(w) == cached[w] \in Seq(Piece) /\ PurePieces(cached[w], w)
Pure(w) == cached[w] # None => PureFile(w)

(* A handler works on a workflow under a name, and answers for it.         *)
Fine(x) ==
  /\ x.pc # "idle" => x.of \in Workflow /\ x.named \in Path
  /\ x.pc \in {"lookup", "build"} => x.at = 0 /\ x.seen = <<>>
  /\ x.pc \in {"put", "reading"} => PureFile(x.of)
  /\ x.pc = "reading" => PurePieces(x.seen, x.of)
  /\ x.pc = "answered" =>
       LET m == x.answer
       IN /\ m \in Manifest /\ m.of = x.of
          /\ x.hit = "no" => m.named = x.named /\ m.version = version
  /\ x.hit # "no" => x.pc = "answered"
  /\ x.pc = "unreadable" \/ x.hit = "pieced" => ~x.alone
Busy(h) == Fine(handler[h])

(* A put that no other has overlapped has its own pieces in the file, one  *)
(* that another has overlapped is known to have spoiled it.                *)
Prefix(m, n) == [i \in 1..n |-> <<m, i>>]

Puts(h) ==
  handler[h].pc = "put" =>
    IF handler[h].alone
    THEN /\ \A k \in Handler : handler[k].pc = "put" /\ handler[k].of = handler[h].of => k = h
         /\ cached[handler[h].of] = Prefix(Built(h), handler[h].at)
    ELSE handler[h].of \in spoiled

(* A reader that no put has disturbed has the file's own pieces, and the   *)
(* file is in order.                                                       *)
InOrder(x) ==
  x.pc = "reading" /\ x.alone =>
    /\ Putting(x.of) = {} /\ x.of \notin spoiled /\ Readable(cached[x.of])
    /\ Len(x.seen) <= Len(cached[x.of])
    /\ \A i \in 1..Len(x.seen) : x.seen[i] = cached[x.of][i]
Reads(h) == InOrder(handler[h])

Sound(w) == cached[w] # None /\ ~Readable(cached[w]) => w \in spoiled \/ Putting(w) # {}

Inv ==
  /\ Types
  /\ \A h \in Handler : Busy(h) /\ Puts(h) /\ Reads(h)
  /\ \A w \in Workflow : Pure(w) /\ Sound(w)
-----------------------------------------------------------------------------
LEMMA BuiltType ==
  ASSUME Inv, NEW h \in Handler, handler[h].pc # "idle"
  PROVE  Built(h) \in Manifest /\ Built(h).of = handler[h].of
  <1>1. /\ handler[h].of \in Workflow /\ handler[h].named \in Path
        /\ version \in 0..restarts /\ restarts \in 0..MaxRestarts
    BY DEF Inv, Busy, Fine, Types
  <1>2. version \in 0..MaxRestarts  BY <1>1, BoundAssumption
  <1> QED  BY <1>1, <1>2 DEF Built, Manifest

(* What does not begin a put of the file a reader is in, and does not write *)
(* to it or spoil it unless a put has begun, leaves the reader in order.   *)
LEMMA ReadsFrame ==
  ASSUME Inv, NEW k \in Handler, NEW w, w = handler[k].of, handler'[k] = handler[k],
         \A j \in Handler : handler'[j].pc = "put" /\ handler'[j].of = w =>
           handler[j].pc = "put" /\ handler[j].of = w,
         cached'[w] = cached[w] \/ Putting(w) # {},
         w \in spoiled' => w \in spoiled \/ Putting(w) # {}
  PROVE  Reads(k)'
  <1>1. Reads(k)  BY DEF Inv
  <1>2. Putting(w)' \subseteq Putting(w)  BY DEF Putting, At
  <1>3. CASE handler[k].pc = "reading" /\ handler[k].alone
    <2>1. /\ Putting(w) = {} /\ w \notin spoiled /\ Readable(cached[w])
          /\ Len(handler[k].seen) <= Len(cached[w])
          /\ \A i \in 1..Len(handler[k].seen) : handler[k].seen[i] = cached[w][i]
      BY <1>1, <1>3 DEF Reads, InOrder
    <2>2. Putting(w)' = {} /\ w \notin spoiled' /\ cached'[w] = cached[w]  BY <1>2, <2>1
    <2> QED  BY <2>1, <2>2 DEF Reads, InOrder
  <1>4. CASE ~(handler[k].pc = "reading" /\ handler[k].alone)
    BY <1>4 DEF Reads, InOrder
  <1> QED  BY <1>3, <1>4

(* A step of one handler that is at no put, before and after.              *)
LEMMA PlainStep ==
  ASSUME Inv, NEW h \in Handler, NEW x \in HandlerType, handler' = [handler EXCEPT ![h] = x],
         handler[h].pc # "put", x.pc # "put", Fine(x), InOrder(x),
         UNCHANGED <<content, cached, version, spoiled, restarts>>
  PROVE  Inv'
  <1>1. /\ content' = content /\ cached' = cached /\ version' = version /\ spoiled' = spoiled
        /\ restarts' = restarts
    OBVIOUS
  <1>2. handler \in [Handler -> HandlerType]  BY DEF Inv, Types
  <1>3. /\ handler' \in [Handler -> HandlerType] /\ handler'[h] = x
        /\ \A k \in Handler : k # h => handler'[k] = handler[k]
    BY <1>2
  <1>4. Types'  BY <1>1, <1>3 DEF Inv, Types
  <1>5. \A w : Putting(w)' = Putting(w)  BY <1>3 DEF Putting, At
  <1>6. ASSUME NEW k \in Handler PROVE Busy(k)' /\ Puts(k)' /\ Reads(k)'
    <2>1. Busy(k) /\ Puts(k)  BY DEF Inv
    <2>2. CASE k = h
      <3>1. Busy(k)'
        BY <1>1, <1>3, <2>2 DEF Busy, Fine, PureFile, PurePieces
      <3>2. Reads(k)'
        BY <1>1, <1>3, <1>5, <2>2 DEF Reads, InOrder
      <3>3. Puts(k)'  BY <1>3, <2>2 DEF Puts
      <3> QED  BY <3>1, <3>2, <3>3
    <2>3. CASE k # h
      <3>1. handler'[k] = handler[k] /\ Built(k)' = Built(k)  BY <1>1, <1>3, <2>3 DEF Built
      <3>2. Busy(k)'  BY <1>1, <2>1, <3>1 DEF Busy, Fine, PureFile, PurePieces
      <3>3. \A j \in Handler : handler'[j].pc = "put" => handler'[j] = handler[j]
        BY <1>3
      <3>4. Puts(k)'  BY <1>1, <2>1, <3>1, <3>3 DEF Puts
      <3>5. Reads(k)'  BY <1>1, <3>1, <3>3, ReadsFrame
      <3> QED  BY <3>2, <3>4, <3>5
    <2> QED  BY <2>2, <2>3
  <1>7. ASSUME NEW w \in Workflow PROVE Pure(w)' /\ Sound(w)'
    <2>1. Pure(w) /\ Sound(w)  BY DEF Inv
    <2>2. Pure(w)'  BY <1>1, <2>1 DEF Pure, PureFile, PurePieces
    <2>3. Sound(w)'  BY <1>1, <1>5, <2>1 DEF Sound
    <2> QED  BY <2>2, <2>3
  <1> QED  BY <1>4, <1>6, <1>7 DEF Inv

LEMMA ReceiveInv ==
  ASSUME Inv, NEW h \in Handler, NEW p \in Path, NEW use \in BOOLEAN, NEW refresh \in BOOLEAN,
         Receive(h, p, use, refresh)
  PROVE  Inv'
  <1>1. PICK x : x = [Idle EXCEPT !.pc = IF ~use THEN "build only" ELSE IF refresh THEN "build"
                                         ELSE "lookup",
                                  !.of = content[p], !.named = p]
    OBVIOUS
  <1>2. /\ handler' = [handler EXCEPT ![h] = x]
        /\ handler[h].pc # "put"
        /\ UNCHANGED <<content, cached, version, spoiled, restarts>>
    BY <1>1 DEF Receive, bounds
  <1>3. content[p] \in Workflow  BY DEF Inv, Types
  <1>4. <<>> \in Seq(Piece)  OBVIOUS
  <1>5. /\ x \in HandlerType /\ x.pc \in {"build only", "build", "lookup"}
        /\ x.of = content[p] /\ x.named = p /\ x.at = 0 /\ x.seen = <<>> /\ x.hit = "no"
    BY <1>1, <1>3, <1>4 DEF Idle, HandlerType, Place
  <1>6. Fine(x) /\ InOrder(x)  BY <1>3, <1>5 DEF Fine, InOrder
  <1> QED  BY <1>2, <1>5, <1>6, PlainStep

(* A handler that goes on to build, or gives up before a put.              *)
LEMMA GoesInv ==
  ASSUME Inv, NEW h \in Handler, NEW from, NEW to \in {"build", "refused"},
         Goes(h, from, to), from \in {"lookup", "build"},
         UNCHANGED <<content, cached, version, spoiled, restarts>>
  PROVE  Inv'
  <1>1. PICK x : x = [handler[h] EXCEPT !.pc = to]  OBVIOUS
  <1>2. handler[h] \in HandlerType /\ handler[h].pc = from /\ Fine(handler[h])
    BY DEF Inv, Types, Goes, Busy
  <1>3. handler' = [handler EXCEPT ![h] = x]  BY <1>1 DEF Goes
  <1>4. /\ x \in HandlerType /\ x.pc = to
        /\ x.of = handler[h].of /\ x.named = handler[h].named /\ x.at = handler[h].at
        /\ x.seen = handler[h].seen /\ x.hit = handler[h].hit
    BY <1>1, <1>2 DEF HandlerType, Place
  <1>5. Fine(x) /\ InOrder(x)  BY <1>2, <1>4 DEF Fine, InOrder
  <1> QED  BY <1>2, <1>3, <1>4, <1>5, PlainStep

LEMMA LookupOpenInv == ASSUME Inv, NEW h \in Handler, LookupOpen(h) PROVE Inv'
  <1>1. PICK w : w = handler[h].of  OBVIOUS
  <1>2. PICK lonely \in BOOLEAN : lonely <=> Putting(w) = {} /\ w \notin spoiled  OBVIOUS
  <1>3. PICK x : x = [handler[h] EXCEPT !.pc = "reading", !.alone = lonely]  OBVIOUS
  <1>4. (Putting(w) = {} /\ w \notin spoiled) = lonely  BY <1>2
  <1>5. /\ handler[h].pc = "lookup" /\ cached[w] # None
        /\ handler' = [handler EXCEPT ![h] = x]
        /\ UNCHANGED <<content, cached, version, spoiled, restarts>>
    BY <1>1, <1>3, <1>4 DEF LookupOpen, FileOf, bounds
  <1>6. handler[h] \in HandlerType /\ Fine(handler[h])  BY DEF Inv, Types, Busy
  <1>7. w \in Workflow /\ PureFile(w) /\ handler[h].seen = <<>> /\ handler[h].hit = "no"
    BY <1>1, <1>5, <1>6 DEF Fine, Inv, Pure
  <1>8. /\ x \in HandlerType /\ x.pc = "reading" /\ x.of = w /\ x.named = handler[h].named
        /\ x.seen = <<>> /\ x.hit = "no" /\ x.alone = lonely
    BY <1>1, <1>3, <1>6, <1>7 DEF HandlerType, Place
  <1>9. Fine(x)  BY <1>5, <1>6, <1>7, <1>8 DEF Fine, PurePieces
  <1>10. InOrder(x)
    <2>1. Len(<<>>) = 0 /\ Len(cached[w]) \in Nat  BY <1>7 DEF PureFile
    <2>2. lonely => Readable(cached[w])  BY <1>2, <1>5, <1>7 DEF Inv, Sound
    <2> QED  BY <1>2, <1>8, <2>1, <2>2 DEF InOrder
  <1> QED  BY <1>5, <1>8, <1>9, <1>10, PlainStep

LEMMA ReadInv == ASSUME Inv, NEW h \in Handler, Read(h) PROVE Inv'
  <1>1. PICK w : w = handler[h].of  OBVIOUS
  <1>2. PICK seen : seen = handler[h].seen  OBVIOUS
  <1>3. PICK f : f = cached[w]  OBVIOUS
  <1>4. PICK more : more = Append(seen, f[Len(seen) + 1])  OBVIOUS
  <1>5. PICK x : x = [handler[h] EXCEPT !.seen = more]  OBVIOUS
  <1>6. /\ handler[h].pc = "reading" /\ ~(Len(seen) >= Len(f))
        /\ handler' = [handler EXCEPT ![h] = x]
        /\ UNCHANGED <<content, cached, version, spoiled, restarts>>
    BY <1>1, <1>2, <1>3, <1>4, <1>5 DEF Read, AtEnd, FileOf, bounds
  <1>7. handler[h] \in HandlerType /\ Fine(handler[h]) /\ InOrder(handler[h])
    BY DEF Inv, Types, Busy, Reads
  <1>8. /\ w \in Workflow /\ f \in Seq(Piece) /\ PurePieces(f, w)
        /\ seen \in Seq(Piece) /\ PurePieces(seen, w) /\ handler[h].hit = "no"
    BY <1>1, <1>2, <1>3, <1>6, <1>7 DEF Fine, PureFile, HandlerType
  <1>9. Len(seen) \in Nat /\ Len(f) \in Nat /\ Len(seen) + 1 \in DOMAIN f  BY <1>6, <1>8
  <1>10. f[Len(seen) + 1] \in Piece  BY <1>8, <1>9
  <1>11. /\ more \in Seq(Piece) /\ Len(more) = Len(seen) + 1
         /\ \A i \in 1..Len(more) : more[i] = IF i <= Len(seen) THEN seen[i] ELSE f[i]
    <2>1. PICK q \in Piece : q = f[Len(seen) + 1]  BY <1>10
    <2>2. more = Append(seen, q)  BY <1>4, <2>1
    <2>3. more \in Seq(Piece) /\ Len(more) = Len(seen) + 1  BY <1>8, <2>2
    <2>4. ASSUME NEW i \in 1..Len(more) PROVE more[i] = IF i <= Len(seen) THEN seen[i] ELSE f[i]
      <3>1. i \in Nat /\ i <= Len(seen) + 1 /\ 1 <= i  BY <2>3, <1>9
      <3>2. CASE i <= Len(seen)
        <4>1. i \in 1..Len(seen)  BY <3>1, <3>2, <1>9
        <4> QED  BY <1>8, <2>2, <3>2, <4>1
      <3>3. CASE ~(i <= Len(seen))
        <4>1. i = Len(seen) + 1  BY <3>1, <3>3, <1>9
        <4>2. more[Len(seen) + 1] = q  BY <1>8, <2>2
        <4> QED  BY <2>1, <3>3, <4>1, <4>2
      <3> QED  BY <3>2, <3>3
    <2> QED  BY <2>3, <2>4
  <1>12. PurePieces(more, w)
    <2> SUFFICES ASSUME NEW i \in DOMAIN more
                 PROVE  more[i] = Hole \/ (more[i][1] \in Manifest /\ more[i][1].of = w)
      BY DEF PurePieces
    <2>1. i \in 1..Len(more)  BY <1>11
    <2>2. CASE i <= Len(seen)
      <3>1. i \in DOMAIN seen  BY <1>8, <2>1, <2>2
      <3> QED  BY <1>8, <1>11, <2>1, <2>2, <3>1 DEF PurePieces
    <2>3. CASE ~(i <= Len(seen))
      <3>1. i \in DOMAIN f  BY <1>8, <1>9, <1>11, <2>1, <2>3
      <3> QED  BY <1>8, <1>11, <2>1, <2>3, <3>1 DEF PurePieces
    <2> QED  BY <2>2, <2>3
  <1>13. /\ x \in HandlerType /\ x.pc = "reading" /\ x.of = w /\ x.named = handler[h].named
         /\ x.seen = more /\ x.hit = "no" /\ x.alone = handler[h].alone
    BY <1>1, <1>5, <1>6, <1>7, <1>8, <1>11 DEF HandlerType
  <1>14. Fine(x)
    BY <1>1, <1>6, <1>7, <1>12, <1>13 DEF Fine
  <1>15. InOrder(x)
    <2> SUFFICES ASSUME x.alone PROVE InOrder(x)  BY DEF InOrder
    <2>1. /\ Putting(w) = {} /\ w \notin spoiled /\ Readable(f)
          /\ \A i \in 1..Len(seen) : seen[i] = f[i]
      BY <1>1, <1>2, <1>3, <1>6, <1>7, <1>13 DEF InOrder
    <2>2. Len(more) <= Len(f)  BY <1>6, <1>9, <1>11
    <2>3. \A i \in 1..Len(more) : more[i] = f[i]  BY <1>9, <1>11, <2>1
    <2> QED  BY <1>3, <1>13, <2>1, <2>2, <2>3 DEF InOrder
  <1> QED  BY <1>6, <1>13, <1>14, <1>15, PlainStep

(* What an undisturbed reader has read to the end is one manifest, whole.  *)
LEMMA UndisturbedIsReadable ==
  ASSUME Inv, NEW h \in Handler, handler[h].pc = "reading", handler[h].alone, AtEnd(h)
  PROVE  Readable(handler[h].seen)
  <1>1. PICK w : w = handler[h].of  OBVIOUS
  <1>2. PICK seen : seen = handler[h].seen  OBVIOUS
  <1>3. PICK f : f = cached[w]  OBVIOUS
  <1>4. handler[h] \in HandlerType /\ Fine(handler[h]) /\ InOrder(handler[h])
    BY DEF Inv, Types, Busy, Reads
  <1>5. w \in Workflow /\ f \in Seq(Piece) /\ seen \in Seq(Piece)
    BY <1>1, <1>2, <1>3, <1>4 DEF Fine, PureFile, HandlerType
  <1>6. /\ Readable(f) /\ Len(seen) <= Len(f)
        /\ \A i \in 1..Len(seen) : seen[i] = f[i]
    BY <1>1, <1>2, <1>3, <1>4 DEF InOrder
  <1>7. Len(seen) >= Len(f)  BY <1>1, <1>2, <1>3 DEF AtEnd, FileOf
  <1>8. seen = f
    <2>1. Len(seen) = Len(f)  BY <1>5, <1>6, <1>7
    <2> QED  BY <1>5, <1>6, <2>1, SeqEqual
  <1> QED  BY <1>2, <1>6, <1>8

LEMMA LookupHitInv == ASSUME Inv, NEW h \in Handler, LookupHit(h) PROVE Inv'
  <1>1. PICK seen : seen = handler[h].seen  OBVIOUS
  <1>2. PICK m : m = seen[1][1]  OBVIOUS
  <1>3. PICK hit : hit = IF Readable(seen) THEN "whole" ELSE "pieced"  OBVIOUS
  <1>4. PICK x : x = [handler[h] EXCEPT !.pc = "answered", !.answer = m, !.hit = hit]  OBVIOUS
  <1>5. /\ handler[h].pc = "reading" /\ AtEnd(h) /\ (Readable(seen) \/ Pieced(seen))
        /\ handler' = [handler EXCEPT ![h] = x]
        /\ UNCHANGED <<content, cached, version, spoiled, restarts>>
    BY <1>1, <1>2, <1>3, <1>4 DEF LookupHit, bounds
  <1>6. handler[h] \in HandlerType /\ Fine(handler[h])  BY DEF Inv, Types, Busy
  <1>7. seen \in Seq(Piece) /\ PurePieces(seen, handler[h].of)
    BY <1>1, <1>5, <1>6 DEF Fine, HandlerType
  <1>8. 1 \in DOMAIN seen /\ seen[1] # Hole
    <2>1. CASE Readable(seen)  BY <1>7, <2>1 DEF Readable
    <2>2. CASE Pieced(seen)  BY <1>7, <2>2 DEF Pieced
    <2> QED  BY <1>5, <2>1, <2>2
  <1>9. m \in Manifest /\ m.of = handler[h].of  BY <1>2, <1>7, <1>8 DEF PurePieces
  <1>10. hit \in {"whole", "pieced"} /\ (hit = "pieced" => ~handler[h].alone)
    BY <1>1, <1>3, <1>5, UndisturbedIsReadable
  <1>11. /\ x \in HandlerType /\ x.pc = "answered" /\ x.hit = hit /\ x.answer = m
         /\ x.of = handler[h].of /\ x.named = handler[h].named /\ x.alone = handler[h].alone
    BY <1>4, <1>6, <1>9, <1>10 DEF HandlerType, Place
  <1>12. Fine(x) /\ InOrder(x)  BY <1>5, <1>6, <1>9, <1>10, <1>11 DEF Fine, InOrder
  <1> QED  BY <1>5, <1>11, <1>12, PlainStep

LEMMA LookupBrokenInv == ASSUME Inv, NEW h \in Handler, LookupBroken(h) PROVE Inv'
  <1>1. PICK x : x = [handler[h] EXCEPT !.pc = "unreadable"]  OBVIOUS
  <1>2. /\ handler[h].pc = "reading" /\ AtEnd(h) /\ ~Readable(handler[h].seen)
        /\ handler' = [handler EXCEPT ![h] = x]
        /\ UNCHANGED <<content, cached, version, spoiled, restarts>>
    BY <1>1 DEF LookupBroken, Goes, bounds
  <1>3. handler[h] \in HandlerType /\ Fine(handler[h])  BY DEF Inv, Types, Busy
  <1>4. ~handler[h].alone  BY <1>2, <1>3, UndisturbedIsReadable DEF HandlerType
  <1>5. /\ x \in HandlerType /\ x.pc = "unreadable" /\ x.hit = handler[h].hit
        /\ x.of = handler[h].of /\ x.named = handler[h].named /\ x.alone = handler[h].alone
    BY <1>1, <1>3 DEF HandlerType, Place
  <1>6. Fine(x) /\ InOrder(x)  BY <1>2, <1>3, <1>4, <1>5 DEF Fine, InOrder
  <1> QED  BY <1>2, <1>5, <1>6, PlainStep

LEMMA BuildOnlyInv == ASSUME Inv, NEW h \in Handler, BuildOnly(h) PROVE Inv'
  <1>1. PICK m : m = Built(h)  OBVIOUS
  <1>2. PICK x : x = [handler[h] EXCEPT !.pc = "answered", !.answer = m]  OBVIOUS
  <1>3. /\ handler[h].pc = "build only"
        /\ handler' = [handler EXCEPT ![h] = x]
        /\ UNCHANGED <<content, cached, version, spoiled, restarts>>
    BY <1>1, <1>2 DEF BuildOnly, bounds
  <1>4. handler[h] \in HandlerType /\ Fine(handler[h])  BY DEF Inv, Types, Busy
  <1>5. m \in Manifest  BY <1>1, <1>3, BuiltType
  <1>6. m.of = handler[h].of /\ m.named = handler[h].named /\ m.version = version
    BY <1>1 DEF Built
  <1>7. /\ x \in HandlerType /\ x.pc = "answered" /\ x.answer = m /\ x.hit = handler[h].hit
        /\ x.of = handler[h].of /\ x.named = handler[h].named
    BY <1>2, <1>4, <1>5 DEF HandlerType, Place
  <1>8. Fine(x) /\ InOrder(x)  BY <1>3, <1>4, <1>5, <1>6, <1>7 DEF Fine, InOrder
  <1> QED  BY <1>3, <1>7, <1>8, PlainStep

-----------------------------------------------------------------------------
(* The puts.                                                               *)
LEMMA NoPieces == ASSUME NEW m PROVE Prefix(m, 0) = <<>>
  BY DEF Prefix

(* The handlers that put, and what they put, but for one.                  *)
LEMMA PutsFrame ==
  ASSUME Inv, NEW h \in Handler, NEW k \in Handler, k # h,
         \A j \in Handler : j # h =>
           /\ handler'[j].pc = handler[j].pc /\ handler'[j].of = handler[j].of
           /\ handler'[j].named = handler[j].named /\ handler'[j].at = handler[j].at,
         handler'[k].alone = handler[k].alone,
         version' = version,
         handler'[h].pc = "put" => handler'[h].of # handler[k].of,
         handler[k].pc = "put" => cached'[handler[k].of] = cached[handler[k].of],
         handler[k].of \in spoiled => handler[k].of \in spoiled'
  PROVE  Puts(k)'
  <1>1. Puts(k)  BY DEF Inv
  <1>2. Built(k)' = Built(k)  BY DEF Built
  <1>3. CASE handler[k].pc = "put" /\ handler[k].alone
    <2>1. \A j \in Handler : handler'[j].pc = "put" /\ handler'[j].of = handler'[k].of => j = k
      BY <1>1, <1>3 DEF Puts
    <2>2. cached'[handler'[k].of] = Prefix(Built(k)', handler'[k].at)
      BY <1>1, <1>2, <1>3 DEF Puts
    <2> QED  BY <1>3, <2>1, <2>2 DEF Puts
  <1>4. CASE handler[k].pc = "put" /\ ~handler[k].alone
    BY <1>1, <1>4 DEF Puts
  <1>5. CASE handler[k].pc # "put"
    BY <1>5 DEF Puts
  <1> QED  BY <1>3, <1>4, <1>5
LEMMA OpenInv == ASSUME Inv, NEW h \in Handler, Open(h) PROVE Inv'
  <1>1. PICK w : w = handler[h].of  OBVIOUS
  <1>2. PICK others : others = Putting(w)  OBVIOUS
  <1>c. PICK beside : beside = Putting(w) \cup At(w, "reading")  OBVIOUS
  <1>3. PICK x : x = [handler[h] EXCEPT !.pc = "put", !.alone = (others = {})]  OBVIOUS
  <1>4. /\ handler[h].pc = "build" /\ cached' = [cached EXCEPT ![w] = <<>>]
        /\ handler' = [k \in Handler |->
             IF k = h THEN x
             ELSE IF k \in beside THEN [handler[k] EXCEPT !.alone = FALSE]
             ELSE handler[k]]
        /\ spoiled' = IF others = {} THEN spoiled ELSE spoiled \cup {w}
        /\ content' = content /\ version' = version /\ restarts' = restarts
    BY <1>1, <1>2, <1>c, <1>3 DEF Open, bounds
  <1>5. handler[h] \in HandlerType /\ Busy(h) /\ Types  BY DEF Inv, Types
  <1>6. w \in Workflow  BY <1>1, <1>4, <1>5 DEF Busy, Fine
  <1>7. /\ x \in HandlerType /\ x.pc = "put" /\ x.alone = (others = {}) /\ x.at = 0
        /\ x.of = w /\ x.named = handler[h].named /\ x.hit = "no"
    BY <1>1, <1>3, <1>4, <1>5 DEF HandlerType, Place, Busy, Fine
  <1>8. h \notin others /\ others \subseteq beside  BY <1>2, <1>c, <1>4 DEF Putting, At
  <1>9. ASSUME NEW k \in Handler, k # h
        PROVE  /\ handler'[k] \in HandlerType
               /\ handler'[k].pc = handler[k].pc /\ handler'[k].of = handler[k].of
               /\ handler'[k].named = handler[k].named /\ handler'[k].at = handler[k].at
               /\ handler'[k].answer = handler[k].answer /\ handler'[k].hit = handler[k].hit
               /\ handler'[k].seen = handler[k].seen
               /\ k \in beside => ~handler'[k].alone
               /\ k \notin beside => handler'[k] = handler[k]
    <2>1. handler[k] \in HandlerType  BY <1>5 DEF Types
    <2>2. CASE k \in beside
      <3>1. handler'[k] = [handler[k] EXCEPT !.alone = FALSE]  BY <1>4, <1>9, <2>2
      <3> QED  BY <2>1, <2>2, <3>1 DEF HandlerType
    <2>3. CASE k \notin beside
      <3>1. handler'[k] = handler[k]  BY <1>4, <1>9, <2>3
      <3> QED  BY <2>1, <2>3, <3>1
    <2> QED  BY <2>2, <2>3
  <1>10. handler'[h] = x  BY <1>4
  <1>11. Types'
    <2>1. handler' \in [Handler -> HandlerType]
      <3>1. \A k \in Handler : handler'[k] \in HandlerType  BY <1>7, <1>9, <1>10
      <3>2. handler' = [k \in Handler |-> handler'[k]]  BY <1>4
      <3> QED  BY <3>1, <3>2
    <2>2. <<>> \in Seq(Piece)  OBVIOUS
    <2>3. cached' \in [Workflow -> Seq(Piece) \cup {None}]  BY <1>4, <1>5, <2>2 DEF Types
    <2>4. spoiled' \subseteq Workflow  BY <1>4, <1>5, <1>6 DEF Types
    <2> QED  BY <1>4, <1>5, <2>1, <2>3, <2>4 DEF Types
  <1>12. cached'[w] = <<>> /\ \A v \in Workflow : v # w => cached'[v] = cached[v]
    BY <1>4, <1>5, <1>6 DEF Types
  <1>b. PureFile(w)' /\ \A v \in Workflow : PureFile(v) => PureFile(v)'
    <2>1. <<>> \in Seq(Piece) /\ DOMAIN <<>> = {}  OBVIOUS
    <2>2. PureFile(w)'  BY <1>12, <2>1 DEF PureFile, PurePieces
    <2>3. ASSUME NEW v \in Workflow, v # w, PureFile(v) PROVE PureFile(v)'
      BY <1>12, <2>3 DEF PureFile, PurePieces
    <2> QED  BY <2>2, <2>3
  <1>13. ASSUME NEW k \in Handler PROVE Busy(k)'
    <2>1. Busy(k)  BY DEF Inv
    <2>2. CASE k = h
      <3>1. handler[h].named \in Path  BY <1>4, <1>5 DEF Busy, Fine
      <3> QED  BY <1>6, <1>7, <1>10, <1>b, <2>2, <3>1 DEF Busy, Fine
    <2>3. CASE k # h
      <3>1. handler[k].pc \in {"put", "reading"} =>
              handler[k].of \in Workflow /\ PureFile(handler[k].of)'
        BY <1>b, <1>9, <2>1, <2>3 DEF Busy, Fine
      <3>2. CASE k \in beside
        <4>1. ~handler'[k].alone  BY <1>9, <2>3, <3>2
        <4> QED  BY <1>4, <1>9, <2>1, <2>3, <3>1, <4>1 DEF Busy, Fine, PurePieces
      <3>3. CASE k \notin beside
        <4>1. handler'[k] = handler[k]  BY <1>9, <2>3, <3>3
        <4> QED  BY <1>4, <2>1, <3>1, <4>1 DEF Busy, Fine, PurePieces
      <3> QED  BY <3>2, <3>3
    <2> QED  BY <2>2, <2>3
  <1>14. Puts(h)'
    <2>1. CASE others = {}
      <3>1. \A k \in Handler : handler'[k].pc = "put" /\ handler'[k].of = w => k = h
        BY <1>2, <1>9, <2>1 DEF Putting, At
      <3>2. cached'[w] = Prefix(Built(h)', 0)  BY <1>12, NoPieces
      <3> QED  BY <1>7, <1>10, <2>1, <3>1, <3>2 DEF Puts
    <2>2. CASE others # {}
      BY <1>4, <1>7, <1>10, <2>2 DEF Puts
    <2> QED  BY <2>1, <2>2
  <1>15. ASSUME NEW k \in Handler, k # h PROVE Puts(k)'
    <2>1. CASE k \in others
      BY <1>2, <1>4, <1>8, <1>9, <1>15, <2>1 DEF Puts, Putting, At
    <2>2. CASE k \notin others
      <3>1. handler[k].pc = "put" => handler[k].of \in Workflow /\ handler[k].of # w
        BY <1>2, <2>2 DEF Putting, At, Inv, Busy, Fine
      <3>2. CASE handler[k].pc = "put"
        <4>1. k \notin beside  BY <1>c, <3>1, <3>2 DEF Putting, At
        <4>2. handler'[k] = handler[k]  BY <1>9, <1>15, <4>1
        <4> QED  BY <1>4, <1>7, <1>9, <1>10, <1>12, <1>15, <3>1, <3>2, <4>2, PutsFrame
      <3>3. CASE handler[k].pc # "put"  BY <1>9, <1>15, <3>3 DEF Puts
      <3> QED  BY <3>2, <3>3
    <2> QED  BY <2>1, <2>2
  <1>d. ASSUME NEW k \in Handler PROVE Reads(k)'
    <2>1. CASE k = h  BY <1>7, <1>10, <2>1 DEF Reads, InOrder
    <2>2. CASE k # h /\ k \in beside  BY <1>9, <2>2 DEF Reads, InOrder
    <2>3. CASE k # h /\ k \notin beside
      <3>1. handler'[k] = handler[k]  BY <1>9, <2>3
      <3>2. CASE handler[k].pc = "reading"
        <4>1. handler[k].of # w  BY <1>c, <2>3, <3>2 DEF At
        <4>2. handler[k].of \in Workflow  BY <3>2 DEF Inv, Busy, Fine
        <4>3. \A j \in Handler : handler'[j].pc = "put" /\ handler'[j].of = handler[k].of =>
                handler[j].pc = "put" /\ handler[j].of = handler[k].of
          BY <1>7, <1>9, <1>10, <4>1
        <4>4. cached'[handler[k].of] = cached[handler[k].of]  BY <1>12, <4>1, <4>2
        <4>5. handler[k].of \in spoiled' => handler[k].of \in spoiled  BY <1>4, <4>1
        <4> QED  BY <3>1, <4>3, <4>4, <4>5, ReadsFrame
      <3>3. CASE handler[k].pc # "reading"  BY <3>1, <3>3 DEF Reads, InOrder
      <3> QED  BY <3>2, <3>3
    <2> QED  BY <2>1, <2>2, <2>3
  <1>16. ASSUME NEW v \in Workflow PROVE Pure(v)' /\ Sound(v)'
    <2>1. Pure(v) /\ Sound(v)  BY DEF Inv
    <2>2. CASE v = w
      <3>1. h \in Putting(w)'  BY <1>7, <1>10 DEF Putting, At
      <3> QED  BY <1>b, <2>2, <3>1 DEF Pure, Sound
    <2>3. CASE v # w
      <3>1. Putting(v) \subseteq Putting(v)'
        BY <1>4, <1>9 DEF Putting, At
      <3>2. cached'[v] = cached[v] /\ (v \in spoiled => v \in spoiled')
        BY <1>4, <1>12, <2>3
      <3> QED  BY <2>1, <1>b, <3>1, <3>2 DEF Pure, Sound
    <2> QED  BY <2>2, <2>3
  <1> QED  BY <1>11, <1>13, <1>14, <1>15, <1>d, <1>16 DEF Inv

LEMMA FileWritten ==
  ASSUME NEW f \in Seq(Piece), NEW i \in Nat \ {0}, NEW piece \in Piece,
         NEW g, g = Written(f, i, piece)
  PROVE  /\ g \in Seq(Piece)
         /\ \A k \in DOMAIN g : g[k] \in {Hole, piece} \/ (k \in DOMAIN f /\ g[k] = f[k])
  <1>1. PICK n : n = IF i > Len(f) THEN i ELSE Len(f)  OBVIOUS
  <1>2. n \in Nat /\ Len(f) \in Nat  BY <1>1
  <1>3. g = [k \in 1..n |-> IF k = i THEN piece ELSE IF k <= Len(f) THEN f[k] ELSE Hole]
    BY <1>1 DEF Written
  <1>5. Hole \in Piece  BY DEF Hole, Piece
  <1>6. ASSUME NEW k \in 1..n
        PROVE  g[k] \in Piece /\ (g[k] \in {Hole, piece} \/ (k \in DOMAIN f /\ g[k] = f[k]))
    <2>1. g[k] = IF k = i THEN piece ELSE IF k <= Len(f) THEN f[k] ELSE Hole  BY <1>3
    <2>2. CASE k = i  BY <2>1, <2>2
    <2>3. CASE k # i /\ k <= Len(f)
      <3>1. k \in 1..Len(f)  BY <1>2, <2>3
      <3>2. k \in DOMAIN f /\ f[k] \in Piece  BY <3>1
      <3> QED  BY <2>1, <2>3, <3>2
    <2>4. CASE k # i /\ ~(k <= Len(f))  BY <1>5, <2>1, <2>4
    <2> QED  BY <2>2, <2>3, <2>4
  <1>7. g \in [1..n -> Piece] /\ DOMAIN g = 1..n  BY <1>3, <1>6
  <1>8. g \in Seq(Piece)  BY <1>2, <1>7, SeqDef
  <1> QED  BY <1>6, <1>7, <1>8

LEMMA PrefixGrows ==
  ASSUME NEW m, NEW n \in Nat
  PROVE  Written(Prefix(m, n), n + 1, <<m, n + 1>>) = Prefix(m, n + 1)
  <1>1. PICK f : f = Prefix(m, n)  OBVIOUS
  <1>2. Len(f) = n
    BY <1>1 DEF Prefix
  <1>3. (IF n + 1 > Len(f) THEN n + 1 ELSE Len(f)) = n + 1  BY <1>2
  <1>4. Written(f, n + 1, <<m, n + 1>>) =
          [k \in 1..n + 1 |-> IF k = n + 1 THEN <<m, n + 1>> ELSE IF k <= Len(f) THEN f[k] ELSE Hole]
    BY <1>3 DEF Written
  <1>5. ASSUME NEW k \in 1..n + 1
        PROVE  (IF k = n + 1 THEN <<m, n + 1>> ELSE IF k <= Len(f) THEN f[k] ELSE Hole) = <<m, k>>
    <2>1. CASE k = n + 1  BY <2>1
    <2>2. CASE k # n + 1
      <3>1. k \in 1..n /\ k <= Len(f)  BY <1>2, <2>2
      <3>2. f[k] = <<m, k>>  BY <1>1, <3>1 DEF Prefix
      <3> QED  BY <2>2, <3>1, <3>2
    <2> QED  BY <2>1, <2>2
  <1> QED  BY <1>1, <1>4, <1>5 DEF Prefix

LEMMA WriteInv == ASSUME Inv, NEW h \in Handler, Write(h) PROVE Inv'
  <1>1. PICK w : w = handler[h].of  OBVIOUS
  <1>2. PICK m : m = Built(h)  OBVIOUS
  <1>3. PICK n : n = handler[h].at  OBVIOUS
  <1>4. PICK f : f = Written(cached[w], n + 1, <<m, n + 1>>)  OBVIOUS
  <1>5. PICK x : x = [handler[h] EXCEPT !.at = n + 1]  OBVIOUS
  <1>6. /\ handler[h].pc = "put" /\ n + 1 <= Pieces[m]
        /\ cached' = [cached EXCEPT ![w] = f] /\ handler' = [handler EXCEPT ![h] = x]
        /\ content' = content /\ version' = version /\ spoiled' = spoiled /\ restarts' = restarts
    BY <1>1, <1>2, <1>3, <1>4, <1>5 DEF Write, bounds
  <1>7. handler[h] \in HandlerType /\ Busy(h) /\ Puts(h) /\ Types  BY DEF Inv, Types
  <1>8. w \in Workflow /\ PureFile(w) /\ handler[h].named \in Path  BY <1>1, <1>6, <1>7 DEF Busy, Fine
  <1>9. n \in Nat /\ m \in Manifest /\ m.of = w
    BY <1>1, <1>2, <1>3, <1>6, <1>7, BuiltType DEF HandlerType
  <1>10. <<m, n + 1>> \in Piece  BY <1>9 DEF Piece
  <1>11. /\ f \in Seq(Piece)
         /\ \A k \in DOMAIN f : f[k] \in {Hole, <<m, n + 1>>} \/ (k \in DOMAIN cached[w] /\ f[k] = cached[w][k])
    <2>1. n + 1 \in Nat \ {0} /\ cached[w] \in Seq(Piece)  BY <1>8, <1>9 DEF PureFile
    <2>2. PICK i : i = n + 1  OBVIOUS
    <2>3. PICK piece : piece = <<m, n + 1>>  OBVIOUS
    <2>4. PICK old : old = cached[w]  OBVIOUS
    <2>5. f = Written(old, i, piece)  BY <1>4, <2>2, <2>3, <2>4
    <2>6. i \in Nat \ {0} /\ piece \in Piece /\ old \in Seq(Piece)
      BY <1>10, <2>1, <2>2, <2>3, <2>4
    <2>7. /\ f \in Seq(Piece)
          /\ \A k \in DOMAIN f : f[k] \in {Hole, piece} \/ (k \in DOMAIN old /\ f[k] = old[k])
      BY <2>5, <2>6, FileWritten
    <2> QED  BY <2>3, <2>4, <2>7
  <1>12. cached'[w] = f /\ \A v \in Workflow : v # w => cached'[v] = cached[v]
    BY <1>6, <1>7, <1>8 DEF Types
  <1>13. /\ x \in HandlerType /\ x.pc = "put" /\ x.of = w /\ x.named = handler[h].named
         /\ x.at = n + 1 /\ x.alone = handler[h].alone /\ x.hit = "no"
    BY <1>1, <1>5, <1>6, <1>7, <1>9 DEF HandlerType, Busy, Fine
  <1>14. handler'[h] = x /\ \A k \in Handler : k # h => handler'[k] = handler[k]
    BY <1>6, <1>7 DEF Types
  <1>15. Types'
    BY <1>6, <1>7, <1>8, <1>11, <1>13 DEF Types
  <1>16. PureFile(w)' /\ \A v \in Workflow : PureFile(v) => PureFile(v)'
    <2>1. \A k \in DOMAIN f : f[k] = Hole \/ (f[k][1] \in Manifest /\ f[k][1].of = w)
      BY <1>8, <1>9, <1>11 DEF PureFile, PurePieces
    <2>2. PureFile(w)'  BY <1>11, <1>12, <2>1 DEF PureFile, PurePieces
    <2>3. ASSUME NEW v \in Workflow, v # w, PureFile(v) PROVE PureFile(v)'
      BY <1>12, <2>3 DEF PureFile, PurePieces
    <2> QED  BY <2>2, <2>3
  <1>17. ASSUME NEW k \in Handler PROVE Busy(k)'
    <2>1. Busy(k)  BY DEF Inv
    <2>2. CASE k = h
      BY <1>6, <1>8, <1>13, <1>14, <1>16, <2>2 DEF Busy, Fine
    <2>3. CASE k # h
      <3>1. handler[k].pc \in {"put", "reading"} =>
              handler[k].of \in Workflow /\ PureFile(handler[k].of)'
        BY <1>14, <1>16, <2>1, <2>3 DEF Busy, Fine
      <3>2. handler'[k] = handler[k]  BY <1>14, <2>3
      <3> QED  BY <1>6, <2>1, <3>1, <3>2 DEF Busy, Fine, PurePieces
    <2> QED  BY <2>2, <2>3
  <1>18. Puts(h)'
    <2>1. CASE handler[h].alone
      <3>1. cached[w] = Prefix(m, n)
            /\ \A k \in Handler : handler[k].pc = "put" /\ handler[k].of = w => k = h
        BY <1>1, <1>2, <1>3, <1>6, <1>7, <2>1 DEF Puts
      <3>2. cached'[w] = Prefix(m, n + 1)  BY <1>4, <1>9, <1>12, <3>1, PrefixGrows
      <3>3. Built(h)' = m  BY <1>1, <1>2, <1>6, <1>13, <1>14 DEF Built
      <3>4. \A k \in Handler : handler'[k].pc = "put" /\ handler'[k].of = w => k = h
        BY <1>14, <3>1
      <3> QED  BY <1>13, <1>14, <2>1, <3>2, <3>3, <3>4 DEF Puts
    <2>2. CASE ~handler[h].alone
      BY <1>1, <1>6, <1>7, <1>13, <1>14, <2>2 DEF Puts
    <2> QED  BY <2>1, <2>2
  <1>19. ASSUME NEW k \in Handler, k # h PROVE Puts(k)'
    <2>1. Puts(k) /\ Busy(k)  BY DEF Inv
    <2>2. CASE handler[k].pc = "put" /\ handler[k].of = w
      <3>1. ~handler[k].alone  BY <1>1, <1>6, <1>19, <2>1, <2>2 DEF Puts
      <3> QED  BY <1>6, <1>14, <1>19, <2>1, <2>2, <3>1 DEF Puts
    <2>3. CASE handler[k].pc = "put" /\ handler[k].of # w
      <3>1. handler[k].of \in Workflow  BY <2>1, <2>3 DEF Busy, Fine
      <3> QED  BY <1>6, <1>12, <1>13, <1>14, <1>19, <2>3, <3>1, PutsFrame
    <2>4. CASE handler[k].pc # "put"  BY <1>14, <1>19, <2>4 DEF Puts
    <2> QED  BY <2>2, <2>3, <2>4
  <1>a. h \in Putting(w)  BY <1>1, <1>6 DEF Putting, At
  <1>b. ASSUME NEW k \in Handler PROVE Reads(k)'
    <2>1. CASE k = h  BY <1>13, <1>14, <2>1 DEF Reads, InOrder
    <2>2. CASE k # h /\ handler[k].pc = "reading"
      <3>1. handler'[k] = handler[k] /\ handler[k].of \in Workflow
        BY <1>14, <2>2 DEF Inv, Busy, Fine
      <3>2. cached'[handler[k].of] = cached[handler[k].of] \/ Putting(handler[k].of) # {}
        BY <1>12, <1>a, <3>1
      <3>3. \A j \in Handler : handler'[j].pc = handler[j].pc /\ handler'[j].of = handler[j].of
        BY <1>1, <1>6, <1>13, <1>14
      <3> QED  BY <1>6, <3>1, <3>2, <3>3, ReadsFrame
    <2>3. CASE k # h /\ handler[k].pc # "reading"  BY <1>14, <2>3 DEF Reads, InOrder
    <2> QED  BY <2>1, <2>2, <2>3
  <1>20. ASSUME NEW v \in Workflow PROVE Pure(v)' /\ Sound(v)'
    <2>1. Pure(v) /\ Sound(v)  BY DEF Inv
    <2>2. CASE v = w
      <3>1. h \in Putting(w)'  BY <1>13, <1>14 DEF Putting, At
      <3> QED  BY <1>16, <2>2, <3>1 DEF Pure, Sound
    <2>3. CASE v # w
      <3>1. ASSUME NEW k \in Putting(v) PROVE k \in Putting(v)'
        BY <1>13, <1>14, <1>6, <1>1, <2>3, <3>1 DEF Putting, At
      <3>2. cached'[v] = cached[v]  BY <1>12, <2>3
      <3> QED  BY <1>6, <1>16, <2>1, <3>1, <3>2 DEF Pure, Sound
    <2> QED  BY <2>2, <2>3
  <1> QED  BY <1>15, <1>17, <1>18, <1>19, <1>b, <1>20 DEF Inv

(* A put that ends, well or not, leaves the file to the others.            *)
LEMMA PutEnds ==
  ASSUME Inv, NEW h \in Handler, handler[h].pc = "put",
         NEW x \in HandlerType, handler' = [handler EXCEPT ![h] = x],
         x.pc \in {"answered", "refused"}, x.of = handler[h].of, x.named = handler[h].named,
         x.pc = "answered" =>
           /\ x.answer \in Manifest /\ x.answer.of = x.of
           /\ x.answer.named = x.named /\ x.answer.version = version,
         x.hit = handler[h].hit,
         UNCHANGED <<content, cached, version, restarts>>,
         spoiled' \subseteq Workflow, spoiled' \subseteq spoiled \cup {handler[h].of},
         spoiled \ {handler[h].of} \subseteq spoiled',
         ~handler[h].alone => handler[h].of \in spoiled',
         handler[h].of \in spoiled' \/ Readable(cached[handler[h].of])
  PROVE  Inv'
  <1>1. PICK w : w = handler[h].of  OBVIOUS
  <1>2. /\ content' = content /\ cached' = cached /\ version' = version /\ restarts' = restarts
    OBVIOUS
  <1>3. handler \in [Handler -> HandlerType] /\ Busy(h) /\ Puts(h) /\ Types  BY DEF Inv, Types
  <1>4. w \in Workflow /\ handler[h].named \in Path  BY <1>1, <1>3 DEF Busy, Fine
  <1>5. /\ handler' \in [Handler -> HandlerType] /\ handler'[h] = x
        /\ \A k \in Handler : k # h => handler'[k] = handler[k]
    BY <1>3
  <1>6. Types'  BY <1>2, <1>3, <1>5 DEF Types
  <1>a. handler[h].hit = "no"  BY <1>3 DEF Busy, Fine, HandlerType
  <1>7. ASSUME NEW k \in Handler PROVE Busy(k)' /\ Puts(k)'
    <2>1. Busy(k) /\ Puts(k)  BY DEF Inv
    <2>2. CASE k = h  BY <1>1, <1>2, <1>3, <1>4, <1>5, <1>a, <2>2 DEF Busy, Fine, Puts
    <2>3. CASE k # h
      <3>1. handler'[k] = handler[k]  BY <1>5, <2>3
      <3>2. Busy(k)'  BY <1>2, <2>1, <3>1 DEF Busy, Fine, PureFile, PurePieces
      <3>3. CASE handler[k].pc = "put" /\ handler[k].of = w
        <4>1. ~handler[k].alone  BY <1>1, <2>1, <2>3, <3>3 DEF Puts
        <4>2. ~handler[h].alone  BY <1>1, <1>3, <2>3, <3>3 DEF Puts
        <4> QED  BY <1>1, <3>1, <3>2, <3>3, <4>1, <4>2 DEF Puts
      <3>4. CASE handler[k].pc = "put" /\ handler[k].of # w
        <4>1. handler[k].of \in spoiled => handler[k].of \in spoiled'  BY <1>1, <3>4
        <4>2. Puts(k)'  BY <1>2, <1>5, <2>3, <3>1, <3>4, <4>1, PutsFrame
        <4> QED  BY <3>2, <4>2
      <3>5. CASE handler[k].pc # "put"  BY <3>1, <3>2, <3>5 DEF Puts
      <3> QED  BY <3>3, <3>4, <3>5
    <2> QED  BY <2>2, <2>3
  <1>b. h \in Putting(w)  BY <1>1 DEF Putting, At
  <1>c. ASSUME NEW k \in Handler PROVE Reads(k)'
    <2>1. CASE k = h  BY <1>5, <2>1 DEF Reads, InOrder
    <2>2. CASE k # h
      <3>1. handler'[k] = handler[k]  BY <1>5, <2>2
      <3>2. \A j \in Handler : handler'[j].pc = "put" => handler'[j] = handler[j]  BY <1>5
      <3>3. handler[k].of \in spoiled' => handler[k].of \in spoiled \/ Putting(handler[k].of) # {}
        BY <1>1, <1>b
      <3> QED  BY <1>2, <3>1, <3>2, <3>3, ReadsFrame
    <2> QED  BY <2>1, <2>2
  <1>8. ASSUME NEW v \in Workflow PROVE Pure(v)' /\ Sound(v)'
    <2>1. Pure(v) /\ Sound(v)  BY DEF Inv
    <2>2. Pure(v)'  BY <1>2, <2>1 DEF Pure, PureFile, PurePieces
    <2>3. CASE v = w  BY <1>1, <1>2, <2>2, <2>3 DEF Sound
    <2>4. CASE v # w
      <3>1. ASSUME NEW k \in Putting(v) PROVE k \in Putting(v)'
        BY <1>1, <1>5, <2>4, <3>1 DEF Putting, At
      <3>2. v \in spoiled => v \in spoiled'  BY <1>1, <2>4
      <3> QED  BY <1>2, <2>1, <2>2, <3>1, <3>2 DEF Sound
    <2> QED  BY <2>3, <2>4
  <1> QED  BY <1>6, <1>7, <1>c, <1>8 DEF Inv

LEMMA WholeIsReadable ==
  ASSUME NEW m \in Manifest
  PROVE  Readable(Prefix(m, Pieces[m]))
  <1>1. PICK n : n = Pieces[m]  OBVIOUS
  <1>2. n \in Nat \ {0}  BY <1>1, PiecesAssumption
  <1>3. PICK f : f = Prefix(m, n)  OBVIOUS
  <1>4. DOMAIN f = 1..n /\ 1 \in DOMAIN f /\ f[1] = <<m, 1>>  BY <1>2, <1>3 DEF Prefix
  <1>5. f # <<>>
    <2>1. DOMAIN <<>> = {}  OBVIOUS
    <2>2. DOMAIN f # {}  BY <1>4
    <2> QED  BY <2>1, <2>2, Zenon
  <1>6. f[1] # Hole /\ f[1][1] = m  BY <1>4 DEF Hole
  <1>7. f = Whole(m)  BY <1>1, <1>3 DEF Prefix, Whole
  <1> QED  BY <1>1, <1>3, <1>5, <1>6, <1>7 DEF Readable

LEMMA CloseInv == ASSUME Inv, NEW h \in Handler, Close(h) PROVE Inv'
  <1>1. PICK m : m = Built(h)  OBVIOUS
  <1>2. PICK x : x = [handler[h] EXCEPT !.pc = "answered", !.answer = m]  OBVIOUS
  <1>3. /\ handler[h].pc = "put" /\ handler[h].at = Pieces[m]
        /\ handler' = [handler EXCEPT ![h] = x]
        /\ UNCHANGED <<content, cached, version, restarts>>
        /\ spoiled' = IF handler[h].alone THEN spoiled \ {handler[h].of} ELSE spoiled
    BY <1>1, <1>2 DEF Close, bounds
  <1>4. handler[h] \in HandlerType /\ Puts(h) /\ Types  BY DEF Inv, Types
  <1>5. /\ m \in Manifest /\ m.of = handler[h].of /\ m.named = handler[h].named
        /\ m.version = version
    BY <1>1, <1>3, BuiltType DEF Built
  <1>6. /\ x \in HandlerType /\ x.pc = "answered" /\ x.answer = m
        /\ x.of = handler[h].of /\ x.named = handler[h].named /\ x.hit = handler[h].hit
    BY <1>2, <1>4, <1>5 DEF HandlerType, Place
  <1>7. CASE handler[h].alone
    <2>1. cached[handler[h].of] = Prefix(m, Pieces[m])
      BY <1>1, <1>3, <1>4, <1>5, <1>7 DEF Puts
    <2>2. Readable(cached[handler[h].of])  BY <1>5, <2>1, WholeIsReadable
    <2>3. spoiled' = spoiled \ {handler[h].of} /\ spoiled' \subseteq Workflow
      BY <1>3, <1>4, <1>7 DEF Types
    <2> QED  BY <1>3, <1>5, <1>6, <1>7, <2>2, <2>3, PutEnds
  <1>8. CASE ~handler[h].alone
    <2>1. handler[h].of \in spoiled  BY <1>3, <1>4, <1>8 DEF Puts
    <2>2. spoiled' = spoiled /\ spoiled \subseteq Workflow  BY <1>3, <1>4, <1>8 DEF Types
    <2> QED  BY <1>3, <1>5, <1>6, <2>1, <2>2, PutEnds
  <1> QED  BY <1>7, <1>8

LEMMA PutFailsInv == ASSUME Inv, NEW h \in Handler, PutFails(h) PROVE Inv'
  <1>1. PICK x : x = [handler[h] EXCEPT !.pc = "refused"]  OBVIOUS
  <1>2. /\ handler[h].pc = "put"
        /\ handler' = [handler EXCEPT ![h] = x]
        /\ UNCHANGED <<content, cached, version, restarts>>
        /\ spoiled' = spoiled \cup {handler[h].of}
    BY <1>1 DEF PutFails, Goes
  <1>3. handler[h] \in HandlerType /\ Busy(h) /\ Types  BY DEF Inv, Types
  <1>4. /\ x \in HandlerType /\ x.pc = "refused"
        /\ x.of = handler[h].of /\ x.named = handler[h].named /\ x.hit = handler[h].hit
    BY <1>1, <1>3 DEF HandlerType, Place
  <1>5. spoiled' \subseteq Workflow  BY <1>2, <1>3 DEF Busy, Fine, Types
  <1> QED  BY <1>2, <1>4, <1>5, PutEnds

-----------------------------------------------------------------------------
LEMMA IdleType == Idle \in HandlerType /\ Idle.pc = "idle" /\ Idle.hit = "no"
  <1>1. <<>> \in Seq(Piece)  OBVIOUS
  <1> QED  BY <1>1 DEF Idle, HandlerType, Place

LEMMA RestartInv == ASSUME Inv, Restart PROVE Inv'
  <1>1. /\ handler' = [h \in Handler |-> Idle] /\ cached' = cached /\ content' = content
        /\ restarts < MaxRestarts /\ restarts' = restarts + 1
        /\ version' \in {version, version + 1}
        /\ spoiled' = spoiled \cup {w \in Workflow : Putting(w) # {}}
    BY DEF Restart
  <1>2. Types  BY DEF Inv
  <1>3. Types'
    <2>1. version' \in 0..restarts' /\ restarts' \in 0..MaxRestarts
      BY <1>1, <1>2, BoundAssumption DEF Types
    <2> QED  BY <1>1, <1>2, <2>1, IdleType DEF Types
  <1>4. ASSUME NEW h \in Handler PROVE Busy(h)' /\ Puts(h)' /\ Reads(h)'
    <2>1. handler'[h].pc = "idle" /\ handler'[h].hit = "no"  BY <1>1, IdleType
    <2> QED  BY <2>1 DEF Busy, Fine, Puts, Reads, InOrder
  <1>5. ASSUME NEW w \in Workflow PROVE Pure(w)' /\ Sound(w)'
    <2>1. Pure(w) /\ Sound(w)  BY DEF Inv
    <2>2. Putting(w) # {} \/ w \in spoiled => w \in spoiled'  BY <1>1
    <2>3. Pure(w)'  BY <1>1, <2>1 DEF Pure, PureFile, PurePieces
    <2>4. Sound(w)'  BY <1>1, <2>1, <2>2 DEF Sound
    <2> QED  BY <2>3, <2>4
  <1> QED  BY <1>3, <1>4, <1>5 DEF Inv

LEMMA OthersInv ==
  ASSUME Inv, content' \in [Path -> Workflow], UNCHANGED <<cached, version, handler, spoiled, restarts>>
  PROVE  Inv'
  <1>1. cached' = cached /\ version' = version /\ handler' = handler /\ spoiled' = spoiled
        /\ restarts' = restarts
    OBVIOUS
  <1>2. Types'  BY <1>1 DEF Inv, Types
  <1>3. ASSUME NEW h \in Handler PROVE Busy(h)' /\ Puts(h)' /\ Reads(h)'
    <2>1. Busy(h) /\ Puts(h)  BY DEF Inv
    <2>2. Built(h)' = Built(h)  BY <1>1 DEF Built
    <2>3. Busy(h)'  BY <1>1, <2>1 DEF Busy, Fine, PureFile, PurePieces
    <2>4. Puts(h)'  BY <1>1, <2>1, <2>2 DEF Puts
    <2>5. Reads(h)'  BY <1>1, ReadsFrame
    <2> QED  BY <2>3, <2>4, <2>5
  <1>4. ASSUME NEW w \in Workflow PROVE Pure(w)' /\ Sound(w)'
    <2>1. Pure(w) /\ Sound(w)  BY DEF Inv
    <2>2. Putting(w)' = Putting(w)  BY <1>1 DEF Putting, At
    <2>3. Pure(w)'  BY <1>1, <2>1 DEF Pure, PureFile, PurePieces
    <2>4. Sound(w)'  BY <1>1, <2>1, <2>2 DEF Sound
    <2> QED  BY <2>3, <2>4
  <1> QED  BY <1>2, <1>3, <1>4 DEF Inv

LEMMA EditInv ==
  ASSUME Inv, NEW p \in Path, NEW w \in Workflow, Edit(p, w)
  PROVE  Inv'
  <1>1. content' \in [Path -> Workflow]  BY DEF Edit, Inv, Types
  <1>2. UNCHANGED <<cached, version, handler, spoiled, restarts>>  BY DEF Edit
  <1> QED  BY <1>1, <1>2, OthersInv

LEMMA InitInv == Init => Inv
  <1> SUFFICES ASSUME Init PROVE Inv
    OBVIOUS
  <1>1. Types  BY IdleType, BoundAssumption DEF Init, Types
  <1>2. ASSUME NEW h \in Handler PROVE Busy(h) /\ Puts(h) /\ Reads(h)
    <2>1. handler[h].pc = "idle" /\ handler[h].hit = "no"  BY IdleType DEF Init
    <2> QED  BY <2>1 DEF Busy, Fine, Puts, Reads, InOrder
  <1>3. ASSUME NEW w \in Workflow PROVE Pure(w) /\ Sound(w)
    <2>1. cached[w] = None  BY DEF Init
    <2> QED  BY <2>1 DEF Pure, Sound
  <1> QED  BY <1>1, <1>2, <1>3 DEF Inv

LEMMA StepInv == Inv /\ [Next]_vars => Inv'
  <1> SUFFICES ASSUME Inv, [Next]_vars PROVE Inv'
    OBVIOUS
  <1>1. ASSUME NEW h \in Handler, Step(h) PROVE Inv'
    <2>1. ASSUME NEW p \in Path, NEW use \in BOOLEAN, NEW refresh \in BOOLEAN,
                 Receive(h, p, use, refresh)
          PROVE  Inv'
      BY <2>1, ReceiveInv
    <2>2. CASE LookupMiss(h)
      <3>1. Goes(h, "lookup", "build") /\ UNCHANGED <<content, cached, version, spoiled, restarts>>
        BY <2>2 DEF LookupMiss, bounds
      <3> QED  BY <3>1, GoesInv
    <2>3. CASE OpenFails(h)
      <3>1. Goes(h, "build", "refused") /\ UNCHANGED <<content, cached, version, spoiled, restarts>>
        BY <2>3 DEF OpenFails, bounds
      <3> QED  BY <3>1, GoesInv
    <2> QED  BY <1>1, <2>1, <2>2, <2>3, LookupOpenInv, ReadInv, LookupHitInv, LookupBrokenInv,
                BuildOnlyInv, OpenInv, WriteInv, CloseInv,
                PutFailsInv, Zenon DEF Step
  <1>2. CASE UNCHANGED vars
    <2>1. content' \in [Path -> Workflow]  BY <1>2 DEF vars, Inv, Types
    <2>2. UNCHANGED <<cached, version, handler, spoiled, restarts>>  BY <1>2 DEF vars, bounds
    <2> QED  BY <2>1, <2>2, OthersInv
  <1> QED  BY <1>1, <1>2, EditInv, RestartInv, Zenon DEF Next

(* The invariant holds of every behaviour.                                 *)
THEOREM InvHolds == Spec => []Inv
  <1> QED  BY InitInv, StepInv, PTL DEF Spec

(* An answer is about the workflow its handler has read, with the name it  *)
(* was asked for and the registry there is unless the cache has it: for    *)
(* any handlers, names and contents, whatever edits, overlapping or failing *)
(* puts and restarts come in between.                                      *)
THEOREM AnswersFit == Spec => []AnswersFitTheWorkflow
  <1>1. Inv => AnswersFitTheWorkflow
    <2> SUFFICES ASSUME Inv, NEW h \in Handler, handler[h].pc = "answered"
                 PROVE  /\ handler[h].answer.of = handler[h].of
                        /\ handler[h].hit = "no" => handler[h].answer.named = handler[h].named
                                               /\ handler[h].answer.version = version
      BY DEF AnswersFitTheWorkflow
    <2>1. Busy(h)  BY DEF Inv
    <2> QED  BY <2>1 DEF Busy, Fine
  <1> QED  BY <1>1, InvHolds, PTL

(* A cache file that is not one manifest, whole, is being put, or a put of *)
(* it was cut short or overlapped and none has had it for itself since;    *)
(* and a reader that finds such a file in order reads one manifest, whole, *)
(* whatever its length, unless a put begins while it reads.                *)
THEOREM BrokenFilesAreExplained == Spec => []BrokenIsExplained
  <1>1. Inv => BrokenIsExplained  BY DEF Inv, Sound, Busy, Fine, BrokenIsExplained
  <1> QED  BY <1>1, InvHolds, PTL

(* A put that has had the file for itself leaves in it, whole, the very    *)
(* manifest it answers with, whatever was there before: an unreadable file, *)
(* one from another name of the same content, or one of an older registry. *)
PutsPublish ==
  \A h \in Handler :
    handler[h].pc = "put" /\ handler[h].alone /\ handler'[h].pc = "answered" =>
      cached'[handler[h].of] = Whole(handler'[h].answer)

(* What a lonely put answers is what the cache has from then on, for any   *)
(* handlers, edits, failing puts and restarts around it.                   *)
THEOREM LonePutsPublish == Spec => [][PutsPublish]_vars
  <1>1. Inv /\ [Next]_vars => PutsPublish
    <2> SUFFICES ASSUME Inv, [Next]_vars, NEW h \in Handler, handler[h].pc = "put",
                        handler[h].alone, handler'[h].pc = "answered"
                 PROVE  cached'[handler[h].of] = Whole(handler'[h].answer)
      BY DEF PutsPublish
    <2>1. handler \in [Handler -> HandlerType] /\ Puts(h) /\ Busy(h)  BY DEF Inv, Types
    <2>2. handler'[h] # handler[h]  OBVIOUS
    <2>3. ASSUME NEW k \in Handler, Step(k) PROVE Close(h)
      <3>1. CASE Open(k)
        <4>1. handler'[h].pc = "put"  BY <2>1, <3>1 DEF Open, HandlerType
        <4> QED  BY <4>1
      <3>2. CASE ~Open(k)
        <4>1. \A j \in Handler : j # k => handler'[j] = handler[j]
          BY <2>1, <2>3, <3>2
             DEF Step, Receive, LookupMiss, LookupOpen, Read, LookupHit, LookupBroken, BuildOnly,
                 OpenFails, Write, Close, PutFails, Goes
        <4>2. k = h  BY <2>2, <4>1
        <4>3. Write(h) \/ Close(h) \/ PutFails(h)
          BY <2>3, <3>2, <4>2
             DEF Step, Receive, LookupMiss, LookupOpen, Read, LookupHit, LookupBroken, BuildOnly,
                 OpenFails, Goes
        <4>4. ~Write(h)  BY <2>1 DEF Write, HandlerType
        <4>5. ~PutFails(h)  BY <2>1 DEF PutFails, Goes, HandlerType
        <4> QED  BY <4>3, <4>4, <4>5
      <3> QED  BY <3>1, <3>2
    <2>4. ~Restart
      <3>1. Restart => handler'[h] = Idle  BY DEF Restart
      <3> QED  BY <3>1, IdleType
    <2>5. \A p \in Path, w \in Workflow : ~Edit(p, w)  BY <2>2 DEF Edit
    <2>6. Close(h)  BY <2>2, <2>3, <2>4, <2>5 DEF Next, vars
    <2>7. /\ cached' = cached /\ handler'[h].answer = Built(h)
          /\ handler[h].at = Pieces[Built(h)]
      BY <2>1, <2>6 DEF Close, HandlerType
    <2>8. cached[handler[h].of] = Prefix(Built(h), Pieces[Built(h)])
      BY <2>1, <2>7 DEF Puts, Built
    <2> QED  BY <2>7, <2>8 DEF Whole, Prefix
  <1> QED  BY InvHolds, <1>1, PTL DEF Spec

-----------------------------------------------------------------------------
(* The keywords of a capability can be counted.                            *)
LEMMA Few ==
  /\ \A a, b, c : IsFiniteSet({a, b, c})
  /\ \A a, b, c, d : IsFiniteSet({a, b, c, d})
  /\ \A a, b, c, d, e : IsFiniteSet({a, b, c, d, e})
  /\ \A a, b, c, d, e, f, g : IsFiniteSet({a, b, c, d, e, f, g})
  <1>1. ASSUME NEW a, NEW b, NEW c PROVE IsFiniteSet({a, b, c})
    <2>1. IsFiniteSet({a} \cup {b} \cup {c})  BY FS_Singleton, FS_AddElement
    <2>2. {a, b, c} = {a} \cup {b} \cup {c}  OBVIOUS
    <2> QED  BY <2>1, <2>2
  <1>2. ASSUME NEW a, NEW b, NEW c, NEW d PROVE IsFiniteSet({a, b, c, d})
    <2>1. IsFiniteSet({a, b, c} \cup {d})  BY <1>1, FS_AddElement
    <2>2. {a, b, c, d} = {a, b, c} \cup {d}  OBVIOUS
    <2> QED  BY <2>1, <2>2
  <1>3. ASSUME NEW a, NEW b, NEW c, NEW d, NEW e PROVE IsFiniteSet({a, b, c, d, e})
    <2>1. IsFiniteSet({a, b, c, d} \cup {e})  BY <1>2, FS_AddElement
    <2>2. {a, b, c, d, e} = {a, b, c, d} \cup {e}  OBVIOUS
    <2> QED  BY <2>1, <2>2
  <1>4. ASSUME NEW a, NEW b, NEW c, NEW d, NEW e, NEW f, NEW g
        PROVE  IsFiniteSet({a, b, c, d, e, f, g})
    <2>1. IsFiniteSet({a, b, c, d, e} \cup {f} \cup {g})  BY <1>3, FS_AddElement
    <2>2. {a, b, c, d, e, f, g} = {a, b, c, d, e} \cup {f} \cup {g}  OBVIOUS
    <2> QED  BY <2>1, <2>2
  <1> QED  BY <1>1, <1>2, <1>3, <1>4

Countable(c) == IsFiniteSet(default_specs[c].keywords) /\ default_specs[c].keywords # {}

LEMMA KeywordsCountable == \A c \in Name : Countable(c)
  <1>1. Countable("txt2img")  BY Few DEF Countable, default_specs, Row, Experimental
  <1>2. Countable("img2img")  BY Few DEF Countable, default_specs, Row, Experimental
  <1>3. Countable("inpainting")  BY Few DEF Countable, default_specs, Row, Experimental
  <1>4. Countable("sampling")  BY Few DEF Countable, default_specs, Row, Experimental
  <1>5. Countable("prompting")  BY Few DEF Countable, default_specs, Row, Experimental
  <1>6. Countable("latent_source")  BY Few DEF Countable, default_specs, Row, Experimental
  <1>7. Countable("checkpoint_model")  BY Few DEF Countable, default_specs, Row, Experimental
  <1>8. Countable("vae")  BY Few DEF Countable, default_specs, Row, Experimental
  <1>9. Countable("lora")  BY Few DEF Countable, default_specs, Row, Experimental
  <1>10. Countable("controlnet")  BY Few DEF Countable, default_specs, Row, Experimental
  <1>11. Countable("ipadapter")  BY Few DEF Countable, default_specs, Row, Experimental
  <1>12. Countable("upscale")  BY Few DEF Countable, default_specs, Row, Experimental
  <1>13. Countable("hires_fix")  BY Few DEF Countable, default_specs, Row, Experimental
  <1>14. Countable("face_detailer")  BY Few DEF Countable, default_specs, Row, Experimental
  <1>15. Countable("regional_prompt")  BY Few DEF Countable, default_specs, Row, Experimental
  <1>16. Countable("video")  BY Few DEF Countable, default_specs, Row, Experimental
  <1>17. Countable("image_input")  BY Few DEF Countable, default_specs, Row, Experimental
  <1>18. Countable("mask_input")  BY Few DEF Countable, default_specs, Row, Experimental
  <1>19. Countable("image_output")  BY Few DEF Countable, default_specs, Row, Experimental
  <1>20. Countable("flux_pipeline")  BY Few DEF Countable, default_specs, Row, Experimental
  <1>21. Countable("sdxl_pipeline")  BY Few DEF Countable, default_specs, Row, Experimental
  <1> DEFINE Names == {"txt2img", "img2img", "inpainting", "sampling", "prompting", "latent_source", "checkpoint_model", "vae", "lora", "controlnet", "ipadapter", "upscale", "hires_fix", "face_detailer", "regional_prompt", "video", "image_input", "mask_input", "image_output", "flux_pipeline", "sdxl_pipeline"}
  <1>22. Name = Names  BY DEF Name, default_specs
  <1> QED  BY <1>1, <1>2, <1>3, <1>4, <1>5, <1>6, <1>7, <1>8, <1>9, <1>10, <1>11, <1>12, <1>13, <1>14, <1>15, <1>16, <1>17, <1>18, <1>19, <1>20, <1>21, <1>22

(* A set of scores has a greatest one.                                     *)
LEMMA GreatestScore ==
  ASSUME NEW S, S \subseteq 0..100, S # {}
  PROVE  Max(S) \in S /\ \A x \in S : x <= Max(S)
  <1> DEFINE Below == {n \in Nat : n <= 100 /\ 100 - n \in S}
  <1>1. PICK x \in S : TRUE  OBVIOUS
  <1>2. 100 - x \in Below  BY <1>1
  <1>3. Below \subseteq Nat /\ Below # {}  BY <1>2
  <1>4. PICK n \in Below : \A j \in Below : ~ (<<j, n>> \in OpToRel(<, Nat))
    BY <1>3, NatLessThanWellFounded, WFMin
  <1>5. \A j \in Below : ~ (j < n)
    <2>1. OpToRel(<, Nat) = {ss \in Nat \X Nat : ss[1] < ss[2]}  BY DEF OpToRel
    <2> QED  BY <1>4, <2>1
  <1>6. ASSUME NEW y \in S PROVE 100 - n >= y
    <2>1. y \in 0..100 /\ 100 - y \in Nat /\ 100 - (100 - y) = y  OBVIOUS
    <2>2. 100 - y \in Below  BY <2>1
    <2>3. ~(100 - y < n)  BY <1>5, <2>2
    <2>4. n \in Nat  BY <1>3
    <2> QED  BY <2>1, <2>3, <2>4
  <1>7. 100 - n \in S /\ \A y \in S : 100 - n >= y  BY <1>4, <1>6
  <1>8. Max(S) \in S /\ \A y \in S : Max(S) >= y  BY <1>7 DEF Max
  <1> QED  BY <1>8

LEMMA TwoNumbers ==
  ASSUME NEW a \in Int, NEW b \in Int
  PROVE  /\ Max({a, b}) \in {a, b} /\ Max({a, b}) >= a /\ Max({a, b}) >= b
         /\ Min({a, b}) \in {a, b} /\ Min({a, b}) <= a /\ Min({a, b}) <= b
  <1>1. \E x \in {a, b} : \A y \in {a, b} : x >= y  OBVIOUS
  <1>2. \E x \in {a, b} : \A y \in {a, b} : x =< y  OBVIOUS
  <1>3. Max({a, b}) \in {a, b} /\ \A y \in {a, b} : Max({a, b}) >= y  BY <1>1 DEF Max
  <1>4. Min({a, b}) \in {a, b} /\ \A y \in {a, b} : Min({a, b}) =< y  BY <1>2 DEF Min
  <1> QED  BY <1>3, <1>4

LEMMA ScoreRange ==
  ASSUME NEW c \in Name, NEW node
  PROVE  Score(c, node) \in 0..100
  <1> DEFINE keywords == default_specs[c].keywords
             n == Cardinality(keywords)
             k == Cardinality(keywords \cap node)
             enough == Min({3, n})
             share == (100 * k) \div enough
  <1>1. IsFiniteSet(keywords) /\ keywords # {}  BY KeywordsCountable DEF Countable
  <1>2. n \in Nat /\ n # 0  BY <1>1, FS_CardinalityType, FS_EmptySet
  <1>3. k \in Nat  BY <1>1, FS_Subset, FS_CardinalityType
  <1>4. Min({3, n}) \in {3, n}  BY <1>2, TwoNumbers
  <1>5. enough \in Nat \ {0}  BY <1>2, <1>4
  <1> HIDE DEF k, n, enough
  <1>6. 100 * k \in Nat  BY <1>3
  <1>7. share \in Nat
    <2>1. PICK p \in Nat : p = 100 * k  BY <1>6
    <2>2. p \div enough \in Nat  BY <1>5, <2>1
    <2> QED  BY <2>1, <2>2
  <1> HIDE DEF share
  <1>8. Min({100, share}) \in {100, share} /\ Min({100, share}) <= 100
    BY <1>7, TwoNumbers
  <1>9. Score(c, node) = Min({100, share})  BY DEF Score, share, enough, k, n
  <1> QED  BY <1>7, <1>8, <1>9

(* What is found is at least as sure as 78 of 100.                         *)
LEMMA BestRange ==
  ASSUME NEW c \in Name, NEW nodes, nodes # {}
  PROVE  Best(nodes, c) \in Int /\ Best(nodes, c) >= 78
  <1> DEFINE scores == {Score(c, n) : n \in nodes}
             score == Max(scores)
  <1>1. scores \subseteq 0..100 /\ scores # {}  BY ScoreRange
  <1>2. score \in 0..100  BY <1>1, GreatestScore
  <1> HIDE DEF scores, score
  <1>3. Max({78, score}) \in {78, score} /\ Max({78, score}) >= 78  BY <1>2, TwoNumbers
  <1>4. Best(nodes, c) = IF score > 0 THEN Max({78, score}) ELSE IF c = "txt2img" THEN 92 ELSE 85
    BY DEF Best, score, scores
  <1> QED  BY <1>2, <1>3, <1>4

LEMMA DetectedGrows ==
  ASSUME NEW fewer, NEW more, fewer \subseteq more
  PROVE  Detected(fewer) \subseteq Detected(more)
  <1>1. Matched(fewer) \subseteq Matched(more)  BY DEF Matched, Providers
  <1> QED  BY <1>1 DEF Detected, Inferred

LEMMA Detections ==
  ASSUME NEW nodes, NEW caps, caps = detect_capabilities(nodes)
  PROVE  /\ DOMAIN caps = Detected(nodes)
         /\ ReadyIn(caps) = {c \in Detected(nodes) : Missing(c, Detected(nodes)) = {}}
         /\ \A c \in Detected(nodes) :
              caps[c].confidence = Confidence(nodes, c, Detected(nodes))
  <1> DEFINE detected == Detected(nodes)
  <1> HIDE DEF detected
  <1>1. caps = [c \in detected |-> [status |-> Status(c, detected),
                                     confidence |-> Confidence(nodes, c, detected)]]
    BY DEF detect_capabilities, detected
  <1>2. \A c \in detected : Status(c, detected) # "missing_dependency" <=> Missing(c, detected) = {}
    BY DEF Status
  <1>3. \A c \in detected : /\ caps[c].status = Status(c, detected)
                            /\ caps[c].confidence = Confidence(nodes, c, detected)
    BY <1>1
  <1>4. DOMAIN caps = detected  BY <1>1
  <1>5. ReadyIn(caps) = {c \in detected : Missing(c, detected) = {}}
    BY <1>2, <1>3, <1>4 DEF ReadyIn
  <1> QED  BY <1>3, <1>4, <1>5 DEF detected

(* What waits for a dependency is less sure than anything that is ready.   *)
LEMMA ReadyIsSurer ==
  ASSUME NEW nodes, NEW c \in Detected(nodes), NEW d \in Detected(nodes),
         Missing(c, Detected(nodes)) = {}, Missing(d, Detected(nodes)) # {}
  PROVE  Confidence(nodes, c, Detected(nodes)) > Confidence(nodes, d, Detected(nodes))
  <1>1. c \in Name /\ d \in Name /\ nodes # {}
    <2>1. Detected(nodes) \subseteq Name
      BY DEF Detected, Matched, Inferred, Name, default_specs
    <2>2. nodes = {} => Matched(nodes) = {}  BY DEF Matched, Providers
    <2>3. nodes = {} => Detected(nodes) = {}  BY <2>2 DEF Detected, Inferred
    <2> QED  BY <2>1, <2>3
  <1>2. Best(nodes, c) >= 78 /\ Best(nodes, c) \in Int /\ Best(nodes, d) \in Int
    BY <1>1, BestRange
  <1>3. Min({Best(nodes, d), 55}) \in Int /\ Min({Best(nodes, d), 55}) <= 55
    <2>1. PICK b \in Int : b = Best(nodes, d)  BY <1>2
    <2>2. Min({b, 55}) \in {b, 55} /\ Min({b, 55}) <= 55  BY TwoNumbers
    <2> QED  BY <2>1, <2>2
  <1>4. Confidence(nodes, c, Detected(nodes)) = Best(nodes, c)
    BY DEF Confidence
  <1>5. Confidence(nodes, d, Detected(nodes)) = Min({Best(nodes, d), 55})
    BY DEF Confidence
  <1> QED  BY <1>2, <1>3, <1>4, <1>5

(* Two answers of one registry agree, about any two workflows of which one *)
(* has the nodes of the other: a workflow never loses a capability by a    *)
(* node that is added, and nothing that misses a dependency is as sure as  *)
(* what is ready.                                                          *)
THEOREM AnswersAgree == Spec => []AnswersGrow
  <1>1. Inv => AnswersGrow
    <2> SUFFICES ASSUME Inv, NEW h \in Handler, NEW k \in Handler,
                        handler[h].pc = "answered", handler[k].pc = "answered",
                        NEW m, m = handler[h].answer, NEW n, n = handler[k].answer,
                        NEW less, less = Detection[m.of], NEW more, more = Detection[n.of],
                        Nodes[m.of] \subseteq Nodes[n.of]
                 PROVE  /\ DOMAIN less \subseteq DOMAIN more
                        /\ ReadyIn(less) \subseteq ReadyIn(more)
                        /\ \A c \in ReadyIn(less), d \in (DOMAIN more) \ ReadyIn(more) :
                             more[c].confidence > more[d].confidence
      BY DEF AnswersGrow
    <2>1. m.of \in Workflow /\ n.of \in Workflow  BY DEF Inv, Busy, Fine, Manifest
    <2>2. PICK few, many : few = Nodes[m.of] /\ many = Nodes[n.of]  OBVIOUS
    <2>3. less = detect_capabilities(few) /\ more = detect_capabilities(many)
      BY <2>1, <2>2 DEF Detection
    <2>4. Detected(few) \subseteq Detected(many)  BY <2>2, DetectedGrows
    <2>5. /\ DOMAIN less = Detected(few) /\ DOMAIN more = Detected(many)
          /\ ReadyIn(less) = {c \in Detected(few) : Missing(c, Detected(few)) = {}}
          /\ ReadyIn(more) = {c \in Detected(many) : Missing(c, Detected(many)) = {}}
          /\ \A c \in Detected(many) :
               more[c].confidence = Confidence(many, c, Detected(many))
      BY <2>3, Detections
    <2>7. ReadyIn(less) \subseteq ReadyIn(more)  BY <2>4, <2>5 DEF Missing
    <2>8. ASSUME NEW c \in ReadyIn(less), NEW d \in (DOMAIN more) \ ReadyIn(more)
          PROVE  more[c].confidence > more[d].confidence
      <3>1. /\ c \in Detected(many) /\ d \in Detected(many)
            /\ Missing(c, Detected(many)) = {} /\ Missing(d, Detected(many)) # {}
        BY <2>5, <2>7, <2>8
      <3>2. Confidence(many, c, Detected(many)) > Confidence(many, d, Detected(many))
        BY <3>1, ReadyIsSurer
      <3> QED  BY <2>5, <3>1, <3>2
    <2> QED  BY <2>4, <2>5, <2>7, <2>8
  <1> QED  BY <1>1, InvHolds, PTL
=============================================================================
