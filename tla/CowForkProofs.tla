---------------------------- MODULE CowForkProofs ----------------------------
(***************************************************************************)
(* Proofs about CowFork, for any number of environments, pages and values: *)
(* whoever may be sent to the fault handler has a stack for it, and a page *)
(* somebody still has to copy is written by nobody.                        *)
(*                                                                         *)
(* The invariant follows a page through the two system calls of duppage,   *)
(* between which the parent may still write what its child already takes   *)
(* for a copy; a fault of the parent on its stack may come in between, so  *)
(* the place in fork() is looked for in ret while the handler runs.        *)
(***************************************************************************)
EXTENDS CowFork, TLAPS

Locus(e) == IF pc[e] \in InHandler THEN ret[e] ELSE pc[e]
HasChild == {"dup", "map", "remap", "upcall", "start"}

Cow(p) == pte[p[1]][p[2]] = "cow"
Writes(p) == pte[p[1]][p[2]] = "w"

(* PFTEMP is mapped in the handler only.                                   *)
TempInv ==
  \A e \in Envs : \/ pte[e][PFTEMP] = "none"
                  \/ pte[e][PFTEMP] = "w" /\ pc[e] \in {"pf_copy", "pf_map", "pf_unmap"}

(* The page duppage is about.                                              *)
PageInv ==
  \A e \in Envs :
    /\ Locus(e) \in {"map", "remap"} => Order[vp[e]] \notin {XStack, PFTEMP}
    /\ Locus(e) = "map" => perm[e] \in {"share", "r", "cow"}
    /\ Locus(e) = "remap" \/ (Locus(e) = "map" /\ perm[e] = "cow") =>
         pte[e][Order[vp[e]]] \in {"w", "cow"}
    /\ pc[e] \in InHandler /\ ret[e] # "user" => fva[e] = Stack

ChildInv ==
  /\ \A e \in Envs : Locus(e) \in HasChild => child[e] \in Envs
  /\ \A e \in Envs : child[e] \in Envs => pc[child[e]] = "embryo"
  /\ \A d, e \in Envs : child[d] = child[e] /\ child[d] \in Envs => d = e

(* A page to be copied is written, if at all, by the parent in duppage.    *)
CowInv ==
  \A f \in frames : \A p, q \in f.at :
    Cow(p) /\ Writes(q) =>
      /\ p[2] = q[2] /\ p[1] = child[q[1]]
      /\ Locus(q[1]) = "panic" \/ (Locus(q[1]) = "remap" /\ q[2] = Order[vp[q[1]]])

(* A page has one writer, which may see it at PFTEMP too.                  *)
WriterInv ==
  \A f \in frames : \A p, q \in f.at :
    Writes(p) /\ Writes(q) /\ p # q =>
      p[1] = q[1] /\ pc[p[1]] = "pf_unmap" /\ PFTEMP \in {p[2], q[2]}

HasXStack(e) == pte[e][XStack] = "w" /\ \E f \in frames : f.at = {<<e, XStack>>}

(* fork() has given the child a stack when it has passed XStack.           *)
StackInv ==
  \A e \in Envs :
    /\ upcall[e] => HasXStack(e)
    /\ Locus(e) \in HasChild /\ (Locus(e) \in {"upcall", "start"}
                                   \/ \E i \in 1 .. vp[e] - 1 : Order[i] = XStack)
       => HasXStack(child[e])

(* Read-only pages are never made copy-on-write.                           *)
TextInv == \A e \in Envs, v \in Text : pte[e][v] \in {"none", "r"}

IInv == TypeOK /\ TempInv /\ PageInv /\ ChildInv /\ CowInv /\ WriterInv /\ StackInv
-----------------------------------------------------------------------------
(* What the calls do to the frames and the entries.                        *)

Allocates(d, va) ==
  /\ frames' \subseteq [at : SUBSET Places, val : Values]
  /\ pte' \in [Envs -> [VPages -> Perms]]
  /\ \A g \in frames' : \/ g.at = {<<d, va>>}
                        \/ \E f \in frames : g.at = f.at \ {<<d, va>>}
  /\ \E g \in frames' : g.at = {<<d, va>>}
  /\ \A f \in frames : <<d, va>> \notin f.at /\ f.at # {} =>
       \E g \in frames' : g.at = f.at
  /\ \A a \in Envs, v \in VPages :
       pte'[a][v] = IF a = d /\ v = va THEN "w" ELSE pte[a][v]

Maps(a, va, b, vb, pm) ==
  /\ frames' \subseteq [at : SUBSET Places, val : Values]
  /\ pte' \in [Envs -> [VPages -> Perms]]
  /\ \A g \in frames' : \E f \in frames :
       \/ <<a, va>> \in f.at /\ g.at = f.at \cup {<<b, vb>>}
       \/ <<a, va>> \notin f.at /\ g.at = f.at \ {<<b, vb>>}
  /\ \A f \in frames :
       <<a, va>> \notin f.at /\ <<b, vb>> \notin f.at /\ f.at # {} =>
         \E g \in frames' : g.at = f.at
  /\ \A d \in Envs, v \in VPages :
       pte'[d][v] = IF d = b /\ v = vb THEN pm ELSE pte[d][v]

(* sys_page_alloc takes a place out of every frame and gives it a new one  *)
(* (kern/syscall.c, sys_page_alloc).                                       *)
LEMMA AllocEffect ==
  ASSUME TypeOK, NEW d \in Envs, NEW va \in VPages, sys_page_alloc(d, va)
  PROVE  Allocates(d, va)
<1> DEFINE Left(f) == [f EXCEPT !.at = @ \ {<<d, va>>}]
           new == [at |-> {<<d, va>>}, val |-> Zero]
<1>1. frames \subseteq [at : SUBSET Places, val : Values]
  BY Zenon DEF TypeOK
<1>2. \A f \in frames : /\ Left(f) \in [at : SUBSET Places, val : Values]
                        /\ Left(f).at = f.at \ {<<d, va>>}
  BY <1>1, Zenon
<1>3. new \in [at : SUBSET Places, val : Values] /\ new.at = {<<d, va>>}
  BY LayoutAssumption DEF Places
<1> HIDE DEF Left, new
<1>4. frames' = {g \in {Left(f) : f \in frames} : g.at # {}} \cup {new}
  BY Zenon DEF sys_page_alloc, InUse, Left, new
<1>5. pte' \in [Envs -> [VPages -> Perms]]
  BY Zenon DEF sys_page_alloc, TypeOK, Perms
<1>6. \A a \in Envs, v \in VPages :
        pte'[a][v] = IF a = d /\ v = va THEN "w" ELSE pte[a][v]
  BY Zenon DEF sys_page_alloc, TypeOK
<1>7. \A f \in frames : <<d, va>> \notin f.at => f.at \ {<<d, va>>} = f.at
  BY Zenon
<1>8. \A f \in frames : <<d, va>> \notin f.at /\ f.at # {} =>
        \E g \in frames' : g.at = f.at
  BY <1>2, <1>4, <1>7, ZenonT(60)
<1>9. frames' \subseteq [at : SUBSET Places, val : Values]
  BY <1>2, <1>3, <1>4, Zenon
<1>10. \A g \in frames' : \/ g.at = {<<d, va>>}
                           \/ \E f \in frames : g.at = f.at \ {<<d, va>>}
  BY <1>2, <1>3, <1>4, Zenon
<1>11. \E g \in frames' : g.at = {<<d, va>>}
  BY <1>3, <1>4, Zenon
<1>12. QED BY <1>5, <1>6, <1>8, <1>9, <1>10, <1>11, Zenon DEF Allocates

(* sys_page_map adds a place to the frames of another, and takes it from   *)
(* the rest (kern/syscall.c, sys_page_map).                                *)
LEMMA MapEffect ==
  ASSUME TypeOK, NEW a \in Envs, NEW va \in VPages, NEW b \in Envs, NEW vb \in VPages,
         NEW pm \in Perms, sys_page_map(a, va, b, vb, pm)
  PROVE  Maps(a, va, b, vb, pm)
<1> DEFINE Moved(f) == [f EXCEPT !.at = IF <<a, va>> \in @ THEN @ \cup {<<b, vb>>}
                                                          ELSE @ \ {<<b, vb>>}]
<1>1. frames \subseteq [at : SUBSET Places, val : Values]
  BY Zenon DEF TypeOK
<1>2. \A f \in frames :
        /\ Moved(f) \in [at : SUBSET Places, val : Values]
        /\ Moved(f).at = IF <<a, va>> \in f.at THEN f.at \cup {<<b, vb>>}
                                               ELSE f.at \ {<<b, vb>>}
  BY <1>1 DEF Places
<1> HIDE DEF Moved
<1>3. frames' = {g \in {Moved(f) : f \in frames} : g.at # {}}
  BY Zenon DEF sys_page_map, InUse, Moved
<1>4. pte' \in [Envs -> [VPages -> Perms]]
  BY Zenon DEF sys_page_map, TypeOK
<1>5. \A d \in Envs, v \in VPages :
        pte'[d][v] = IF d = b /\ v = vb THEN pm ELSE pte[d][v]
  BY Zenon DEF sys_page_map, TypeOK
<1>6. \A f \in frames : <<b, vb>> \notin f.at => f.at \ {<<b, vb>>} = f.at
  BY Zenon
<1>7. \A f \in frames :
        <<a, va>> \notin f.at /\ <<b, vb>> \notin f.at /\ f.at # {} =>
          \E g \in frames' : g.at = f.at
  BY <1>2, <1>3, <1>6, ZenonT(60)
<1>8. \A g \in frames' : \E f \in frames :
        \/ <<a, va>> \in f.at /\ g.at = f.at \cup {<<b, vb>>}
        \/ <<a, va>> \notin f.at /\ g.at = f.at \ {<<b, vb>>}
  BY <1>2, <1>3, ZenonT(60)
<1>9. frames' \subseteq [at : SUBSET Places, val : Values]
  BY <1>2, <1>3, ZenonT(60)
<1>10. QED BY <1>4, <1>5, <1>7, <1>8, <1>9, ZenonT(60) DEF Maps

(* Taking places out of every frame: sys_page_unmap, and env_free.         *)
LEMMA DropEffect ==
  ASSUME TypeOK, NEW P,
         frames' = InUse({[f EXCEPT !.at = @ \ P] : f \in frames})
  PROVE  /\ frames' \subseteq [at : SUBSET Places, val : Values]
         /\ \A g \in frames' : \E f \in frames : g.at = f.at \ P
         /\ \A f \in frames : f.at \cap P = {} /\ f.at # {} => \E g \in frames' : g.at = f.at
<1> DEFINE Left(f) == [f EXCEPT !.at = @ \ P]
<1>1. frames \subseteq [at : SUBSET Places, val : Values]
  BY Zenon DEF TypeOK
<1>2. \A f \in frames : /\ Left(f) \in [at : SUBSET Places, val : Values]
                        /\ Left(f).at = f.at \ P
  BY <1>1, Zenon
<1> HIDE DEF Left
<1>3. frames' = {g \in {Left(f) : f \in frames} : g.at # {}}
  BY Zenon DEF InUse, Left
<1>4. \A f \in frames : f.at \cap P = {} => f.at \ P = f.at
  BY Zenon
<1>5. frames' \subseteq [at : SUBSET Places, val : Values]
  BY <1>2, <1>3, Zenon
<1>6. \A g \in frames' : \E f \in frames : g.at = f.at \ P
  BY <1>2, <1>3, Zenon
<1>7. \A f \in frames : f.at \cap P = {} /\ f.at # {} => \E g \in frames' : g.at = f.at
  BY <1>2, <1>3, <1>4, ZenonT(60)
<1>8. QED BY <1>5, <1>6, <1>7, ZenonT(60)

(* A store changes no mapping.                                             *)
LEMMA SetEffect ==
  ASSUME TypeOK, NEW d \in Envs, NEW va \in VPages, NEW x \in Values, SetPage(d, va, x)
  PROVE  /\ frames' \subseteq [at : SUBSET Places, val : Values]
         /\ \A g \in frames' : \E f \in frames : g.at = f.at
         /\ \A f \in frames : \E g \in frames' : g.at = f.at
         /\ pte' = pte
<1> DEFINE Set(f) == IF <<d, va>> \in f.at THEN [f EXCEPT !.val = x] ELSE f
<1>1. frames \subseteq [at : SUBSET Places, val : Values]
  BY Zenon DEF TypeOK
<1>2. \A f \in frames : /\ Set(f) \in [at : SUBSET Places, val : Values]
                        /\ Set(f).at = f.at
  BY <1>1, Zenon
<1> HIDE DEF Set
<1>3. frames' = {Set(f) : f \in frames} /\ pte' = pte
  BY Zenon DEF SetPage, Set
<1>4. QED BY <1>2, <1>3, Zenon
-----------------------------------------------------------------------------
(* The ways most steps keep the parts of the invariant.                    *)

(* While nobody has panicked, no place in fork() is a panic.               *)
LEMMA NoPanic ==
  ASSUME TypeOK, Serving, NEW d \in Envs
  PROVE  /\ Locus(d) # "panic" /\ Locus(d) \notin InHandler
         /\ Locus(d) = "remap" => pc[d] = "remap" \/ pc[d] \in InHandler
         /\ pc[d] = "embryo" => Locus(d) = "embryo"
<1>1. pc[d] # "panic" /\ ret[d] \in {"user"} \cup InFork
  BY Zenon DEF TypeOK, Serving
<1>2. Locus(d) # "panic" /\ Locus(d) \notin InHandler
  BY <1>1, Zenon DEF Locus, InHandler, InFork
<1>3. QED BY <1>2, ZenonT(60) DEF Locus, InHandler

(* A step that takes places out of frames, gives out new ones, and lets a  *)
(* parent inside duppage be, leaves each page with the writers it had.     *)
LEMMA Shrinks ==
  ASSUME TypeOK, Serving, CowInv, WriterInv, NEW P,
         frames' \subseteq [at : SUBSET Places, val : Values],
         \A g \in frames' : \/ \E p \in Places : g.at = {p}
                            \/ \E f \in frames : g.at \subseteq f.at \ P,
         \A p \in Places \ P : pte'[p[1]][p[2]] = pte[p[1]][p[2]],
         \A p \in Places \ P : Locus(p[1]) = "remap" =>
           /\ child'[p[1]] = child[p[1]]
           /\ Locus(p[1])' = "panic" \/ (Locus(p[1])' = "remap" /\ vp'[p[1]] = vp[p[1]]),
         \A d \in Envs : pc[d] = "pf_unmap" => pc'[d] = "pf_unmap" \/ <<d, PFTEMP>> \in P
  PROVE  CowInv' /\ WriterInv'
<1>1. \A p \in Places : p[1] \in Envs /\ p[2] \in VPages /\ p = <<p[1], p[2]>>
  BY DEF Places
<1>2. CowInv'
  <2> SUFFICES ASSUME NEW g \in frames', NEW p \in g.at, NEW q \in g.at,
                      Cow(p)', Writes(q)'
               PROVE  /\ p[2] = q[2] /\ p[1] = child'[q[1]]
                      /\ \/ Locus(q[1])' = "panic"
                         \/ Locus(q[1])' = "remap" /\ q[2] = Order[vp'[q[1]]]
    BY DEF CowInv
  <2>1. p # q
    BY Zenon DEF Cow, Writes
  <2>2. PICK f \in frames : g.at \subseteq f.at \ P
    BY <2>1
  <2>3. p \in Places \ P /\ q \in Places \ P
    BY <2>2, Zenon
  <2>4. Cow(p) /\ Writes(q) /\ p \in f.at /\ q \in f.at
    BY <2>2, <2>3, Zenon DEF Cow, Writes
  <2>5. /\ p[2] = q[2] /\ p[1] = child[q[1]]
        /\ Locus(q[1]) = "panic" \/ (Locus(q[1]) = "remap" /\ q[2] = Order[vp[q[1]]])
    BY <2>4 DEF CowInv
  <2>6. Locus(q[1]) # "panic"
    BY <1>1, <2>3, NoPanic, Zenon
  <2>7. QED BY <2>3, <2>5, <2>6, Zenon
<1>3. WriterInv'
  <2> SUFFICES ASSUME NEW g \in frames', NEW p \in g.at, NEW q \in g.at,
                      Writes(p)', Writes(q)', p # q
               PROVE  p[1] = q[1] /\ pc'[p[1]] = "pf_unmap" /\ PFTEMP \in {p[2], q[2]}
    BY Zenon DEF WriterInv
  <2>1. PICK f \in frames : g.at \subseteq f.at \ P
    OBVIOUS
  <2>2. p \in Places \ P /\ q \in Places \ P
    BY <2>1, Zenon
  <2>3. Writes(p) /\ Writes(q) /\ p \in f.at /\ q \in f.at
    BY <2>1, <2>2, Zenon DEF Writes
  <2>4. p[1] = q[1] /\ pc[p[1]] = "pf_unmap" /\ PFTEMP \in {p[2], q[2]}
    BY <2>3, Zenon DEF WriterInv
  <2>5. <<p[1], PFTEMP>> \notin P
    BY <1>1, <2>2, <2>4
  <2>6. QED BY <1>1, <2>2, <2>4, <2>5, Zenon
<1>4. QED BY <1>2, <1>3, Zenon

(* A step that makes no child and no program of an embryo keeps families.  *)
LEMMA ChildKept ==
  ASSUME ChildInv, child' = child,
         \A d \in Envs : pc[d] = "embryo" => pc'[d] = "embryo",
         \A d \in Envs : Locus(d)' \in HasChild => Locus(d) \in HasChild
  PROVE  ChildInv'
BY Zenon DEF ChildInv

(* An exception stack stays where its entry and its frame do.              *)
LEMMA StackKept ==
  ASSUME NEW d, HasXStack(d), pte'[d][XStack] = pte[d][XStack],
         \A f \in frames : f.at = {<<d, XStack>>} => \E g \in frames' : g.at = f.at
  PROVE  HasXStack(d)'
BY Zenon DEF HasXStack

(* Nothing changes.                                                        *)
LEMMA StutterInv ==
  ASSUME IInv, TextInv, UNCHANGED vars
  PROVE  IInv' /\ TextInv'
<1>1. UNCHANGED <<frames, pte, pc, ret, fva, child, vp, perm, upcall>>
  BY Zenon DEF vars, memory, locals
<1>2. TypeOK'
  BY <1>1, ZenonT(60) DEF IInv, TypeOK
<1>3. TempInv' /\ TextInv'
  BY <1>1, Zenon DEF IInv, TempInv, TextInv
<1>4. PageInv' /\ ChildInv'
  BY <1>1, Zenon DEF IInv, PageInv, ChildInv, Locus
<1>5. CowInv' /\ WriterInv'
  <2>1. CowInv'
    BY <1>1 DEF IInv, CowInv, Locus, Cow, Writes
  <2>2. WriterInv'
    BY <1>1, ZenonT(60) DEF IInv, WriterInv, Writes
  <2>3. QED BY <2>1, <2>2, Zenon
<1>6. StackInv'
  BY <1>1, ZenonT(60) DEF IInv, StackInv, Locus, HasXStack
<1>7. QED BY <1>2, <1>3, <1>4, <1>5, <1>6, Zenon DEF IInv

(* The loop of fork() goes on, and leaves only after the exception stack.  *)
LEMMA NextPageEffect ==
  ASSUME TypeOK, NEW e \in Envs, NextPage(e), ret' = ret
  PROVE  /\ pc' \in [Envs -> Labels] /\ vp' \in [Envs -> 1 .. Len(Order)]
         /\ \A d \in Envs \ {e} : pc'[d] = pc[d] /\ vp'[d] = vp[d] /\ Locus(d)' = Locus(d)
         /\ pc'[e] \in {"dup", "upcall"} /\ Locus(e)' = pc'[e]
         /\ pc'[e] = "upcall" \/ (\E i \in 1 .. vp'[e] - 1 : Order[i] = XStack) =>
              Order[vp[e]] = XStack \/ \E i \in 1 .. vp[e] - 1 : Order[i] = XStack
<1>1. Len(Order) \in Nat /\ vp[e] \in 1 .. Len(Order)
  BY LayoutAssumption DEF TypeOK
<1>2. PICK x \in 1 .. Len(Order) : Order[x] = XStack
  BY LayoutAssumption, Zenon DEF VPages
<1>3. CASE vp[e] < Len(Order)
  <2>1. pc' = [pc EXCEPT ![e] = "dup"] /\ vp' = [vp EXCEPT ![e] = vp[e] + 1]
    BY <1>3, Zenon DEF NextPage, Goto
  <2>2. pc' \in [Envs -> Labels] /\ vp' \in [Envs -> 1 .. Len(Order)]
    BY <1>1, <1>3, <2>1 DEF TypeOK, Labels, InFork
  <2>3. /\ \A d \in Envs \ {e} : pc'[d] = pc[d] /\ vp'[d] = vp[d]
        /\ pc'[e] = "dup" /\ vp'[e] = vp[e] + 1
    BY <2>1, Zenon DEF TypeOK
  <2>4. Locus(e)' = pc'[e] /\ \A d \in Envs \ {e} : Locus(d)' = Locus(d)
    BY <2>3, Zenon DEF Locus, InHandler
  <2>5. \A i \in 1 .. vp'[e] - 1 : i = vp[e] \/ i \in 1 .. vp[e] - 1
    BY <1>1, <2>3
  <2>6. QED BY <2>2, <2>3, <2>4, <2>5, Zenon
<1>4. CASE ~ (vp[e] < Len(Order))
  <2>1. pc' = [pc EXCEPT ![e] = "upcall"] /\ vp' = [vp EXCEPT ![e] = 1]
    BY <1>4, Zenon DEF NextPage, Goto
  <2>2. pc' \in [Envs -> Labels] /\ vp' \in [Envs -> 1 .. Len(Order)]
    BY <1>1, <2>1 DEF TypeOK, Labels, InFork
  <2>3. /\ \A d \in Envs \ {e} : pc'[d] = pc[d] /\ vp'[d] = vp[d]
        /\ pc'[e] = "upcall"
    BY <2>1, Zenon DEF TypeOK
  <2>4. Locus(e)' = pc'[e] /\ \A d \in Envs \ {e} : Locus(d)' = Locus(d)
    BY <2>3, Zenon DEF Locus, InHandler
  <2>5. x = vp[e] \/ x \in 1 .. vp[e] - 1
    BY <1>1, <1>4
  <2>6. QED BY <1>2, <2>2, <2>3, <2>4, <2>5, Zenon
<1>5. QED BY <1>3, <1>4, Zenon
-----------------------------------------------------------------------------
(* The handler.                                                            *)

(* duppage gives the child its entry.  A copy-on-write one is of a page    *)
(* the parent alone may write, and it still may until duppage goes on.     *)
LEMMA ChildMappedStep ==
  ASSUME IInv, Serving, NEW e \in Envs, pc[e] = "map",
         sys_page_map(e, Order[vp[e]], child[e], Order[vp[e]], perm[e]),
         IF perm[e] = "cow" THEN Goto(e, "remap") /\ vp' = vp ELSE NextPage(e),
         perm' = [perm EXCEPT ![e] = "none"], UNCHANGED <<ret, fva, child, upcall>>
  PROVE  IInv'
<1>0. TypeOK /\ TempInv /\ PageInv /\ ChildInv /\ CowInv /\ WriterInv /\ StackInv
  BY Zenon DEF IInv
<1>1. Locus(e) = "map" /\ Locus(e) \in HasChild
  BY Zenon DEF Locus, InHandler, HasChild
<1>2. PICK v \in VPages : v = Order[vp[e]] /\ v \notin {XStack, PFTEMP}
  <2>1. Order[vp[e]] \in VPages
    BY <1>0, Zenon DEF TypeOK, VPages
  <2>2. QED BY <1>0, <1>1, <2>1, Zenon DEF PageInv
<1>3. PICK c \in Envs : c = child[e] /\ pc[c] = "embryo" /\ c # e
  BY <1>0, <1>1, Zenon DEF ChildInv
<1>4. PICK pm \in {"share", "r", "cow"} : /\ pm = perm[e]
                                          /\ pm = "cow" => pte[e][v] \in {"w", "cow"}
  BY <1>0, <1>1, <1>2, Zenon DEF PageInv
<1>5. PICK src, dst : src = <<e, v>> /\ dst = <<c, v>>
  BY ZenonT(60)
<1>6. /\ frames' \subseteq [at : SUBSET Places, val : Values]
      /\ pte' \in [Envs -> [VPages -> Perms]]
      /\ \A g \in frames' : \E f \in frames :
           \/ src \in f.at /\ g.at = f.at \cup {dst}
           \/ src \notin f.at /\ g.at = f.at \ {dst}
      /\ \A f \in frames : src \notin f.at /\ dst \notin f.at /\ f.at # {} =>
           \E g \in frames' : g.at = f.at
      /\ \A d \in Envs, w \in VPages :
           pte'[d][w] = IF d = c /\ w = v THEN pm ELSE pte[d][w]
  <2>1. pm \in Perms
    BY Zenon DEF Perms
  <2>2. sys_page_map(e, v, c, v, pm)
    BY <1>2, <1>3, <1>4, Zenon
  <2>3. Maps(e, v, c, v, pm)
    BY <1>0, <2>1, <2>2, MapEffect, SMTT(60)
  <2>4. QED BY <1>5, <2>3, SMTT(60) DEF Maps
<1>7. /\ pc' \in [Envs -> Labels] /\ vp' \in [Envs -> 1 .. Len(Order)]
      /\ \A d \in Envs \ {e} : pc'[d] = pc[d] /\ vp'[d] = vp[d] /\ Locus(d)' = Locus(d)
      /\ Locus(e)' = pc'[e]
      /\ pm = "cow" => pc'[e] = "remap" /\ vp'[e] = vp[e]
      /\ pm # "cow" => /\ pc'[e] \in {"dup", "upcall"}
                       /\ pc'[e] = "upcall" \/ (\E i \in 1 .. vp'[e] - 1 : Order[i] = XStack) =>
                            Order[vp[e]] = XStack \/ \E i \in 1 .. vp[e] - 1 : Order[i] = XStack
  <2>1. CASE pm = "cow"
    <3>1. pc' = [pc EXCEPT ![e] = "remap"] /\ vp' = vp
      BY <1>4, <2>1, Zenon DEF Goto
    <3>2. pc' \in [Envs -> Labels] /\ pc'[e] = "remap" /\ \A d \in Envs \ {e} : pc'[d] = pc[d]
      BY <1>0, <3>1, Zenon DEF TypeOK, Labels, InFork
    <3>3. Locus(e)' = "remap" /\ \A d \in Envs \ {e} : Locus(d)' = Locus(d)
      BY <3>2, Zenon DEF Locus, InHandler
    <3>4. QED BY <1>0, <2>1, <3>1, <3>2, <3>3, Zenon DEF TypeOK
  <2>2. CASE pm # "cow"
    <3>1. NextPage(e) /\ ret' = ret
      BY <1>4, <2>2, Zenon
    <3>2. QED BY <1>0, <2>2, <3>1, NextPageEffect, Zenon
  <2>3. QED BY <2>1, <2>2, SMTT(60)
<1>8. perm' \in [Envs -> Perms] /\ \A d \in Envs \ {e} : perm'[d] = perm[d]
  BY <1>0, Zenon DEF TypeOK, Perms
<1>9. TypeOK'
  BY <1>0, <1>6, <1>7, <1>8, Zenon DEF TypeOK
<1>10. pc'[e] \in {"dup", "upcall", "remap"}
  BY <1>7, Zenon
<1>11. \A f \in frames : \A p \in f.at : p \in Places
  BY <1>0, SMTT(60) DEF TypeOK
<1>12. \A p \in Places : /\ p[1] \in Envs /\ p[2] \in VPages /\ p = <<p[1], p[2]>>
                         /\ p # dst => pte'[p[1]][p[2]] = pte[p[1]][p[2]]
  BY <1>5, <1>6 DEF Places
<1>13. /\ src[1] = e /\ src[2] = v /\ dst[1] = c /\ dst[2] = v /\ src # dst
       /\ ~ Writes(dst)' /\ (Cow(dst)' <=> pm = "cow")
  BY <1>3, <1>4, <1>5, <1>6, Zenon DEF Writes, Cow
<1>14. ASSUME NEW f \in frames, NEW q \in f.at, src \in f.at, Writes(q), pm = "cow"
       PROVE  q = src
  <2>1. q \in Places
    BY <1>11, Zenon
  <2>2. ~ Cow(src)
    <3>1. Cow(src) => e = child[q[1]]
      BY <1>0, <1>13, <1>14, SMTT(60) DEF CowInv
    <3>2. QED BY <1>0, <1>12, <2>1, <3>1, Zenon DEF ChildInv
  <2>3. Writes(src)
    BY <1>4, <1>13, <1>14, <2>2, Zenon DEF Cow, Writes
  <2>4. q # src => pc[e] = "pf_unmap"
    BY <1>0, <1>13, <1>14, <2>3, Zenon DEF WriterInv
  <2>5. QED BY <2>4, Zenon
<1>15. CowInv'
  <2> SUFFICES ASSUME NEW g \in frames', NEW p \in g.at, NEW q \in g.at,
                      Cow(p)', Writes(q)'
               PROVE  /\ p[2] = q[2] /\ p[1] = child'[q[1]]
                      /\ \/ Locus(q[1])' = "panic"
                         \/ Locus(q[1])' = "remap" /\ q[2] = Order[vp'[q[1]]]
    BY <1>0, SMTT(60) DEF CowInv
  <2>1. PICK f \in frames : \/ src \in f.at /\ g.at = f.at \cup {dst}
                            \/ src \notin f.at /\ g.at = f.at \ {dst}
    BY <1>6, Zenon
  <2>2. q # dst /\ q \in f.at /\ q \in Places /\ Writes(q)
    <3>1. q # dst
      BY <1>13, SMTT(60)
    <3>2. q \in f.at /\ q \in Places
      BY <1>11, <2>1, <3>1, Zenon
    <3>3. QED BY <1>12, <3>1, <3>2, SMTT(60) DEF Writes
  <2>3. CASE p = dst
    <3>1. pm = "cow" /\ src \in f.at
      BY <1>13, <2>1, <2>3, Zenon
    <3>2. q = src
      BY <1>14, <2>2, <3>1, SMTT(60)
    <3>3. QED BY <1>2, <1>3, <1>7, <1>13, <2>3, <3>1, <3>2, Zenon
  <2>4. CASE p # dst
    <3>1. p \in f.at /\ p \in Places
      BY <1>11, <2>1, <2>4, Zenon
    <3>2. Cow(p)
      BY <1>12, <2>4, <3>1, SMTT(60) DEF Cow
    <3>3. /\ p[2] = q[2] /\ p[1] = child[q[1]]
          /\ Locus(q[1]) = "panic" \/ (Locus(q[1]) = "remap" /\ q[2] = Order[vp[q[1]]])
      BY <1>0, <2>2, <3>1, <3>2, Zenon DEF CowInv
    <3>4. q[1] \in Envs \ {e}
      BY <1>1, <1>12, <2>2, <3>3, SMTT(60)
    <3>5. QED BY <1>7, <3>3, <3>4, SMTT(60)
  <2>5. QED BY <2>3, <2>4, Zenon
<1>16. WriterInv'
  <2> SUFFICES ASSUME NEW g \in frames', NEW p \in g.at, NEW q \in g.at,
                      Writes(p)', Writes(q)', p # q
               PROVE  p[1] = q[1] /\ pc'[p[1]] = "pf_unmap" /\ PFTEMP \in {p[2], q[2]}
    BY <1>0, SMTT(60) DEF WriterInv
  <2>1. PICK f \in frames : \/ src \in f.at /\ g.at = f.at \cup {dst}
                            \/ src \notin f.at /\ g.at = f.at \ {dst}
    BY <1>6, Zenon
  <2>2. p # dst /\ q # dst
    BY <1>13, Zenon
  <2>3. p \in f.at /\ q \in f.at /\ p \in Places /\ q \in Places
    BY <1>11, <2>1, <2>2, Zenon
  <2>4. Writes(p) /\ Writes(q)
    BY <1>12, <2>2, <2>3, Zenon DEF Writes
  <2>5. p[1] = q[1] /\ pc[p[1]] = "pf_unmap" /\ PFTEMP \in {p[2], q[2]}
    BY <1>0, <2>3, <2>4, Zenon DEF WriterInv
  <2>6. p[1] \in Envs \ {e}
    BY <1>12, <2>3, <2>5, Zenon
  <2>7. QED BY <1>7, <2>5, <2>6, SMTT(60)
<1>17. \A d \in Envs : HasXStack(d) => HasXStack(d)'
  <2> SUFFICES ASSUME NEW d \in Envs, HasXStack(d) PROVE HasXStack(d)'
    BY Zenon
  <2>1. <<d, XStack>> # src /\ <<d, XStack>> # dst
    BY <1>2, <1>5, Zenon
  <2>2. \A f \in frames : f.at = {<<d, XStack>>} => src \notin f.at /\ dst \notin f.at /\ f.at # {}
    BY <2>1, Zenon
  <2>3. pte'[d][XStack] = pte[d][XStack]
    BY <1>2, <1>6, LayoutAssumption, SMTT(60)
  <2>4. QED BY <1>6, <2>2, <2>3, StackKept, Zenon
<1>18. TempInv'
  <2>1. pte[e][PFTEMP] = "none"
    BY <1>0, SMTT(60) DEF TempInv
  <2>2. PFTEMP \in VPages /\ PFTEMP # v
    BY <1>2, LayoutAssumption, Zenon
  <2>3. \A d \in Envs : pte'[d][PFTEMP] = pte[d][PFTEMP]
    BY <1>6, <2>2, Zenon
  <2>4. QED BY <1>0, <1>7, <2>1, <2>3, Zenon DEF TempInv
<1>19. PageInv'
  <2>1. \A d \in Envs : Order[vp[d]] \in VPages
    BY <1>0, SMTT(60) DEF TypeOK, VPages
  <2>2. Locus(c) = "embryo"
    BY <1>0, <1>3, NoPanic, SMTT(60)
  <2>3. \A d \in Envs \ {c} : pte'[d][Order[vp[d]]] = pte[d][Order[vp[d]]]
    BY <1>6, <2>1, Zenon
  <2>4. \A d \in Envs \ {e} : /\ vp'[d] = vp[d] /\ pc'[d] = pc[d] /\ perm'[d] = perm[d]
                              /\ ret'[d] = ret[d] /\ fva'[d] = fva[d]
                              /\ Locus(d)' = Locus(d)
    BY <1>7, <1>8, Zenon
  <2>5. pc'[e] \notin InHandler /\ Locus(e)' # "map"
    BY <1>7, <1>10, SMTT(60) DEF InHandler
  <2>6. Locus(e)' = "remap" => /\ Order[vp'[e]] \notin {XStack, PFTEMP}
                               /\ pte'[e][Order[vp'[e]]] \in {"w", "cow"}
    BY <1>2, <1>3, <1>4, <1>7, <2>3, SMTT(60)
  <2>7. QED BY <1>0, <2>2, <2>3, <2>4, <2>5, <2>6, SMTT(60) DEF PageInv
<1>20. /\ \A d \in Envs : pc[d] = "embryo" => pc'[d] = "embryo"
       /\ \A d \in Envs : Locus(d)' \in HasChild => Locus(d) \in HasChild
  BY <1>1, <1>7, SMTT(60)
<1>21. ChildInv'
  BY <1>0, <1>20, ChildKept, SMTT(60)
<1>22. StackInv'
  <2>1. upcall' = upcall /\ child' = child
    BY Zenon
  <2>2. \A d \in Envs : upcall'[d] => HasXStack(d)'
    BY <1>0, <1>17, <2>1, Zenon DEF StackInv
  <2>3. \A d \in Envs \ {e} :
          Locus(d)' \in HasChild /\ (Locus(d)' \in {"upcall", "start"}
                                       \/ \E i \in 1 .. vp'[d] - 1 : Order[i] = XStack)
            => HasXStack(child[d])'
    BY <1>0, <1>7, <1>17, <2>1, Zenon DEF StackInv, ChildInv
  <2>4. (Locus(e)' \in {"upcall", "start"} \/ \E i \in 1 .. vp'[e] - 1 : Order[i] = XStack)
          => \E i \in 1 .. vp[e] - 1 : Order[i] = XStack
    BY <1>2, <1>7, <1>10, Zenon
  <2>5. (\E i \in 1 .. vp[e] - 1 : Order[i] = XStack) => HasXStack(child[e])'
    BY <1>0, <1>1, <1>3, <1>17, <2>1, Zenon DEF StackInv
  <2>6. QED BY <1>0, <2>1, <2>2, <2>3, <2>4, <2>5, Zenon DEF StackInv
<1>23. QED BY <1>9, <1>15, <1>16, <1>18, <1>19, <1>21, <1>22, SMTT(60) DEF IInv

(* duppage marks the parent's own entry, and from here nobody writes.      *)
LEMMA RemapStep ==
  ASSUME IInv, Serving, NEW e \in Envs, duppage_remap(e)
  PROVE  IInv'
<1>0. TypeOK /\ TempInv /\ PageInv /\ ChildInv /\ CowInv /\ WriterInv /\ StackInv
  BY Zenon DEF IInv
<1>1. /\ pc[e] = "remap" /\ NextPage(e) /\ UNCHANGED <<ret, fva, child, perm, upcall>>
      /\ sys_page_map(e, Order[vp[e]], e, Order[vp[e]], "cow")
  BY Zenon DEF duppage_remap
<1>2. Locus(e) = "remap" /\ Locus(e) \in HasChild
  BY <1>1, Zenon DEF Locus, InHandler, HasChild
<1>3. PICK v \in VPages : /\ v = Order[vp[e]] /\ v \notin {XStack, PFTEMP}
                          /\ pte[e][v] \in {"w", "cow"}
  <2>1. Order[vp[e]] \in VPages
    BY <1>0, Zenon DEF TypeOK, VPages
  <2>2. QED BY <1>0, <1>2, <2>1, Zenon DEF PageInv
<1>4. PICK own : own = <<e, v>>
  BY ZenonT(60)
<1>5. /\ frames' \subseteq [at : SUBSET Places, val : Values]
      /\ pte' \in [Envs -> [VPages -> Perms]]
      /\ \A g \in frames' : \E f \in frames : g.at = f.at
      /\ \A f \in frames : own \notin f.at /\ f.at # {} => \E g \in frames' : g.at = f.at
      /\ \A d \in Envs, w \in VPages :
           pte'[d][w] = IF d = e /\ w = v THEN "cow" ELSE pte[d][w]
  <2>1. "cow" \in Perms
    BY Zenon DEF Perms
  <2>2. sys_page_map(e, v, e, v, "cow")
    BY <1>1, <1>3, Zenon
  <2>3. Maps(e, v, e, v, "cow")
    BY <1>0, <2>1, <2>2, MapEffect, Zenon
  <2>4. \A f \in frames : (own \in f.at => f.at \cup {own} = f.at)
                          /\ (own \notin f.at => f.at \ {own} = f.at)
    BY Zenon
  <2>5. /\ \A g \in frames' : \E f \in frames :
             \/ own \in f.at /\ g.at = f.at \cup {own}
             \/ own \notin f.at /\ g.at = f.at \ {own}
        /\ \A f \in frames : own \notin f.at /\ f.at # {} => \E g \in frames' : g.at = f.at
    BY <1>4, <2>3, Zenon DEF Maps
  <2>6. \A g \in frames' : \E f \in frames : g.at = f.at
    BY <2>4, <2>5, ZenonT(60)
  <2>7. /\ frames' \subseteq [at : SUBSET Places, val : Values]
        /\ pte' \in [Envs -> [VPages -> Perms]]
        /\ \A d \in Envs, w \in VPages :
             pte'[d][w] = IF d = e /\ w = v THEN "cow" ELSE pte[d][w]
    BY <2>3, Zenon DEF Maps
  <2>8. QED BY <2>5, <2>6, <2>7, Zenon
<1>6. /\ pc' \in [Envs -> Labels] /\ vp' \in [Envs -> 1 .. Len(Order)]
      /\ \A d \in Envs \ {e} : pc'[d] = pc[d] /\ vp'[d] = vp[d] /\ Locus(d)' = Locus(d)
      /\ pc'[e] \in {"dup", "upcall"} /\ Locus(e)' = pc'[e]
      /\ pc'[e] = "upcall" \/ (\E i \in 1 .. vp'[e] - 1 : Order[i] = XStack) =>
           Order[vp[e]] = XStack \/ \E i \in 1 .. vp[e] - 1 : Order[i] = XStack
  BY <1>0, <1>1, NextPageEffect, Zenon
<1>7. TypeOK'
  BY <1>0, <1>1, <1>5, <1>6, Zenon DEF TypeOK
<1>8. \A f \in frames : \A p \in f.at : p \in Places
  BY <1>0, Zenon DEF TypeOK
<1>9. \A p \in Places : /\ p[1] \in Envs /\ p[2] \in VPages /\ p = <<p[1], p[2]>>
                        /\ p # own => pte'[p[1]][p[2]] = pte[p[1]][p[2]]
  BY <1>4, <1>5 DEF Places
<1>10. own[1] = e /\ own[2] = v /\ ~ Writes(own)' /\ (Cow(own) \/ Writes(own))
  BY <1>3, <1>4, <1>5, Zenon DEF Writes, Cow
<1>11. CowInv'
  <2> SUFFICES ASSUME NEW g \in frames', NEW p \in g.at, NEW q \in g.at,
                      Cow(p)', Writes(q)'
               PROVE  /\ p[2] = q[2] /\ p[1] = child'[q[1]]
                      /\ \/ Locus(q[1])' = "panic"
                         \/ Locus(q[1])' = "remap" /\ q[2] = Order[vp'[q[1]]]
    BY <1>0, Zenon DEF CowInv
  <2>1. PICK f \in frames : g.at = f.at
    BY <1>5, Zenon
  <2>2. q # own
    BY <1>10, Zenon
  <2>3. p \in f.at /\ q \in f.at /\ p \in Places /\ q \in Places /\ Writes(q)
    BY <1>8, <1>9, <2>1, <2>2, Zenon DEF Writes
  <2>4. p # own
    <3> SUFFICES ASSUME p = own PROVE FALSE
      BY Zenon
    <3>1. Cow(own) => e = child[q[1]]
      BY <1>0, <1>10, <2>3, Zenon DEF CowInv
    <3>2. Writes(own) => pc[e] = "pf_unmap"
      BY <1>0, <1>10, <2>2, <2>3, Zenon DEF WriterInv
    <3>3. QED BY <1>0, <1>1, <1>9, <1>10, <2>3, <3>1, <3>2, Zenon DEF ChildInv
  <2>5. Cow(p)
    BY <1>9, <2>3, <2>4, Zenon DEF Cow
  <2>6. /\ p[2] = q[2] /\ p[1] = child[q[1]]
        /\ Locus(q[1]) = "panic" \/ (Locus(q[1]) = "remap" /\ q[2] = Order[vp[q[1]]])
    BY <1>0, <2>3, <2>5, Zenon DEF CowInv
  <2>7. q[1] \in Envs \ {e}
    BY <1>2, <1>3, <1>4, <1>9, <2>2, <2>3, <2>6, Zenon
  <2>8. QED BY <1>1, <1>6, <2>6, <2>7, SMTT(60)
<1>12. WriterInv'
  <2> SUFFICES ASSUME NEW g \in frames', NEW p \in g.at, NEW q \in g.at,
                      Writes(p)', Writes(q)', p # q
               PROVE  p[1] = q[1] /\ pc'[p[1]] = "pf_unmap" /\ PFTEMP \in {p[2], q[2]}
    BY <1>0, Zenon DEF WriterInv
  <2>1. PICK f \in frames : g.at = f.at
    BY <1>5, Zenon
  <2>2. p # own /\ q # own
    BY <1>10, Zenon
  <2>3. p \in f.at /\ q \in f.at /\ p \in Places /\ q \in Places
    BY <1>8, <2>1, Zenon
  <2>4. Writes(p) /\ Writes(q)
    BY <1>9, <2>2, <2>3, Zenon DEF Writes
  <2>5. p[1] = q[1] /\ pc[p[1]] = "pf_unmap" /\ PFTEMP \in {p[2], q[2]}
    BY <1>0, <2>3, <2>4, Zenon DEF WriterInv
  <2>6. p[1] \in Envs \ {e}
    BY <1>1, <1>9, <2>3, <2>5, Zenon
  <2>7. QED BY <1>6, <2>5, <2>6, Zenon
<1>13. \A d \in Envs : HasXStack(d) => HasXStack(d)'
  <2> SUFFICES ASSUME NEW d \in Envs, HasXStack(d) PROVE HasXStack(d)'
    BY Zenon
  <2>1. <<d, XStack>> # own
    BY <1>3, <1>4, Zenon
  <2>2. \A f \in frames : f.at = {<<d, XStack>>} => own \notin f.at /\ f.at # {}
    BY <2>1, Zenon
  <2>3. pte'[d][XStack] = pte[d][XStack]
    BY <1>3, <1>5, LayoutAssumption, Zenon
  <2>4. QED BY <1>5, <2>2, <2>3, StackKept, Zenon
<1>14. TempInv'
  <2>1. pte[e][PFTEMP] = "none"
    BY <1>0, <1>1, Zenon DEF TempInv
  <2>2. \A d \in Envs : pte'[d][PFTEMP] = pte[d][PFTEMP]
    BY <1>3, <1>5, LayoutAssumption
  <2>3. QED BY <1>0, <1>6, <2>1, <2>2, Zenon DEF TempInv
<1>15. PageInv'
  <2>1. \A d \in Envs : Order[vp[d]] \in VPages
    BY <1>0, SMTT(60) DEF TypeOK, VPages
  <2>2. \A d \in Envs \ {e} : /\ pte'[d][Order[vp[d]]] = pte[d][Order[vp[d]]]
                              /\ vp'[d] = vp[d] /\ pc'[d] = pc[d] /\ perm'[d] = perm[d]
                              /\ ret'[d] = ret[d] /\ fva'[d] = fva[d]
                              /\ Locus(d)' = Locus(d)
    BY <1>1, <1>5, <1>6, <2>1, Zenon
  <2>3. pc'[e] \notin InHandler /\ Locus(e)' \in {"dup", "upcall"}
    BY <1>6, Zenon DEF InHandler
  <2>4. QED BY <1>0, <2>2, <2>3 DEF PageInv
<1>16. /\ \A d \in Envs : pc[d] = "embryo" => pc'[d] = "embryo"
       /\ \A d \in Envs : Locus(d)' \in HasChild => Locus(d) \in HasChild
  BY <1>1, <1>2, <1>6, Zenon
<1>17. ChildInv'
  BY <1>0, <1>1, <1>16, ChildKept, Zenon
<1>18. StackInv'
  <2>1. \A d \in Envs : upcall'[d] => HasXStack(d)'
    BY <1>0, <1>1, <1>13, Zenon DEF StackInv
  <2>2. \A d \in Envs \ {e} :
          Locus(d)' \in HasChild /\ (Locus(d)' \in {"upcall", "start"}
                                       \/ \E i \in 1 .. vp'[d] - 1 : Order[i] = XStack)
            => HasXStack(child[d])'
    BY <1>0, <1>1, <1>6, <1>13, Zenon DEF StackInv, ChildInv
  <2>3. (Locus(e)' \in {"upcall", "start"} \/ \E i \in 1 .. vp'[e] - 1 : Order[i] = XStack)
          => \E i \in 1 .. vp[e] - 1 : Order[i] = XStack
    BY <1>3, <1>6, SMTT(60)
  <2>4. (\E i \in 1 .. vp[e] - 1 : Order[i] = XStack) => HasXStack(child[e])'
    BY <1>0, <1>1, <1>2, <1>13, Zenon DEF StackInv, ChildInv
  <2>5. QED BY <1>0, <1>1, <2>1, <2>2, <2>3, <2>4, Zenon DEF StackInv
<1>19. QED BY <1>7, <1>11, <1>12, <1>14, <1>15, <1>17, <1>18, Zenon DEF IInv

(* pgfault puts the copy where the fault was.  Only this environment could *)
(* see the copy, so it gets one writer, and nobody waits to copy it.       *)
LEMMA CopyMappedStep ==
  ASSUME IInv, Serving, NEW e \in Envs, pgfault_map(e)
  PROVE  IInv'
<1>00. TypeOK /\ TempInv /\ PageInv /\ ChildInv /\ CowInv /\ WriterInv /\ StackInv
  BY Zenon DEF IInv
<1>0. PICK src, dst : src = <<e, PFTEMP>> /\ dst = <<e, fva[e]>>
  BY ZenonT(60)
<1>1. /\ pc[e] = "pf_map" /\ pc' = [pc EXCEPT ![e] = "pf_unmap"]
      /\ UNCHANGED <<ret, fva, child, vp, perm, upcall>>
      /\ sys_page_map(e, PFTEMP, e, fva[e], "w")
  BY Zenon DEF pgfault_map, Goto, locals
<1>2. fva[e] \in VPages /\ fva[e] \notin {XStack, PFTEMP} /\ PFTEMP \in VPages /\ XStack \in VPages
  BY <1>00, LayoutAssumption, Zenon DEF TypeOK
<1>3. /\ frames' \subseteq [at : SUBSET Places, val : Values]
      /\ pte' \in [Envs -> [VPages -> Perms]]
      /\ \A g \in frames' : \E f \in frames :
           \/ src \in f.at /\ g.at = f.at \cup {dst}
           \/ src \notin f.at /\ g.at = f.at \ {dst}
      /\ \A f \in frames : src \notin f.at /\ dst \notin f.at /\ f.at # {} =>
           \E g \in frames' : g.at = f.at
      /\ \A d \in Envs, v \in VPages :
           pte'[d][v] = IF d = e /\ v = fva[e] THEN "w" ELSE pte[d][v]
  <2>1. "w" \in Perms
    BY Zenon DEF Perms
  <2>2. Maps(e, PFTEMP, e, fva[e], "w")
    BY <1>00, <1>1, <1>2, <2>1, MapEffect, Zenon
  <2>3. QED BY <1>0, <2>2, ZenonT(60) DEF Maps
<1>4. pte[e][PFTEMP] = "w"
  BY <1>00, <1>1, Zenon DEF sys_page_map, IsMapped, TempInv
<1>5. TypeOK'
  BY <1>00, <1>1, <1>3, ZenonT(60) DEF TypeOK, Labels, InHandler
<1>6. \A d \in Envs : /\ Locus(d)' = Locus(d)
                      /\ pc[d] \in InHandler <=> pc'[d] \in InHandler
                      /\ pc[d] # "pf_map" => pc'[d] = pc[d]
                      /\ d # e => pc'[d] = pc[d]
  BY <1>00, <1>1, Zenon DEF Locus, TypeOK, InHandler
<1>7. \A f \in frames : \A p \in f.at : p \in Places
  BY <1>00, Zenon DEF TypeOK
<1>8. \A p \in Places : /\ p[1] \in Envs /\ p[2] \in VPages /\ p = <<p[1], p[2]>>
                        /\ p # dst => pte'[p[1]][p[2]] = pte[p[1]][p[2]]
  BY <1>0, <1>3 DEF Places
<1>9. /\ dst \in Places /\ src \in Places /\ src # dst
      /\ Writes(dst)' /\ Writes(src) /\ ~ Cow(dst)' /\ Writes(src)' /\ ~ Cow(src)'
      /\ src[1] = e /\ src[2] = PFTEMP /\ dst[1] = e /\ dst[2] = fva[e]
  BY <1>0, <1>1, <1>2, <1>3, <1>4, Zenon DEF Writes, Cow, Places
<1>10. ASSUME NEW f \in frames, src \in f.at, NEW p \in f.at, p # src, p # dst
       PROVE  ~ Cow(p)' /\ ~ Writes(p)'
  <2>1. p \in Places
    BY <1>7, Zenon
  <2>2. (Cow(p)' <=> Cow(p)) /\ (Writes(p)' <=> Writes(p))
    BY <1>8, <1>10, <2>1, Zenon DEF Cow, Writes
  <2>3. Cow(p) => p[2] = PFTEMP
    BY <1>00, <1>9, <1>10, Zenon DEF CowInv
  <2>4. ~ Cow(p)
    BY <1>00, <1>8, <2>1, <2>3, Zenon DEF TempInv, Cow
  <2>5. ~ Writes(p)
    BY <1>00, <1>1, <1>9, <1>10, Zenon DEF WriterInv
  <2>6. QED BY <2>2, <2>4, <2>5, Zenon
<1>11. CowInv'
  <2> SUFFICES ASSUME NEW g \in frames', NEW p \in g.at, NEW q \in g.at,
                      Cow(p)', Writes(q)'
               PROVE  /\ p[2] = q[2] /\ p[1] = child'[q[1]]
                      /\ \/ Locus(q[1])' = "panic"
                         \/ Locus(q[1])' = "remap" /\ q[2] = Order[vp'[q[1]]]
    BY <1>00, Zenon DEF CowInv
  <2>1. PICK f \in frames : \/ src \in f.at /\ g.at = f.at \cup {dst}
                            \/ src \notin f.at /\ g.at = f.at \ {dst}
    BY <1>3, Zenon
  <2>2. p # dst /\ p # src
    BY <1>9, Zenon
  <2>3. src \notin f.at /\ p \in f.at /\ q \in f.at /\ q # dst
    BY <1>10, <2>1, <2>2
  <2>4. Cow(p) /\ Writes(q) /\ q \in Places
    BY <1>7, <1>8, <2>2, <2>3, Zenon DEF Cow, Writes
  <2>5. /\ p[2] = q[2] /\ p[1] = child[q[1]]
        /\ Locus(q[1]) = "panic" \/ (Locus(q[1]) = "remap" /\ q[2] = Order[vp[q[1]]])
    BY <1>00, <2>3, <2>4, Zenon DEF CowInv
  <2>6. QED BY <1>1, <1>6, <1>8, <2>4, <2>5, Zenon
<1>12. WriterInv'
  <2> SUFFICES ASSUME NEW g \in frames', NEW p \in g.at, NEW q \in g.at,
                      Writes(p)', Writes(q)', p # q
               PROVE  p[1] = q[1] /\ pc'[p[1]] = "pf_unmap" /\ PFTEMP \in {p[2], q[2]}
    BY <1>00, Zenon DEF WriterInv
  <2>1. PICK f \in frames : \/ src \in f.at /\ g.at = f.at \cup {dst}
                            \/ src \notin f.at /\ g.at = f.at \ {dst}
    BY <1>3, Zenon
  <2>2. CASE src \in f.at
    <3>1. p \in {src, dst} /\ q \in {src, dst}
      BY <1>10, <2>1, <2>2, Zenon
    <3>2. pc'[e] = "pf_unmap"
      BY <1>00, <1>1, Zenon DEF TypeOK
    <3>3. QED BY <1>9, <3>1, <3>2, Zenon
  <2>3. CASE src \notin f.at
    <3>1. p \in f.at /\ q \in f.at /\ p # dst /\ q # dst
      BY <2>1, <2>3, Zenon
    <3>2. Writes(p) /\ Writes(q) /\ p \in Places
      BY <1>7, <1>8, <3>1, Zenon DEF Writes
    <3>3. p[1] = q[1] /\ pc[p[1]] = "pf_unmap" /\ PFTEMP \in {p[2], q[2]}
      BY <1>00, <3>1, <3>2, Zenon DEF WriterInv
    <3>4. QED BY <1>6, <1>8, <3>2, <3>3, Zenon
  <2>4. QED BY <2>2, <2>3, Zenon
<1>13. \A d \in Envs : HasXStack(d) => HasXStack(d)'
  <2> SUFFICES ASSUME NEW d \in Envs, HasXStack(d) PROVE HasXStack(d)'
    BY Zenon
  <2>1. <<d, XStack>> # src /\ <<d, XStack>> # dst
    BY <1>0, <1>2, LayoutAssumption, Zenon
  <2>2. \A f \in frames : f.at = {<<d, XStack>>} => src \notin f.at /\ dst \notin f.at /\ f.at # {}
    BY <2>1, Zenon
  <2>3. pte'[d][XStack] = pte[d][XStack]
    BY <1>2, <1>3, Zenon
  <2>4. QED BY <1>3, <2>2, <2>3, StackKept, Zenon
<1>14. TempInv'
  BY <1>00, <1>1, <1>2, <1>3, <1>6 DEF TempInv, TypeOK
<1>15. PageInv'
  <2>1. \A d \in Envs : Order[vp[d]] \in VPages
    BY <1>00, Zenon DEF TypeOK, VPages
  <2>2. QED BY <1>00, <1>1, <1>3, <1>6, <2>1 DEF PageInv
<1>16. ChildInv'
  BY <1>00, <1>1, <1>6, ChildKept, Zenon
<1>17. StackInv'
  BY <1>00, <1>1, <1>6, <1>13, Zenon DEF StackInv, ChildInv
<1>18. QED BY <1>5, <1>11, <1>12, <1>14, <1>15, <1>16, <1>17, Zenon DEF IInv
-----------------------------------------------------------------------------
(* fork().                                                                 *)

(* An environment is destroyed, and gives back all its memory.             *)
LEMMA ClearStep ==
  ASSUME IInv, Serving, NEW e \in Envs, pc[e] # "embryo", Clear(e)
  PROVE  IInv'
<1>0. TypeOK /\ TempInv /\ PageInv /\ ChildInv /\ CowInv /\ WriterInv /\ StackInv
  BY Zenon DEF IInv
<1>1. PICK P : P = {e} \X VPages
  BY ZenonT(60)
<1>2. /\ frames' \subseteq [at : SUBSET Places, val : Values]
      /\ \A g \in frames' : \E f \in frames : g.at = f.at \ P
      /\ \A f \in frames : f.at \cap P = {} /\ f.at # {} => \E g \in frames' : g.at = f.at
  <2>1. frames' = InUse({[f EXCEPT !.at = @ \ P] : f \in frames})
    BY <1>1, Zenon DEF Clear
  <2>2. QED BY <1>0, <2>1, DropEffect, ZenonT(60)
<1>3. TypeOK'
  <2>1. pte' \in [Envs -> [VPages -> Perms]]
    BY <1>0, Zenon DEF Clear, TypeOK, Perms
  <2>2. /\ pc' \in [Envs -> Labels] /\ ret' \in [Envs -> {"user"} \cup InFork]
        /\ perm' \in [Envs -> Perms]
    BY <1>0, Zenon DEF Clear, TypeOK, Labels, Perms
  <2>3. fva' \in [Envs -> Private] /\ child' \in [Envs -> Envs \cup {NoEnv}]
    BY <1>0, LayoutAssumption, Zenon DEF Clear, TypeOK
  <2>4. vp' \in [Envs -> 1 .. Len(Order)]
    <3>1. 1 \in 1 .. Len(Order)
      BY LayoutAssumption DEF VPages
    <3>2. QED BY <1>0, <3>1, Zenon DEF Clear, TypeOK
  <2>5. upcall' \in [Envs -> BOOLEAN]
    BY <1>0, Zenon DEF Clear, TypeOK
  <2>6. QED BY <1>0, <1>2, <2>1, <2>2, <2>3, <2>4, <2>5, Zenon DEF TypeOK
<1>4. /\ \A d \in Envs \ {e} : /\ pc'[d] = pc[d] /\ ret'[d] = ret[d] /\ fva'[d] = fva[d]
                               /\ child'[d] = child[d] /\ vp'[d] = vp[d]
                               /\ perm'[d] = perm[d] /\ upcall'[d] = upcall[d]
      /\ pc'[e] = "free" /\ child'[e] = NoEnv
  BY <1>0, Zenon DEF Clear, TypeOK
<1>5. upcall'[e] = FALSE
  BY <1>0, Zenon DEF Clear, TypeOK
<1>6. Locus(e)' = "free" /\ \A d \in Envs \ {e} : Locus(d)' = Locus(d)
  BY <1>4, Zenon DEF Locus, InHandler
<1>7. /\ \A d \in Envs \ {e}, v \in VPages : pte'[d][v] = pte[d][v]
      /\ \A v \in VPages : pte'[e][v] = "none"
  BY <1>0, Zenon DEF Clear, TypeOK
<1>8. CowInv' /\ WriterInv'
  <2>1. \A g \in frames' : \/ \E p \in Places : g.at = {p}
                           \/ \E f \in frames : g.at \subseteq f.at \ P
    BY <1>2, Zenon
  <2>2. \A p \in Places \ P : p[1] \in Envs \ {e} /\ p[2] \in VPages
    BY <1>1, Zenon DEF Places
  <2>3. /\ \A p \in Places \ P : pte'[p[1]][p[2]] = pte[p[1]][p[2]]
        /\ \A p \in Places \ P : Locus(p[1]) = "remap" =>
             /\ child'[p[1]] = child[p[1]]
             /\ Locus(p[1])' = "panic" \/ (Locus(p[1])' = "remap" /\ vp'[p[1]] = vp[p[1]])
    BY <1>4, <1>6, <1>7, <2>2, Zenon
  <2>4. \A d \in Envs : pc[d] = "pf_unmap" => pc'[d] = "pf_unmap" \/ <<d, PFTEMP>> \in P
    BY <1>1, <1>4, LayoutAssumption, Zenon
  <2>5. QED BY <1>0, <1>2, <2>1, <2>3, <2>4, Shrinks, Zenon
<1>9. \A d \in Envs \ {e} : HasXStack(d) => HasXStack(d)'
  <2> SUFFICES ASSUME NEW d \in Envs \ {e}, HasXStack(d) PROVE HasXStack(d)'
    BY Zenon
  <2>1. \A f \in frames : f.at = {<<d, XStack>>} => \E g \in frames' : g.at = f.at
    <3>1. <<d, XStack>> \notin P
      BY <1>1, Zenon
    <3>2. \A f \in frames : f.at = {<<d, XStack>>} => f.at \cap P = {} /\ f.at # {}
      BY <3>1, Zenon
    <3>3. QED BY <1>2, <3>2, Zenon
  <2>2. pte'[d][XStack] = pte[d][XStack]
    BY <1>7, LayoutAssumption, Zenon
  <2>3. QED BY <2>1, <2>2, StackKept, Zenon
<1>10. TempInv'
  BY <1>0, <1>4, <1>7, LayoutAssumption DEF TempInv
<1>11. PageInv'
  <2> SUFFICES ASSUME NEW d \in Envs
               PROVE  /\ Locus(d)' \in {"map", "remap"} => Order[vp'[d]] \notin {XStack, PFTEMP}
                      /\ Locus(d)' = "map" => perm'[d] \in {"share", "r", "cow"}
                      /\ Locus(d)' = "remap" \/ (Locus(d)' = "map" /\ perm'[d] = "cow") =>
                           pte'[d][Order[vp'[d]]] \in {"w", "cow"}
                      /\ pc'[d] \in InHandler /\ ret'[d] # "user" => fva'[d] = Stack
    BY <1>0, Zenon DEF PageInv
  <2>1. CASE d = e
    BY <1>4, <1>6, <2>1, Zenon DEF InHandler
  <2>2. CASE d # e
    <3>1. Order[vp[d]] \in VPages
      BY <1>0, Zenon DEF TypeOK, VPages
    <3>2. QED BY <1>0, <1>4, <1>6, <1>7, <2>2, <3>1 DEF PageInv
  <2>3. QED BY <2>1, <2>2, Zenon
<1>12. ChildInv'
  BY <1>0, <1>4, <1>6, LayoutAssumption DEF ChildInv, HasChild
<1>13. StackInv'
  BY <1>0, <1>4, <1>5, <1>6, <1>9 DEF StackInv, ChildInv, HasChild
<1>14. QED BY <1>3, <1>8, <1>10, <1>11, <1>12, <1>13, Zenon DEF IInv

(* pgfault is done with PFTEMP.                                            *)
LEMMA UnmapStep ==
  ASSUME IInv, Serving, NEW e \in Envs, pgfault_unmap(e)
  PROVE  IInv'
<1>0. TypeOK /\ TempInv /\ PageInv /\ ChildInv /\ CowInv /\ WriterInv /\ StackInv
  BY Zenon DEF IInv
<1>1. /\ pc[e] = "pf_unmap" /\ pc' = [pc EXCEPT ![e] = ret[e]]
      /\ ret' = [ret EXCEPT ![e] = "user"] /\ fva' = [fva EXCEPT ![e] = Stack]
      /\ UNCHANGED <<child, vp, perm, upcall>>
  BY Zenon DEF pgfault_unmap, Goto
<1>2. PICK P : P = {<<e, PFTEMP>>}
  BY ZenonT(60)
<1>3. /\ frames' \subseteq [at : SUBSET Places, val : Values]
      /\ \A g \in frames' : \E f \in frames : g.at = f.at \ P
      /\ \A f \in frames : f.at \cap P = {} /\ f.at # {} => \E g \in frames' : g.at = f.at
  <2>1. frames' = InUse({[f EXCEPT !.at = @ \ P] : f \in frames})
    BY <1>2, Zenon DEF pgfault_unmap, sys_page_unmap
  <2>2. QED BY <1>0, <2>1, DropEffect, ZenonT(60)
<1>4. /\ pte' \in [Envs -> [VPages -> Perms]]
      /\ \A d \in Envs, v \in VPages :
           pte'[d][v] = IF d = e /\ v = PFTEMP THEN "none" ELSE pte[d][v]
  BY <1>0, LayoutAssumption, ZenonT(60) DEF pgfault_unmap, sys_page_unmap, TypeOK, Perms
<1>5. TypeOK'
  BY <1>0, <1>1, <1>3, <1>4, LayoutAssumption, ZenonT(60) DEF TypeOK, Labels
<1>6. /\ \A d \in Envs \ {e} : pc'[d] = pc[d] /\ ret'[d] = ret[d] /\ fva'[d] = fva[d]
      /\ pc'[e] = ret[e] /\ ret[e] \notin InHandler /\ ret[e] # "embryo"
  BY <1>0, <1>1, ZenonT(60) DEF TypeOK, InFork, InHandler
<1>7. \A d \in Envs : Locus(d)' = Locus(d)
  BY <1>1, <1>6, Zenon DEF Locus, InHandler
<1>8. CowInv' /\ WriterInv'
  <2>1. \A g \in frames' : \/ \E p \in Places : g.at = {p}
                           \/ \E f \in frames : g.at \subseteq f.at \ P
    BY <1>3, Zenon
  <2>2. \A p \in Places \ P : p[1] \in Envs /\ p[2] \in VPages /\ ~ (p[1] = e /\ p[2] = PFTEMP)
    BY <1>2 DEF Places
  <2>3. /\ \A p \in Places \ P : pte'[p[1]][p[2]] = pte[p[1]][p[2]]
        /\ \A p \in Places \ P : Locus(p[1]) = "remap" =>
             /\ child'[p[1]] = child[p[1]]
             /\ Locus(p[1])' = "panic" \/ (Locus(p[1])' = "remap" /\ vp'[p[1]] = vp[p[1]])
    BY <1>1, <1>4, <1>7, <2>2, Zenon
  <2>4. \A d \in Envs : pc[d] = "pf_unmap" => pc'[d] = "pf_unmap" \/ <<d, PFTEMP>> \in P
    BY <1>2, <1>6, Zenon
  <2>5. QED BY <1>0, <1>3, <2>1, <2>3, <2>4, Shrinks, Zenon
<1>9. \A d \in Envs : HasXStack(d) => HasXStack(d)'
  <2> SUFFICES ASSUME NEW d \in Envs, HasXStack(d) PROVE HasXStack(d)'
    BY Zenon
  <2>1. <<d, XStack>> \notin P
    BY <1>2, LayoutAssumption, Zenon
  <2>2. \A f \in frames : f.at = {<<d, XStack>>} => f.at \cap P = {} /\ f.at # {}
    BY <2>1, Zenon
  <2>3. pte'[d][XStack] = pte[d][XStack]
    BY <1>4, LayoutAssumption, Zenon
  <2>4. QED BY <1>3, <2>2, <2>3, StackKept, Zenon
<1>10. TempInv'
  BY <1>0, <1>1, <1>4, <1>6, LayoutAssumption DEF TempInv
<1>11. PageInv'
  <2>1. \A d \in Envs : Order[vp[d]] \in VPages
    BY <1>0, Zenon DEF TypeOK, VPages
  <2>2. QED BY <1>0, <1>1, <1>4, <1>6, <1>7, <2>1 DEF PageInv
<1>12. ChildInv'
  BY <1>0, <1>1, <1>6, <1>7, ChildKept, Zenon
<1>13. StackInv'
  BY <1>0, <1>1, <1>7, <1>9, Zenon DEF StackInv, ChildInv
<1>14. QED BY <1>5, <1>8, <1>10, <1>11, <1>12, <1>13, Zenon DEF IInv

(* Read-only pages are handed on as they are: what duppage maps shared was *)
(* shared, what it maps copy-on-write could be written.                    *)
LEMMA TextKept ==
  ASSUME IInv, TextInv, Next
  PROVE  TextInv'
<1>0. TypeOK /\ TempInv /\ PageInv /\ ChildInv /\ CowInv /\ WriterInv /\ StackInv
  BY Zenon DEF IInv
<1>1. \A v \in Text : v \in VPages /\ v \notin Private /\ v # XStack /\ v # PFTEMP
  BY LayoutAssumption, Zenon
<1>2. PICK e \in Envs :
        \/ \E v \in Private \cup Shared, x \in Values : Store(e, v, x)
        \/ \E v \in Private \cup Text : page_fault(e, v)
        \/ pgfault(e) \/ set_pgfault_handler(e) \/ fork(e) \/ env_destroy(e)
  BY Zenon DEF Next
<1>3. ASSUME pte' = pte PROVE TextInv'
  BY <1>3, Zenon DEF TextInv
<1>4. ASSUME Clear(e) PROVE TextInv'
  <2>1. \A d \in Envs, v \in VPages : pte'[d][v] \in {pte[d][v], "none"}
    BY <1>0, <1>4, Zenon DEF Clear, TypeOK
  <2>2. QED BY <1>1, <2>1, Zenon DEF TextInv
<1>5. ASSUME NEW d \in Envs, NEW w \in VPages, NEW pm, w \in Text => pm \in {"none", "r"},
             pte' = [pte EXCEPT ![d][w] = pm]
      PROVE  TextInv'
  <2>1. \A a \in Envs, v \in VPages : pte'[a][v] = IF a = d /\ v = w THEN pm ELSE pte[a][v]
    BY <1>0, <1>5, Zenon DEF TypeOK
  <2>2. QED BY <1>1, <1>5, <2>1 DEF TextInv
<1>6. CASE \E v \in Private \cup Shared, x \in Values : Store(e, v, x)
  BY <1>3, <1>6, Zenon DEF Store, SetPage
<1>7. CASE \E v \in Private \cup Text : page_fault(e, v)
  BY <1>3, <1>4, <1>7, Zenon DEF page_fault, memory
<1>8. CASE pgfault(e)
  <2>1. fva[e] \in VPages /\ fva[e] \notin Text /\ PFTEMP \in VPages
    BY <1>0, LayoutAssumption, Zenon DEF TypeOK
  <2>2. CASE pgfault_alloc(e)
    BY <1>1, <1>3, <1>5, <2>1, <2>2, Zenon DEF pgfault_alloc, sys_page_alloc, memory
  <2>3. CASE pgfault_copy(e)
    BY <1>3, <2>3, Zenon DEF pgfault_copy, SetPage
  <2>4. CASE pgfault_map(e)
    BY <1>5, <2>1, <2>4, ZenonT(60) DEF pgfault_map, sys_page_map
  <2>5. CASE pgfault_unmap(e)
    BY <1>1, <1>5, <2>1, <2>5, ZenonT(60) DEF pgfault_unmap, sys_page_unmap
  <2>6. QED BY <1>8, <2>2, <2>3, <2>4, <2>5, Zenon DEF pgfault
<1>9. CASE set_pgfault_handler(e)
  <2>1. XStack \in VPages /\ XStack \notin Text
    BY LayoutAssumption, Zenon
  <2>2. QED BY <1>3, <1>5, <1>9, <2>1, Zenon DEF set_pgfault_handler, sys_page_alloc, memory
<1>10. CASE fork(e)
  <2>1. PICK v \in VPages : v = Order[vp[e]]
    BY <1>0, SMTT(60) DEF TypeOK, VPages
  <2>2. CASE fork_page(e)
    <3>1. CASE pte' = pte
      BY <1>3, <3>1, Zenon
    <3>2. CASE sys_page_alloc(child[e], XStack)
      <4>1. child[e] \in Envs
        BY <1>0, <2>2, Zenon DEF fork_page, ChildInv, Locus, InHandler, HasChild
      <4>2. XStack \in VPages /\ XStack \notin Text
        BY LayoutAssumption, Zenon
      <4>3. QED BY <1>5, <3>2, <4>1, <4>2, ZenonT(60) DEF sys_page_alloc
    <3>3. QED BY <2>2, <3>1, <3>2, Zenon DEF fork_page, memory
  <2>3. CASE duppage_map(e)
    <3>1. CASE pte' = pte
      BY <1>3, <3>1, Zenon
    <3>2. CASE sys_page_map(e, v, child[e], v, perm[e])
      <4>1. Locus(e) = "map" /\ child[e] \in Envs
        BY <1>0, <2>3, Zenon DEF duppage_map, ChildInv, Locus, InHandler, HasChild
      <4>2. /\ perm[e] \in {"share", "r", "cow"}
            /\ perm[e] = "cow" => pte[e][v] \in {"w", "cow"}
            /\ perm[e] = "share" => pte[e][v] \in {"w", "share"}
        BY <1>0, <2>1, <3>2, <4>1, Zenon DEF PageInv, sys_page_map, IsWritable
      <4>3. v \in Text => perm[e] \in {"none", "r"}
        BY <4>2, Zenon DEF TextInv
      <4>4. QED BY <1>5, <3>2, <4>1, <4>3, ZenonT(60) DEF sys_page_map
    <3>3. QED BY <2>1, <2>3, <3>1, <3>2, Zenon DEF duppage_map, memory
  <2>4. CASE duppage_remap(e)
    <3>1. v \notin Text
      BY <1>0, <2>1, <2>4, Zenon DEF duppage_remap, PageInv, Locus, InHandler, TextInv
    <3>2. QED BY <1>5, <2>1, <2>4, <3>1, ZenonT(60) DEF duppage_remap, sys_page_map
  <2>5. QED BY <1>3, <1>10, <2>2, <2>3, <2>4, Zenon
            DEF fork, sys_exofork, sys_env_set_pgfault_upcall, sys_env_set_status, memory
<1>11. CASE env_destroy(e)
  BY <1>4, <1>11, Zenon DEF env_destroy
<1>12. QED BY <1>2, <1>6, <1>7, <1>8, <1>9, <1>10, <1>11, Zenon DEF IInv

(* Of a loaded program nothing is copy-on-write, and every page is mapped  *)
(* once.                                                                   *)
LEMMA InitInv == Init => IInv
<1> SUFFICES ASSUME Init PROVE IInv
  BY Zenon
<1>1. \A v \in Private \cup Shared \cup Text : v \in VPages
  BY LayoutAssumption, Zenon
<1>2. \A f \in frames : \E v \in Private \cup Shared \cup Text :
        f = [at |-> {<<Root, v>>}, val |-> Zero]
  BY Zenon DEF Init
<1>3. pte \in [Envs -> [VPages -> Perms]]
  BY Zenon DEF Init, Perms
<1>4. TypeOK
  <2>1. frames \subseteq [at : SUBSET Places, val : Values]
    BY <1>1, <1>2, LayoutAssumption DEF Places
  <2>2. pc \in [Envs -> Labels] /\ perm \in [Envs -> Perms]
    BY Zenon DEF Init, Labels, Perms
  <2>3. vp \in [Envs -> 1 .. Len(Order)]
    <3>1. 1 \in 1 .. Len(Order)
      BY LayoutAssumption DEF VPages
    <3>2. QED BY <3>1, Zenon DEF Init
  <2>4. upcall \in [Envs -> BOOLEAN]
    BY Zenon DEF Init
  <2>5. /\ ret \in [Envs -> {"user"} \cup InFork] /\ fva \in [Envs -> Private]
        /\ child \in [Envs -> Envs \cup {NoEnv}]
    BY LayoutAssumption, Zenon DEF Init
  <2>6. QED BY <1>3, <2>1, <2>2, <2>3, <2>4, <2>5, Zenon DEF TypeOK
<1>5. \A e \in Envs : /\ pc[e] \in {"user", "free"} /\ Locus(e) \in {"user", "free"}
                      /\ child[e] = NoEnv
  BY ZenonT(60) DEF Init, Locus, InHandler
<1>6. TempInv
  BY LayoutAssumption, ZenonT(60) DEF Init, TempInv
<1>7. PageInv /\ ChildInv
  BY <1>5, LayoutAssumption, Zenon DEF PageInv, ChildInv, HasChild, InHandler
<1>8. \A f \in frames : \A p, q \in f.at : p = q
  BY <1>2
<1>9. CowInv
  BY <1>8, Zenon DEF CowInv, Cow, Writes
<1>10. WriterInv
  BY <1>8, Zenon DEF WriterInv
<1>11. \A e \in Envs : ~ upcall[e]
  BY ZenonT(60) DEF Init
<1>12. StackInv
  BY <1>5, <1>11, ZenonT(60) DEF StackInv, HasChild
<1>13. QED BY <1>4, <1>6, <1>7, <1>9, <1>10, <1>12, Zenon DEF IInv

(* A new page at (d, va), where there is no exception stack in use yet or  *)
(* (d, va) is one: what holds of the frames still does.                    *)
LEMMA AllocKeeps ==
  ASSUME TypeOK, Serving, CowInv, WriterInv, NEW d \in Envs, NEW va \in VPages,
         sys_page_alloc(d, va),
         \A c \in Envs : Locus(c) = "remap" =>
           child'[c] = child[c] /\ Locus(c)' = "remap" /\ vp'[c] = vp[c],
         \A c \in Envs : pc[c] = "pf_unmap" => pc'[c] = "pf_unmap"
  PROVE  /\ CowInv' /\ WriterInv'
         /\ \A c \in Envs : HasXStack(c) => HasXStack(c)'
         /\ va = XStack => HasXStack(d)'
<1>1. PICK P : P = {<<d, va>>}
  BY ZenonT(60)
<1>2. /\ frames' \subseteq [at : SUBSET Places, val : Values]
      /\ \A g \in frames' : \/ g.at = {<<d, va>>}
                            \/ \E f \in frames : g.at = f.at \ {<<d, va>>}
      /\ \E g \in frames' : g.at = {<<d, va>>}
      /\ \A f \in frames : <<d, va>> \notin f.at /\ f.at # {} => \E g \in frames' : g.at = f.at
      /\ \A a \in Envs, v \in VPages :
           pte'[a][v] = IF a = d /\ v = va THEN "w" ELSE pte[a][v]
  <2>1. Allocates(d, va)
    BY AllocEffect, Zenon
  <2>2. QED BY <2>1, Zenon DEF Allocates
<1>3. CowInv' /\ WriterInv'
  <2>1. <<d, va>> \in Places
    BY Zenon DEF Places
  <2>2. \A g \in frames' : \/ \E p \in Places : g.at = {p}
                           \/ \E f \in frames : g.at \subseteq f.at \ P
    BY <1>1, <1>2, <2>1
  <2>3. \A p \in Places \ P : p[1] \in Envs /\ p[2] \in VPages /\ ~ (p[1] = d /\ p[2] = va)
    BY <1>1 DEF Places
  <2>4. /\ \A p \in Places \ P : pte'[p[1]][p[2]] = pte[p[1]][p[2]]
        /\ \A p \in Places \ P : Locus(p[1]) = "remap" =>
             /\ child'[p[1]] = child[p[1]]
             /\ Locus(p[1])' = "panic" \/ (Locus(p[1])' = "remap" /\ vp'[p[1]] = vp[p[1]])
        /\ \A c \in Envs : pc[c] = "pf_unmap" => pc'[c] = "pf_unmap" \/ <<c, PFTEMP>> \in P
    BY <1>2, <2>3
  <2>5. QED BY <1>2, <2>2, <2>4, Shrinks, Zenon
<1>4. va = XStack => HasXStack(d)'
  BY <1>2, Zenon DEF HasXStack
<1>5. ASSUME NEW c \in Envs, HasXStack(c), ~ (c = d /\ va = XStack) PROVE HasXStack(c)'
  <2>1. \A f \in frames : f.at = {<<c, XStack>>} => \E g \in frames' : g.at = f.at
    <3>1. <<c, XStack>> # <<d, va>>
      BY <1>5, Zenon
    <3>2. QED BY <1>2, <3>1, ZenonT(60)
  <2>2. pte'[c][XStack] = pte[c][XStack]
    BY <1>2, <1>5, LayoutAssumption
  <2>3. QED BY <1>5, <2>1, <2>2, StackKept, Zenon
<1>6. QED BY <1>3, <1>4, <1>5, Zenon

(* Where an environment is depends on its own locals.                      *)
LEMMA LocusSame ==
  ASSUME NEW d, pc'[d] = pc[d], ret'[d] = ret[d]
  PROVE  Locus(d)' = Locus(d)
BY Zenon DEF Locus

(* A step that changes no mapping.                                         *)
LEMMA QuietMemory ==
  ASSUME TypeOK, Serving, CowInv, WriterInv,
         frames' \subseteq [at : SUBSET Places, val : Values],
         \A g \in frames' : \E f \in frames : g.at = f.at,
         \A f \in frames : \E g \in frames' : g.at = f.at,
         pte' = pte,
         \A d \in Envs : Locus(d) = "remap" =>
           /\ child'[d] = child[d]
           /\ Locus(d)' = "panic" \/ (Locus(d)' = "remap" /\ vp'[d] = vp[d]),
         \A d \in Envs : pc[d] = "pf_unmap" => pc'[d] = "pf_unmap"
  PROVE  CowInv' /\ WriterInv' /\ \A d \in Envs : HasXStack(d)' = HasXStack(d)
<1>1. PICK P : P = {}
  BY ZenonT(60)
<1>2. \A g \in frames' : \/ \E p \in Places : g.at = {p}
                        \/ \E f \in frames : g.at \subseteq f.at \ P
  BY <1>1, Zenon
<1>3. /\ \A p \in Places \ P : pte'[p[1]][p[2]] = pte[p[1]][p[2]]
      /\ \A p \in Places \ P : Locus(p[1]) = "remap" =>
           /\ child'[p[1]] = child[p[1]]
           /\ Locus(p[1])' = "panic" \/ (Locus(p[1])' = "remap" /\ vp'[p[1]] = vp[p[1]])
      /\ \A d \in Envs : pc[d] = "pf_unmap" => pc'[d] = "pf_unmap" \/ <<d, PFTEMP>> \in P
  BY Zenon DEF Places
<1>4. CowInv' /\ WriterInv'
  BY <1>2, <1>3, Shrinks, Zenon
<1>5. \A d \in Envs : HasXStack(d)' = HasXStack(d)
  BY ZenonT(60) DEF HasXStack
<1>6. QED BY <1>4, <1>5, Zenon

(* A program stores where it may.                                          *)
LEMMA StoreStep ==
  ASSUME IInv, Serving, NEW e \in Envs, NEW v \in VPages, NEW x \in Values, Store(e, v, x)
  PROVE  IInv'
<1>0. TypeOK /\ TempInv /\ PageInv /\ ChildInv /\ CowInv /\ WriterInv /\ StackInv
  BY Zenon DEF IInv
<1>1. SetPage(e, v, x) /\ UNCHANGED <<pc, ret, fva, child, vp, perm, upcall>>
  BY Zenon DEF Store, locals
<1>2. /\ frames' \subseteq [at : SUBSET Places, val : Values]
      /\ \A g \in frames' : \E f \in frames : g.at = f.at
      /\ \A f \in frames : \E g \in frames' : g.at = f.at
      /\ pte' = pte
  BY <1>0, <1>1, SetEffect, Zenon
<1>3. \A d \in Envs : Locus(d)' = Locus(d)
  BY <1>1, LocusSame, Zenon
<1>4. CowInv' /\ WriterInv' /\ \A d \in Envs : HasXStack(d)' = HasXStack(d)
  BY <1>0, <1>1, <1>2, <1>3, QuietMemory, Zenon
<1>5. TypeOK'
  BY <1>0, <1>1, <1>2, Zenon DEF TypeOK
<1>6. TempInv' /\ PageInv' /\ ChildInv'
  BY <1>0, <1>1, <1>2, <1>3 DEF TempInv, PageInv, ChildInv
<1>7. StackInv'
  BY <1>0, <1>1, <1>3, <1>4, Zenon DEF StackInv, ChildInv
<1>8. QED BY <1>4, <1>5, <1>6, <1>7, Zenon DEF IInv

(* pgfault's memcpy.                                                       *)
LEMMA CopyStep ==
  ASSUME IInv, Serving, NEW e \in Envs, pgfault_copy(e)
  PROVE  IInv'
<1>0. TypeOK /\ TempInv /\ PageInv /\ ChildInv /\ CowInv /\ WriterInv /\ StackInv
  BY Zenon DEF IInv
<1>1. PICK x \in Values : SetPage(e, PFTEMP, x)
  BY Zenon DEF pgfault_copy
<1>2. /\ pc[e] = "pf_copy" /\ pc' = [pc EXCEPT ![e] = "pf_map"]
      /\ UNCHANGED <<ret, fva, child, vp, perm, upcall>>
  BY Zenon DEF pgfault_copy, Goto, locals
<1>3. /\ frames' \subseteq [at : SUBSET Places, val : Values]
      /\ \A g \in frames' : \E f \in frames : g.at = f.at
      /\ \A f \in frames : \E g \in frames' : g.at = f.at
      /\ pte' = pte
  BY <1>0, <1>1, SetEffect, LayoutAssumption, Zenon
<1>4. \A d \in Envs : /\ Locus(d)' = Locus(d)
                      /\ pc[d] \in InHandler <=> pc'[d] \in InHandler
                      /\ d # e => pc'[d] = pc[d]
  BY <1>0, <1>2, Zenon DEF Locus, TypeOK, InHandler
<1>5. \A d \in Envs : pc[d] \in {"pf_unmap", "embryo"} => pc'[d] = pc[d]
  BY <1>2, <1>4, Zenon
<1>6. CowInv' /\ WriterInv' /\ \A d \in Envs : HasXStack(d)' = HasXStack(d)
  BY <1>0, <1>2, <1>3, <1>4, <1>5, QuietMemory, Zenon
<1>7. TypeOK'
  BY <1>0, <1>2, <1>3, Zenon DEF TypeOK, Labels, InHandler
<1>8. TempInv'
  BY <1>0, <1>2, <1>3, <1>7, Zenon DEF TempInv, TypeOK
<1>9. PageInv'
  BY <1>0, <1>2, <1>3, <1>4, Zenon DEF PageInv
<1>10. ChildInv'
  BY <1>0, <1>2, <1>4, <1>5, ChildKept, Zenon
<1>11. StackInv'
  BY <1>0, <1>2, <1>4, <1>6, Zenon DEF StackInv, ChildInv
<1>12. QED BY <1>6, <1>7, <1>8, <1>9, <1>10, <1>11, Zenon DEF IInv

(* A call fails, and the program panics.                                   *)
LEMMA PanicStep ==
  ASSUME IInv, Serving, NEW e \in Envs,
         pc[e] \notin {"embryo", "pf_copy", "pf_map", "pf_unmap"},
         Goto(e, "panic"), UNCHANGED <<memory, ret, fva, child, vp, upcall>>,
         perm' \in [Envs -> Perms], \A d \in Envs \ {e} : perm'[d] = perm[d]
  PROVE  IInv'
<1>0. TypeOK /\ TempInv /\ PageInv /\ ChildInv /\ CowInv /\ WriterInv /\ StackInv
  BY Zenon DEF IInv
<1>1. /\ pc' = [pc EXCEPT ![e] = "panic"] /\ frames' = frames /\ pte' = pte
      /\ UNCHANGED <<ret, fva, child, vp, upcall>>
  BY Zenon DEF Goto, memory
<1>2. TypeOK'
  BY <1>0, <1>1, Zenon DEF TypeOK, Labels
<1>3. /\ Locus(e)' = "panic" /\ pc'[e] = "panic"
      /\ \A d \in Envs \ {e} : Locus(d)' = Locus(d) /\ pc'[d] = pc[d]
  BY <1>0, <1>1, Zenon DEF Locus, TypeOK, InHandler
<1>4. \A d \in Envs : pc[d] \in {"pf_unmap", "embryo"} => pc'[d] = pc[d]
  BY <1>3, Zenon
<1>5. /\ frames \subseteq [at : SUBSET Places, val : Values]
      /\ \A d \in Envs : Locus(d) = "remap" =>
           /\ child'[d] = child[d]
           /\ Locus(d)' = "panic" \/ (Locus(d)' = "remap" /\ vp'[d] = vp[d])
      /\ \A f \in frames : \E g \in frames : f.at = g.at
  BY <1>0, <1>1, <1>3, Zenon DEF TypeOK
<1>6. CowInv' /\ WriterInv' /\ \A d \in Envs : HasXStack(d)' = HasXStack(d)
  BY <1>0, <1>1, <1>4, <1>5, QuietMemory, Zenon
<1>7. TempInv'
  BY <1>0, <1>1, <1>3, Zenon DEF TempInv
<1>8. PageInv'
  BY <1>0, <1>1, <1>3 DEF PageInv, InHandler
<1>9. ChildInv'
  BY <1>0, <1>1, <1>3, <1>4, ChildKept, Zenon DEF HasChild
<1>10. StackInv'
  BY <1>0, <1>1, <1>3, <1>6, Zenon DEF StackInv, ChildInv, HasChild
<1>11. QED BY <1>2, <1>6, <1>7, <1>8, <1>9, <1>10, Zenon DEF IInv

(* A store to a copy-on-write page enters the handler.                     *)
LEMMA FaultStep ==
  ASSUME IInv, Serving, NEW e \in Envs, NEW v \in Private, MayStore(e, v),
         Goto(e, "pf_alloc"), ret' = [ret EXCEPT ![e] = pc[e]],
         fva' = [fva EXCEPT ![e] = v], UNCHANGED <<memory, child, vp, perm, upcall>>
  PROVE  IInv'
<1>0. TypeOK /\ TempInv /\ PageInv /\ ChildInv /\ CowInv /\ WriterInv /\ StackInv
  BY Zenon DEF IInv
<1>1. /\ pc' = [pc EXCEPT ![e] = "pf_alloc"] /\ frames' = frames /\ pte' = pte
      /\ UNCHANGED <<child, vp, perm, upcall>>
      /\ pc[e] \in {"user"} \cup InFork /\ (pc[e] # "user" => v = Stack)
  BY Zenon DEF Goto, memory, MayStore
<1>2. TypeOK'
  BY <1>0, <1>1, Zenon DEF TypeOK, Labels, InHandler
<1>3. /\ \A d \in Envs : Locus(d)' = Locus(d)
      /\ \A d \in Envs \ {e} : pc'[d] = pc[d] /\ ret'[d] = ret[d] /\ fva'[d] = fva[d]
      /\ pc'[e] = "pf_alloc" /\ ret'[e] = pc[e] /\ fva'[e] = v
  BY <1>0, <1>1, Zenon DEF Locus, TypeOK, InHandler, InFork
<1>4. \A d \in Envs : pc[d] \in {"pf_unmap", "embryo"} => pc'[d] = pc[d]
  BY <1>1, <1>3, Zenon DEF InFork
<1>5. /\ frames \subseteq [at : SUBSET Places, val : Values]
      /\ \A f \in frames : \E g \in frames : f.at = g.at
  BY <1>0, Zenon DEF TypeOK
<1>6. CowInv' /\ WriterInv' /\ \A d \in Envs : HasXStack(d)' = HasXStack(d)
  BY <1>0, <1>1, <1>3, <1>4, <1>5, QuietMemory, Zenon
<1>7. TempInv'
  BY <1>0, <1>1, <1>3, Zenon DEF TempInv, InFork
<1>8. PageInv'
  BY <1>0, <1>1, <1>3, Zenon DEF PageInv
<1>9. ChildInv'
  BY <1>0, <1>1, <1>3, <1>4, ChildKept, Zenon
<1>10. StackInv'
  BY <1>0, <1>1, <1>3, <1>6 DEF StackInv, ChildInv
<1>11. QED BY <1>2, <1>6, <1>7, <1>8, <1>9, <1>10, Zenon DEF IInv

(* pgfault allocates the page for the copy.                                *)
LEMMA AllocStep ==
  ASSUME IInv, Serving, NEW e \in Envs, pc[e] = "pf_alloc", Goto(e, "pf_copy"),
         sys_page_alloc(e, PFTEMP), UNCHANGED <<locals, upcall>>
  PROVE  IInv'
<1>0. TypeOK /\ TempInv /\ PageInv /\ ChildInv /\ CowInv /\ WriterInv /\ StackInv
  BY Zenon DEF IInv
<1>1. pc' = [pc EXCEPT ![e] = "pf_copy"] /\ UNCHANGED <<ret, fva, child, vp, perm, upcall>>
  BY Zenon DEF Goto, locals
<1>2. /\ frames' \subseteq [at : SUBSET Places, val : Values]
      /\ pte' \in [Envs -> [VPages -> Perms]]
      /\ \A a \in Envs, v \in VPages :
           pte'[a][v] = IF a = e /\ v = PFTEMP THEN "w" ELSE pte[a][v]
  <2>1. Allocates(e, PFTEMP)
    BY <1>0, AllocEffect, LayoutAssumption, Zenon
  <2>2. QED BY <2>1, Zenon DEF Allocates
<1>3. TypeOK'
  BY <1>0, <1>1, <1>2, ZenonT(60) DEF TypeOK, Labels, InHandler
<1>4. \A d \in Envs : /\ Locus(d)' = Locus(d)
                      /\ pc[d] \in InHandler <=> pc'[d] \in InHandler
                      /\ pc[d] # "pf_alloc" => pc'[d] = pc[d]
  BY <1>0, <1>1, Zenon DEF Locus, TypeOK, InHandler
<1>5. /\ CowInv' /\ WriterInv'
      /\ \A d \in Envs : HasXStack(d) => HasXStack(d)'
  BY <1>0, <1>1, <1>4, AllocKeeps, LayoutAssumption, Zenon
<1>6. TempInv'
  BY <1>0, <1>1, <1>2, LayoutAssumption DEF TempInv, TypeOK
<1>7. PageInv'
  <2>1. \A d \in Envs : Order[vp[d]] \in VPages
    BY <1>0, Zenon DEF TypeOK, VPages
  <2>2. QED BY <1>0, <1>1, <1>2, <1>4, <2>1 DEF PageInv
<1>8. ChildInv'
  BY <1>0, <1>1, <1>4, ChildKept, Zenon
<1>9. StackInv'
  BY <1>0, <1>1, <1>4, <1>5, Zenon DEF StackInv, ChildInv
<1>10. QED BY <1>3, <1>5, <1>6, <1>7, <1>8, <1>9, Zenon DEF IInv

(* set_pgfault_handler finds the handler installed.                        *)
LEMMA InstalledStep ==
  ASSUME IInv, Serving, NEW e \in Envs, pc[e] = "user", Goto(e, "exofork"),
         UNCHANGED <<memory, locals, upcall>>
  PROVE  IInv'
<1>0. TypeOK /\ TempInv /\ PageInv /\ ChildInv /\ CowInv /\ WriterInv /\ StackInv
  BY Zenon DEF IInv
<1>1. /\ pc' = [pc EXCEPT ![e] = "exofork"]
      /\ UNCHANGED <<frames, pte, ret, fva, child, vp, perm, upcall>>
  BY Zenon DEF Goto, memory, locals
<1>2. TypeOK'
  BY <1>0, <1>1, Zenon DEF TypeOK, Labels, InFork
<1>3. /\ Locus(e) = "user" /\ Locus(e)' = "exofork" /\ pc'[e] = "exofork"
      /\ \A d \in Envs \ {e} : Locus(d)' = Locus(d) /\ pc'[d] = pc[d]
  BY <1>0, <1>1, Zenon DEF Locus, TypeOK, InHandler
<1>4. /\ frames \subseteq [at : SUBSET Places, val : Values]
      /\ \A f \in frames : \E g \in frames : f.at = g.at
      /\ \A d \in Envs : pc[d] \in {"pf_unmap", "embryo"} => pc'[d] = pc[d]
      /\ \A d \in Envs : Locus(d) = "remap" =>
           /\ child'[d] = child[d]
           /\ Locus(d)' = "panic" \/ (Locus(d)' = "remap" /\ vp'[d] = vp[d])
  BY <1>0, <1>1, <1>3, Zenon DEF TypeOK
<1>5. CowInv' /\ WriterInv' /\ \A d \in Envs : HasXStack(d)' = HasXStack(d)
  BY <1>0, <1>1, <1>4, QuietMemory, Zenon
<1>6. TempInv' /\ PageInv'
  BY <1>0, <1>1, <1>3 DEF TempInv, PageInv, InHandler
<1>7. ChildInv'
  BY <1>0, <1>1, <1>3, <1>4, ChildKept, Zenon DEF HasChild
<1>8. StackInv'
  BY <1>0, <1>1, <1>3, <1>5, Zenon DEF StackInv, ChildInv, HasChild
<1>9. QED BY <1>2, <1>5, <1>6, <1>7, <1>8, Zenon DEF IInv

(* set_pgfault_handler allocates the exception stack, then sets the upcall. *)
LEMMA InstallStep ==
  ASSUME IInv, Serving, NEW e \in Envs, pc[e] = "user", sys_page_alloc(e, XStack),
         upcall' = [upcall EXCEPT ![e] = TRUE], Goto(e, "exofork"), UNCHANGED locals
  PROVE  IInv'
<1>0. TypeOK /\ TempInv /\ PageInv /\ ChildInv /\ CowInv /\ WriterInv /\ StackInv
  BY Zenon DEF IInv
<1>1. pc' = [pc EXCEPT ![e] = "exofork"] /\ UNCHANGED <<ret, fva, child, vp, perm>>
  BY Zenon DEF Goto, locals
<1>2. /\ frames' \subseteq [at : SUBSET Places, val : Values]
      /\ pte' \in [Envs -> [VPages -> Perms]]
      /\ \A a \in Envs, v \in VPages :
           pte'[a][v] = IF a = e /\ v = XStack THEN "w" ELSE pte[a][v]
  <2>1. Allocates(e, XStack)
    BY <1>0, AllocEffect, LayoutAssumption, Zenon
  <2>2. QED BY <2>1, Zenon DEF Allocates
<1>3. TypeOK'
  <2>1. upcall' \in [Envs -> BOOLEAN]
    BY <1>0, Zenon DEF TypeOK
  <2>2. QED BY <1>0, <1>1, <1>2, <2>1, ZenonT(60) DEF TypeOK, Labels, InFork
<1>4. \A d \in Envs \ {e} : upcall'[d] = upcall[d]
  BY <1>0, Zenon DEF TypeOK
<1>5. /\ Locus(e) = "user" /\ Locus(e)' = "exofork" /\ pc'[e] = "exofork"
      /\ \A d \in Envs \ {e} : Locus(d)' = Locus(d) /\ pc'[d] = pc[d]
  BY <1>0, <1>1, Zenon DEF Locus, TypeOK, InHandler
<1>6. /\ \A d \in Envs : pc[d] \in {"pf_unmap", "embryo"} => pc'[d] = pc[d]
      /\ \A d \in Envs : Locus(d) = "remap" =>
           child'[d] = child[d] /\ Locus(d)' = "remap" /\ vp'[d] = vp[d]
  BY <1>1, <1>5, Zenon
<1>7. /\ CowInv' /\ WriterInv' /\ HasXStack(e)'
      /\ \A d \in Envs : HasXStack(d) => HasXStack(d)'
  BY <1>0, <1>6, AllocKeeps, LayoutAssumption, Zenon
<1>8. TempInv'
  BY <1>0, <1>2, <1>5, LayoutAssumption DEF TempInv
<1>9. PageInv'
  <2>1. \A d \in Envs : Order[vp[d]] \in VPages
    BY <1>0, Zenon DEF TypeOK, VPages
  <2>2. QED BY <1>0, <1>1, <1>2, <1>5, <2>1 DEF PageInv, InHandler
<1>10. ChildInv'
  BY <1>0, <1>1, <1>5, <1>6, ChildKept, Zenon DEF HasChild
<1>11. StackInv'
  BY <1>0, <1>1, <1>4, <1>5, <1>7, Zenon DEF StackInv, ChildInv, HasChild
<1>12. QED BY <1>3, <1>7, <1>8, <1>9, <1>10, <1>11, Zenon DEF IInv

(* The child gets a slot that was free, so no other parent has it.         *)
LEMMA ExoforkStep ==
  ASSUME IInv, Serving, NEW e \in Envs, NEW c \in Envs, pc[e] = "exofork", pc[c] = "free",
         pc' = [pc EXCEPT ![e] = "dup", ![c] = "embryo"],
         child' = [child EXCEPT ![e] = c], vp' = [vp EXCEPT ![e] = 1],
         UNCHANGED <<memory, ret, fva, perm, upcall>>
  PROVE  IInv'
<1>0. TypeOK /\ TempInv /\ PageInv /\ ChildInv /\ CowInv /\ WriterInv /\ StackInv
  BY Zenon DEF IInv
<1>1. UNCHANGED <<frames, pte, ret, fva, perm, upcall>>
  BY Zenon DEF memory
<1>2. 1 \in 1 .. Len(Order)
  BY LayoutAssumption DEF VPages
<1>3. TypeOK'
  <2>1. pc \in [Envs -> Labels] /\ "dup" \in Labels /\ "embryo" \in Labels
    BY <1>0, Zenon DEF TypeOK, Labels, InFork
  <2>2. pc' \in [Envs -> Labels]
    BY <2>1, ZenonT(60)
  <2>3. child' \in [Envs -> Envs \cup {NoEnv}] /\ vp' \in [Envs -> 1 .. Len(Order)]
    BY <1>0, <1>2, ZenonT(60) DEF TypeOK
  <2>4. QED BY <1>0, <1>1, <2>2, <2>3, ZenonT(60) DEF TypeOK
<1>4. /\ pc'[e] = "dup" /\ pc'[c] = "embryo" /\ c # e
      /\ \A d \in Envs \ {e, c} : pc'[d] = pc[d]
      /\ \A d \in Envs \ {e} : child'[d] = child[d] /\ vp'[d] = vp[d]
      /\ child'[e] = c /\ vp'[e] = 1
  BY <1>0, Zenon DEF TypeOK
<1>5. /\ Locus(e) = "exofork" /\ Locus(e)' = "dup" /\ Locus(c) = "free" /\ Locus(c)' = "embryo"
      /\ \A d \in Envs \ {e, c} : Locus(d)' = Locus(d)
  BY <1>1, <1>4, ZenonT(60) DEF Locus, InHandler
<1>6. /\ frames \subseteq [at : SUBSET Places, val : Values]
      /\ \A f \in frames : \E g \in frames : f.at = g.at
      /\ \A d \in Envs : pc[d] \in {"pf_unmap", "embryo"} => pc'[d] = pc[d]
      /\ \A d \in Envs : Locus(d) = "remap" =>
           /\ child'[d] = child[d]
           /\ Locus(d)' = "panic" \/ (Locus(d)' = "remap" /\ vp'[d] = vp[d])
  BY <1>0, <1>4, <1>5, Zenon DEF TypeOK
<1>7. CowInv' /\ WriterInv' /\ \A d \in Envs : HasXStack(d)' = HasXStack(d)
  BY <1>0, <1>1, <1>6, QuietMemory, ZenonT(60)
<1>8. TempInv'
  BY <1>0, <1>1, <1>4, ZenonT(60) DEF TempInv
<1>9. PageInv'
  <2>1. pc'[e] \notin InHandler /\ pc'[c] \notin InHandler
    BY <1>4, Zenon DEF InHandler
  <2>2. \A d \in Envs \ {e, c} : /\ Locus(d)' = Locus(d) /\ pc'[d] = pc[d] /\ vp'[d] = vp[d]
                                /\ ret'[d] = ret[d] /\ fva'[d] = fva[d] /\ perm'[d] = perm[d]
    BY <1>1, <1>4, <1>5, ZenonT(60)
  <2>3. \A d \in {e, c} : Locus(d)' \notin {"map", "remap"} /\ pc'[d] \notin InHandler
    BY <1>5, <2>1, Zenon
  <2>4. pte' = pte
    BY <1>1, Zenon
  <2>5. QED BY <1>0, <2>2, <2>3, <2>4, ZenonT(60) DEF PageInv
<1>10. ChildInv'
  <2>1. \A d \in Envs : child[d] # c
    BY <1>0, Zenon DEF ChildInv
  <2>2. \A d \in Envs : Locus(d)' \in HasChild => child'[d] \in Envs
    BY <1>0, <1>4, <1>5 DEF ChildInv, HasChild
  <2>3. \A d \in Envs : child'[d] \in Envs => pc'[child'[d]] = "embryo"
    <3>1. \A d \in Envs : child[d] \in Envs => pc[child[d]] = "embryo"
      BY <1>0, Zenon DEF ChildInv
    <3>2. \A d \in Envs : child[d] \in Envs => pc'[child[d]] = "embryo"
      BY <1>6, <3>1, ZenonT(60)
    <3>3. QED BY <1>4, <3>2, ZenonT(60)
  <2>4. \A d, x \in Envs : child'[d] = child'[x] /\ child'[d] \in Envs => d = x
    BY <1>0, <1>4, <2>1 DEF ChildInv
  <2>5. QED BY <1>0, <2>2, <2>3, <2>4, ZenonT(60) DEF ChildInv
<1>11. StackInv'
  BY <1>0, <1>1, <1>4, <1>5, <1>7 DEF StackInv, ChildInv, HasChild
<1>12. QED BY <1>3, <1>7, <1>8, <1>9, <1>10, <1>11, Zenon DEF IInv

(* fork() gives its child an exception stack and goes on.                  *)
LEMMA NewStackStep ==
  ASSUME IInv, Serving, NEW e \in Envs, pc[e] = "dup",
         sys_page_alloc(child[e], XStack), NextPage(e),
         UNCHANGED <<ret, fva, child, perm, upcall>>
  PROVE  IInv'
<1>0. TypeOK /\ TempInv /\ PageInv /\ ChildInv /\ CowInv /\ WriterInv /\ StackInv
  BY Zenon DEF IInv
<1>1. Locus(e) = "dup" /\ Locus(e) \in HasChild
  BY Zenon DEF Locus, InHandler, HasChild
<1>2. PICK c \in Envs : c = child[e] /\ pc[c] = "embryo"
  BY <1>0, <1>1, Zenon DEF ChildInv
<1>3. /\ frames' \subseteq [at : SUBSET Places, val : Values]
      /\ pte' \in [Envs -> [VPages -> Perms]]
      /\ \A a \in Envs, v \in VPages :
           pte'[a][v] = IF a = c /\ v = XStack THEN "w" ELSE pte[a][v]
  <2>1. Allocates(c, XStack)
    BY <1>0, <1>2, AllocEffect, LayoutAssumption, Zenon
  <2>2. QED BY <2>1, Zenon DEF Allocates
<1>4. /\ pc' \in [Envs -> Labels] /\ vp' \in [Envs -> 1 .. Len(Order)]
      /\ \A d \in Envs \ {e} : pc'[d] = pc[d] /\ vp'[d] = vp[d] /\ Locus(d)' = Locus(d)
      /\ pc'[e] \in {"dup", "upcall"} /\ Locus(e)' = pc'[e]
  BY <1>0, NextPageEffect, Zenon
<1>5. TypeOK'
  BY <1>0, <1>3, <1>4, Zenon DEF TypeOK
<1>6. /\ \A d \in Envs : pc[d] \in {"pf_unmap", "embryo"} => pc'[d] = pc[d]
      /\ \A d \in Envs : Locus(d) = "remap" =>
           child'[d] = child[d] /\ Locus(d)' = "remap" /\ vp'[d] = vp[d]
      /\ \A d \in Envs : Locus(d)' \in HasChild => Locus(d) \in HasChild
  BY <1>1, <1>4, Zenon
<1>7. /\ CowInv' /\ WriterInv' /\ HasXStack(c)'
      /\ \A d \in Envs : HasXStack(d) => HasXStack(d)'
  BY <1>0, <1>2, <1>6, AllocKeeps, LayoutAssumption, Zenon
<1>8. TempInv'
  <2>1. pte[e][PFTEMP] = "none"
    BY <1>0, Zenon DEF TempInv
  <2>2. \A d \in Envs : pte'[d][PFTEMP] = pte[d][PFTEMP]
    BY <1>3, LayoutAssumption, Zenon
  <2>3. QED BY <1>0, <1>4, <2>1, <2>2, Zenon DEF TempInv
<1>9. PageInv'
  <2>1. \A d \in Envs : Order[vp[d]] \in VPages
    BY <1>0, Zenon DEF TypeOK, VPages
  <2>2. Locus(c) = "embryo"
    BY <1>0, <1>2, NoPanic, Zenon
  <2>3. \A x \in Envs \ {e} : /\ vp'[x] = vp[x] /\ pc'[x] = pc[x] /\ perm'[x] = perm[x]
                             /\ ret'[x] = ret[x] /\ fva'[x] = fva[x]
                             /\ Locus(x)' = Locus(x)
    BY <1>4, Zenon
  <2>4. \A x \in Envs \ {c} : pte'[x][Order[vp[x]]] = pte[x][Order[vp[x]]]
    BY <1>3, <2>1, Zenon
  <2>5. Locus(e)' \in {"dup", "upcall"} /\ pc'[e] \notin InHandler
    BY <1>4, Zenon DEF InHandler
  <2>6. QED BY <1>0, <2>2, <2>3, <2>4, <2>5, SMTT(60) DEF PageInv
<1>10. ChildInv'
  <2>1. child' = child /\ \A x \in Envs : pc[x] = "embryo" => pc'[x] = "embryo"
    BY <1>6, Zenon
  <2>2. QED BY <1>0, <1>6, <2>1, ChildKept, Zenon
<1>11. StackInv'
  BY <1>0, <1>2, <1>4, <1>6, <1>7, Zenon DEF StackInv, ChildInv
<1>12. QED BY <1>5, <1>7, <1>8, <1>9, <1>10, <1>11, Zenon DEF IInv

(* fork() passes a page that is not there.                                 *)
LEMMA SkipStep ==
  ASSUME IInv, Serving, NEW e \in Envs, pc[e] = "dup", Order[vp[e]] # XStack,
         NextPage(e), UNCHANGED <<memory, ret, fva, child, perm, upcall>>
  PROVE  IInv'
<1>0. TypeOK /\ TempInv /\ PageInv /\ ChildInv /\ CowInv /\ WriterInv /\ StackInv
  BY Zenon DEF IInv
<1>1. Locus(e) = "dup" /\ Locus(e) \in HasChild
  BY Zenon DEF Locus, InHandler, HasChild
<1>2. UNCHANGED <<frames, pte>>
  BY Zenon DEF memory
<1>3. /\ pc' \in [Envs -> Labels] /\ vp' \in [Envs -> 1 .. Len(Order)]
      /\ \A d \in Envs \ {e} : pc'[d] = pc[d] /\ vp'[d] = vp[d] /\ Locus(d)' = Locus(d)
      /\ pc'[e] \in {"dup", "upcall"} /\ Locus(e)' = pc'[e]
      /\ pc'[e] = "upcall" \/ (\E i \in 1 .. vp'[e] - 1 : Order[i] = XStack) =>
           Order[vp[e]] = XStack \/ \E i \in 1 .. vp[e] - 1 : Order[i] = XStack
  BY <1>0, NextPageEffect, Zenon
<1>4. TypeOK'
  BY <1>0, <1>2, <1>3, Zenon DEF TypeOK
<1>5. /\ frames \subseteq [at : SUBSET Places, val : Values]
      /\ \A f \in frames : \E g \in frames : f.at = g.at
      /\ \A d \in Envs : pc[d] \in {"pf_unmap", "embryo"} => pc'[d] = pc[d]
      /\ \A d \in Envs : Locus(d) = "remap" =>
           /\ child'[d] = child[d]
           /\ Locus(d)' = "panic" \/ (Locus(d)' = "remap" /\ vp'[d] = vp[d])
      /\ \A d \in Envs : Locus(d)' \in HasChild => Locus(d) \in HasChild
  BY <1>0, <1>1, <1>3, ZenonT(60) DEF TypeOK
<1>6. CowInv' /\ WriterInv' /\ \A d \in Envs : HasXStack(d)' = HasXStack(d)
  BY <1>0, <1>2, <1>5, QuietMemory, Zenon
<1>7. TempInv'
  <2>1. pte[e][PFTEMP] = "none"
    BY <1>0, Zenon DEF TempInv
  <2>2. QED BY <1>0, <1>2, <1>3, <2>1, Zenon DEF TempInv
<1>8. PageInv'
  BY <1>0, <1>2, <1>3, Zenon DEF PageInv, InHandler
<1>9. ChildInv'
  BY <1>0, <1>5, ChildKept, Zenon
<1>10. StackInv'
  <2>1. upcall' = upcall /\ child' = child
    BY Zenon
  <2>2. \A d \in Envs : upcall'[d] => HasXStack(d)'
    BY <1>0, <1>6, <2>1, Zenon DEF StackInv
  <2>3. \A d \in Envs \ {e} :
          Locus(d)' \in HasChild /\ (Locus(d)' \in {"upcall", "start"}
                                       \/ \E i \in 1 .. vp'[d] - 1 : Order[i] = XStack)
            => HasXStack(child[d])'
    BY <1>0, <1>3, <1>6, <2>1 DEF StackInv, ChildInv
  <2>4. (Locus(e)' \in {"upcall", "start"} \/ \E i \in 1 .. vp'[e] - 1 : Order[i] = XStack)
          => HasXStack(child[e])'
    BY <1>0, <1>1, <1>3, <1>6, <2>1, SMTT(60) DEF StackInv, ChildInv
  <2>5. QED BY <1>0, <2>1, <2>2, <2>3, <2>4, Zenon DEF StackInv
<1>11. QED BY <1>4, <1>6, <1>7, <1>8, <1>9, <1>10, Zenon DEF IInv

(* duppage looks at the entry of the page.                                 *)
LEMMA LookStep ==
  ASSUME IInv, Serving, NEW e \in Envs, pc[e] = "dup", Order[vp[e]] # XStack,
         IsMapped(e, Order[vp[e]]),
         perm' = [perm EXCEPT ![e] = ChildPerm(pte[e][Order[vp[e]]])],
         Goto(e, "map"), vp' = vp, UNCHANGED <<memory, ret, fva, child, upcall>>
  PROVE  IInv'
<1>0. TypeOK /\ TempInv /\ PageInv /\ ChildInv /\ CowInv /\ WriterInv /\ StackInv
  BY Zenon DEF IInv
<1>1. pc' = [pc EXCEPT ![e] = "map"] /\ UNCHANGED <<frames, pte>>
  BY Zenon DEF Goto, memory
<1>2. /\ Locus(e) = "dup" /\ Locus(e)' = "map" /\ pc'[e] = "map"
      /\ \A d \in Envs \ {e} : Locus(d)' = Locus(d) /\ pc'[d] = pc[d] /\ perm'[d] = perm[d]
      /\ perm'[e] = ChildPerm(pte[e][Order[vp[e]]])
  BY <1>0, <1>1, Zenon DEF Locus, TypeOK, InHandler
<1>3. Order[vp[e]] \in VPages /\ pte[e][Order[vp[e]]] \in Perms \ {"none"}
  <2>1. Order[vp[e]] \in VPages
    BY <1>0, SMTT(60) DEF TypeOK, VPages
  <2>2. QED BY <1>0, <2>1, Zenon DEF TypeOK, IsMapped
<1>4. /\ perm'[e] \in {"share", "r", "cow"}
      /\ perm'[e] = "cow" => pte[e][Order[vp[e]]] \in {"w", "cow"}
  BY <1>2, <1>3, Zenon DEF ChildPerm, Perms
<1>5. TypeOK'
  BY <1>0, <1>1, <1>2, <1>4, Zenon DEF TypeOK, Labels, InFork, Perms
<1>6. /\ frames \subseteq [at : SUBSET Places, val : Values]
      /\ \A f \in frames : \E g \in frames : f.at = g.at
      /\ \A d \in Envs : pc[d] \in {"pf_unmap", "embryo"} => pc'[d] = pc[d]
      /\ \A d \in Envs : Locus(d) = "remap" =>
           /\ child'[d] = child[d]
           /\ Locus(d)' = "panic" \/ (Locus(d)' = "remap" /\ vp'[d] = vp[d])
      /\ \A d \in Envs : Locus(d)' \in HasChild => Locus(d) \in HasChild
  BY <1>0, <1>2, Zenon DEF TypeOK, HasChild
<1>7. CowInv' /\ WriterInv' /\ \A d \in Envs : HasXStack(d)' = HasXStack(d)
  BY <1>0, <1>1, <1>6, QuietMemory, Zenon
<1>8. TempInv'
  BY <1>0, <1>1, <1>2, Zenon DEF TempInv
<1>9. Order[vp[e]] # PFTEMP
  BY <1>0, SMTT(60) DEF TempInv, IsMapped
<1>10. PageInv'
  BY <1>0, <1>1, <1>2, <1>4, <1>9, SMTT(60) DEF PageInv, InHandler
<1>11. ChildInv'
  BY <1>0, <1>6, ChildKept, SMTT(60)
<1>12. StackInv'
  BY <1>0, <1>2, <1>7, SMTT(60) DEF StackInv, ChildInv, HasChild
<1>13. QED BY <1>5, <1>7, <1>8, <1>10, <1>11, <1>12, Zenon DEF IInv

(* fork() sets the child's upcall.                                         *)
LEMMA UpcallStep ==
  ASSUME IInv, Serving, NEW e \in Envs, sys_env_set_pgfault_upcall(e)
  PROVE  IInv'
<1>0. TypeOK /\ TempInv /\ PageInv /\ ChildInv /\ CowInv /\ WriterInv /\ StackInv
  BY Zenon DEF IInv
<1>1. /\ pc[e] = "upcall" /\ pc' = [pc EXCEPT ![e] = "start"]
      /\ upcall' = [upcall EXCEPT ![child[e]] = TRUE]
      /\ UNCHANGED <<frames, pte, ret, fva, child, vp, perm>>
  BY Zenon DEF sys_env_set_pgfault_upcall, Goto, memory, locals
<1>2. /\ Locus(e) = "upcall" /\ Locus(e)' = "start" /\ pc'[e] = "start"
      /\ \A d \in Envs \ {e} : Locus(d)' = Locus(d) /\ pc'[d] = pc[d]
  BY <1>0, <1>1, Zenon DEF Locus, TypeOK, InHandler
<1>3. child[e] \in Envs
  BY <1>0, <1>2, Zenon DEF ChildInv, HasChild
<1>4. \A d \in Envs : d # child[e] => upcall'[d] = upcall[d]
  BY <1>0, <1>1, Zenon DEF TypeOK
<1>5. TypeOK'
  <2>1. upcall' \in [Envs -> BOOLEAN]
    BY <1>0, <1>1, <1>3, Zenon DEF TypeOK
  <2>2. QED BY <1>0, <1>1, <2>1, Zenon DEF TypeOK, Labels, InFork
<1>6. /\ frames \subseteq [at : SUBSET Places, val : Values]
      /\ \A f \in frames : \E g \in frames : f.at = g.at
      /\ \A d \in Envs : pc[d] \in {"pf_unmap", "embryo"} => pc'[d] = pc[d]
      /\ \A d \in Envs : Locus(d) = "remap" =>
           /\ child'[d] = child[d]
           /\ Locus(d)' = "panic" \/ (Locus(d)' = "remap" /\ vp'[d] = vp[d])
      /\ \A d \in Envs : Locus(d)' \in HasChild => Locus(d) \in HasChild
  BY <1>0, <1>1, <1>2, Zenon DEF TypeOK, HasChild
<1>7. CowInv' /\ WriterInv' /\ \A d \in Envs : HasXStack(d)' = HasXStack(d)
  BY <1>0, <1>1, <1>6, QuietMemory, Zenon
<1>8. TempInv' /\ PageInv'
  BY <1>0, <1>1, <1>2 DEF TempInv, PageInv, InHandler
<1>9. ChildInv'
  BY <1>0, <1>1, <1>6, ChildKept, Zenon
<1>10. HasXStack(child[e])
  BY <1>0, <1>2, SMTT(60) DEF StackInv, HasChild
<1>11. StackInv'
  <2>1. \A d \in Envs : upcall'[d] => HasXStack(d)'
    BY <1>0, <1>4, <1>7, <1>10, Zenon DEF StackInv
  <2>2. \A d \in Envs \ {e} :
          Locus(d)' \in HasChild /\ (Locus(d)' \in {"upcall", "start"}
                                       \/ \E i \in 1 .. vp'[d] - 1 : Order[i] = XStack)
            => HasXStack(child[d])'
    BY <1>0, <1>1, <1>2, <1>7, Zenon DEF StackInv, ChildInv
  <2>3. HasXStack(child[e])'
    BY <1>1, <1>3, <1>7, <1>10, Zenon
  <2>4. QED BY <1>0, <1>1, <2>1, <2>2, <2>3, Zenon DEF StackInv
<1>12. QED BY <1>5, <1>7, <1>8, <1>9, <1>11, Zenon DEF IInv

(* The child starts to run, with nothing left that its parent may write.   *)
LEMMA StartStep ==
  ASSUME IInv, Serving, NEW e \in Envs, sys_env_set_status(e)
  PROVE  IInv'
<1>0. TypeOK /\ TempInv /\ PageInv /\ ChildInv /\ CowInv /\ WriterInv /\ StackInv
  BY Zenon DEF IInv
<1>1. /\ pc[e] = "start" /\ pc' = [pc EXCEPT ![e] = "user", ![child[e]] = "user"]
      /\ child' = [child EXCEPT ![e] = NoEnv]
      /\ UNCHANGED <<frames, pte, ret, fva, vp, perm, upcall>>
  BY Zenon DEF sys_env_set_status, memory
<1>2. Locus(e) = "start" /\ Locus(e) \in HasChild
  BY <1>1, Zenon DEF Locus, InHandler, HasChild
<1>3. PICK c \in Envs : c = child[e] /\ pc[c] = "embryo" /\ c # e
  BY <1>0, <1>1, <1>2, SMTT(60) DEF ChildInv
<1>4. TypeOK'
  <2>1. pc \in [Envs -> Labels] /\ "user" \in Labels
    BY <1>0, Zenon DEF TypeOK, Labels
  <2>2. pc' \in [Envs -> Labels]
    BY <1>1, <2>1, ZenonT(60)
  <2>3. child' \in [Envs -> Envs \cup {NoEnv}]
    BY <1>0, <1>1, ZenonT(60) DEF TypeOK
  <2>4. QED BY <1>0, <1>1, <2>2, <2>3, ZenonT(60) DEF TypeOK
<1>5. /\ pc'[e] = "user" /\ pc'[c] = "user" /\ child'[e] = NoEnv
      /\ \A d \in Envs \ {e, c} : pc'[d] = pc[d]
      /\ \A d \in Envs \ {e} : child'[d] = child[d]
  BY <1>0, <1>1, <1>3, Zenon DEF TypeOK
<1>6. /\ Locus(e)' = "user" /\ Locus(c) = "embryo" /\ Locus(c)' = "user"
      /\ \A d \in Envs \ {e, c} : Locus(d)' = Locus(d)
  BY <1>1, <1>3, <1>5, ZenonT(60) DEF Locus, InHandler
<1>7. /\ frames \subseteq [at : SUBSET Places, val : Values]
      /\ \A f \in frames : \E g \in frames : f.at = g.at
      /\ \A d \in Envs : pc[d] = "pf_unmap" => pc'[d] = pc[d]
      /\ \A d \in Envs : Locus(d) = "remap" =>
           /\ child'[d] = child[d]
           /\ Locus(d)' = "panic" \/ (Locus(d)' = "remap" /\ vp'[d] = vp[d])
  BY <1>0, <1>1, <1>2, <1>3, <1>5, <1>6, Zenon DEF TypeOK
<1>8. CowInv' /\ WriterInv' /\ \A d \in Envs : HasXStack(d)' = HasXStack(d)
  BY <1>0, <1>1, <1>7, QuietMemory, ZenonT(60)
<1>9. TempInv'
  BY <1>0, <1>1, <1>3, <1>5, ZenonT(60) DEF TempInv
<1>10. PageInv'
  <2>1. pc'[e] \notin InHandler /\ pc'[c] \notin InHandler
    BY <1>5, Zenon DEF InHandler
  <2>2. \A d \in Envs \ {e, c} : /\ Locus(d)' = Locus(d) /\ pc'[d] = pc[d] /\ vp'[d] = vp[d]
                                /\ ret'[d] = ret[d] /\ fva'[d] = fva[d] /\ perm'[d] = perm[d]
    BY <1>1, <1>5, <1>6, ZenonT(60)
  <2>3. QED BY <1>0, <1>1, <1>6, <2>1, <2>2, ZenonT(60) DEF PageInv
<1>11. ChildInv'
  <2>1. \A d \in Envs : Locus(d)' \in HasChild => child'[d] \in Envs
    BY <1>0, <1>5, <1>6, Zenon DEF ChildInv, HasChild
  <2>2. \A d \in Envs : child'[d] \in Envs => d # e /\ child[d] # c /\ child[d] # e
    BY <1>0, <1>1, <1>3, <1>5, LayoutAssumption DEF ChildInv
  <2>3. \A d \in Envs : child'[d] \in Envs => pc'[child'[d]] = "embryo"
    BY <1>0, <1>5, <2>2 DEF ChildInv
  <2>4. \A d, x \in Envs : child'[d] = child'[x] /\ child'[d] \in Envs => d = x
    BY <1>0, <1>5, <2>2, Zenon DEF ChildInv
  <2>5. QED BY <1>0, <2>1, <2>3, <2>4, Zenon DEF ChildInv
<1>12. StackInv'
  <2>1. \A d \in Envs : upcall'[d] => HasXStack(d)'
    BY <1>0, <1>1, <1>8, Zenon DEF StackInv
  <2>2. \A d \in Envs \ {e, c} :
          Locus(d)' \in HasChild /\ (Locus(d)' \in {"upcall", "start"}
                                       \/ \E i \in 1 .. vp'[d] - 1 : Order[i] = XStack)
            => HasXStack(child[d])'
    BY <1>0, <1>1, <1>6, <1>8 DEF StackInv, ChildInv
  <2>3. QED BY <1>0, <1>5, <1>6, <2>1, <2>2, Zenon DEF StackInv, HasChild
<1>13. QED BY <1>4, <1>8, <1>9, <1>10, <1>11, <1>12, Zenon DEF IInv
-----------------------------------------------------------------------------

(* Every step keeps the invariant.                                         *)
LEMMA NextInv == IInv /\ TextInv /\ [Next]_vars => IInv' /\ TextInv'
<1> SUFFICES ASSUME IInv, TextInv, [Next]_vars PROVE IInv' /\ TextInv'
  BY Zenon
<1>1. CASE UNCHANGED vars
  BY <1>1, StutterInv, Zenon
<1>2. CASE Next
  <2>0. perm \in [Envs -> Perms]
    BY Zenon DEF IInv, TypeOK
  <2> SUFFICES IInv'
    BY <1>2, TextKept, Zenon
  <2>1. PICK e \in Envs :
          /\ Serving
          /\ \/ \E v \in Private \cup Shared, x \in Values : Store(e, v, x)
             \/ \E v \in Private \cup Text : page_fault(e, v)
             \/ pgfault(e) \/ set_pgfault_handler(e) \/ fork(e) \/ env_destroy(e)
    BY <1>2, Zenon DEF Next
  <2>2. CASE \E v \in Private \cup Shared, x \in Values : Store(e, v, x)
    BY <2>1, <2>2, StoreStep, LayoutAssumption, Zenon
  <2>3. CASE \E v \in Private \cup Text : page_fault(e, v)
    <3>1. PICK v \in Private \cup Text : page_fault(e, v)
      BY <2>3, Zenon
    <3>2. MayStore(e, v) /\ pc[e] \notin {"embryo", "pf_copy", "pf_map", "pf_unmap"}
      BY <3>1, Zenon DEF page_fault, MayStore, InFork
    <3>3. CASE /\ Goto(e, "pf_alloc") /\ pte[e][v] = "cow"
               /\ ret' = [ret EXCEPT ![e] = pc[e]] /\ fva' = [fva EXCEPT ![e] = v]
               /\ UNCHANGED <<memory, child, vp, perm, upcall>>
      <4>1. CASE v \in Private
        BY <2>1, <3>2, <3>3, <4>1, FaultStep, ZenonT(60)
      <4>2. CASE v \in Text
        BY <3>3, <4>2, Zenon DEF TextInv
      <4>3. QED BY <4>1, <4>2, SMTT(60)
    <3>4. CASE Goto(e, "panic") /\ UNCHANGED <<ret, fva, memory, child, vp, perm, upcall>>
      BY <2>0, <2>1, <3>2, <3>4, PanicStep, Zenon
    <3>5. CASE Clear(e)
      BY <2>1, <3>2, <3>5, ClearStep, Zenon
    <3>6. QED BY <3>1, <3>3, <3>4, <3>5, Zenon DEF page_fault
  <2>4. CASE pgfault(e)
    <3>1. CASE pgfault_alloc(e)
      <4>1. CASE Goto(e, "panic") /\ UNCHANGED memory
        BY <2>0, <2>1, <3>1, <4>1, PanicStep, Zenon DEF pgfault_alloc, locals
      <4>2. CASE Goto(e, "pf_copy") /\ sys_page_alloc(e, PFTEMP)
        BY <2>1, <3>1, <4>2, AllocStep, Zenon DEF pgfault_alloc
      <4>3. QED BY <3>1, <4>1, <4>2, Zenon DEF pgfault_alloc
    <3>2. QED BY <2>1, <2>4, <3>1, CopyStep, CopyMappedStep, UnmapStep, Zenon DEF pgfault
  <2>5. CASE set_pgfault_handler(e)
    <3>1. CASE Goto(e, "panic") /\ UNCHANGED <<memory, upcall>>
      BY <2>0, <2>1, <2>5, <3>1, PanicStep, Zenon DEF set_pgfault_handler, locals
    <3>2. CASE Goto(e, "exofork") /\ UNCHANGED <<memory, upcall>>
      BY <2>1, <2>5, <3>2, InstalledStep, Zenon DEF set_pgfault_handler
    <3>3. CASE /\ sys_page_alloc(e, XStack)
               /\ upcall' = [upcall EXCEPT ![e] = TRUE]
               /\ Goto(e, "exofork")
      BY <2>1, <2>5, <3>3, InstallStep, ZenonT(60) DEF set_pgfault_handler
    <3>4. QED BY <2>5, <3>1, <3>2, <3>3, Zenon DEF set_pgfault_handler
  <2>6. CASE fork(e)
    <3>1. CASE sys_exofork(e)
      <4>1. CASE Goto(e, "panic") /\ UNCHANGED <<child, vp>>
        BY <2>0, <2>1, <3>1, <4>1, PanicStep, Zenon DEF sys_exofork
      <4>2. CASE \E c \in Envs : /\ pc[c] = "free"
                                 /\ pc' = [pc EXCEPT ![e] = "dup", ![c] = "embryo"]
                                 /\ child' = [child EXCEPT ![e] = c]
                                 /\ vp' = [vp EXCEPT ![e] = 1]
        BY <2>1, <3>1, <4>2, ExoforkStep, ZenonT(60) DEF sys_exofork
      <4>3. QED BY <3>1, <4>1, <4>2, Zenon DEF sys_exofork
    <3>2. CASE fork_page(e)
      <4>1. pc[e] = "dup" /\ UNCHANGED <<ret, fva, child, upcall>>
        BY <3>2, Zenon DEF fork_page
      <4>2. CASE Order[vp[e]] = XStack
        <5>1. perm' = perm
          BY <3>2, <4>2, Zenon DEF fork_page
        <5>2. CASE Goto(e, "panic") /\ UNCHANGED <<memory, vp>>
          BY <2>0, <2>1, <4>1, <5>1, <5>2, PanicStep, Zenon
        <5>3. CASE sys_page_alloc(child[e], XStack) /\ NextPage(e)
          BY <2>1, <4>1, <5>1, <5>3, NewStackStep, SMTT(60)
        <5>4. QED BY <3>2, <4>2, <5>2, <5>3, Zenon DEF fork_page
      <4>3. CASE Order[vp[e]] # XStack /\ IsMapped(e, Order[vp[e]])
        BY <2>1, <3>2, <4>1, <4>3, LookStep, SMTT(60) DEF fork_page
      <4>4. CASE Order[vp[e]] # XStack /\ ~ IsMapped(e, Order[vp[e]])
        BY <2>1, <3>2, <4>1, <4>4, SkipStep, Zenon DEF fork_page
      <4>5. QED BY <4>2, <4>3, <4>4, Zenon
    <3>3. CASE duppage_map(e)
      <4>1. /\ pc[e] = "map" /\ UNCHANGED <<ret, fva, child, upcall>>
            /\ perm' = [perm EXCEPT ![e] = "none"]
        BY <3>3, Zenon DEF duppage_map
      <4>2. perm' \in [Envs -> Perms] /\ \A d \in Envs \ {e} : perm'[d] = perm[d]
        BY <2>0, <4>1, Zenon DEF Perms
      <4>3. CASE Goto(e, "panic") /\ UNCHANGED <<memory, vp>>
        BY <2>1, <4>1, <4>2, <4>3, PanicStep, SMTT(60)
      <4>4. CASE /\ sys_page_map(e, Order[vp[e]], child[e], Order[vp[e]], perm[e])
                 /\ IF perm[e] = "cow" THEN Goto(e, "remap") /\ vp' = vp ELSE NextPage(e)
        BY <2>1, <4>1, <4>4, ChildMappedStep, ZenonT(60)
      <4>5. QED BY <3>3, <4>3, <4>4, SMTT(60) DEF duppage_map
    <3>4. QED BY <2>1, <2>6, <3>1, <3>2, <3>3, RemapStep, UpcallStep, StartStep, Zenon DEF fork
  <2>7. CASE env_destroy(e)
    BY <2>1, <2>7, ClearStep, Zenon DEF env_destroy
  <2>8. QED BY <2>1, <2>2, <2>3, <2>4, <2>5, <2>6, <2>7, Zenon
<1>3. QED BY <1>1, <1>2, Zenon
-----------------------------------------------------------------------------

(* The invariant holds in every state of every execution.                  *)
THEOREM ForkInvariant == Spec => [](IInv /\ TextInv)
<1>1. Init => TextInv
  BY LayoutAssumption DEF Init, TextInv
<1>2. QED BY <1>1, InitInv, NextInv, PTL DEF Spec

(* Whoever can be sent to the fault handler has a writable exception stack *)
(* of its own (kern/trap.c, page_fault_handler; lib/fork.c:187-188).       *)
THEOREM HandlerHasItsStack == Spec => []OwnExceptionStack
<1>1. IInv => OwnExceptionStack
  BY Zenon DEF IInv, StackInv, HasXStack, OwnExceptionStack
<1>2. QED BY <1>1, ForkInvariant, PTL

(* A page that somebody still has to copy is written by nobody, but for a  *)
(* parent between the two calls of duppage whose child does not run yet    *)
(* (lib/fork.c, duppage).                                                  *)
THEOREM CowPagesAreStable == Spec => []CowIsStable
<1>1. IInv => CowIsStable
  <2> SUFFICES ASSUME IInv, NEW f \in frames, NEW p \in f.at, NEW q \in f.at,
                      pte[p[1]][p[2]] = "cow", pte[q[1]][q[2]] = "w"
               PROVE  p[2] = q[2] /\ p[1] = child[q[1]] /\ pc[p[1]] = "embryo"
    BY Zenon DEF CowIsStable
  <2>1. p[2] = q[2] /\ p[1] = child[q[1]]
    BY Zenon DEF IInv, CowInv, Cow, Writes
  <2>2. p[1] \in Envs /\ q[1] \in Envs
    BY Zenon DEF IInv, TypeOK, Places
  <2>3. QED BY <2>1, <2>2, Zenon DEF IInv, ChildInv
<1>2. QED BY <1>1, ForkInvariant, PTL
=============================================================================
