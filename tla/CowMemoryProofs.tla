------------------------- MODULE CowMemoryProofs --------------------------
(***************************************************************************)
(* Proofs that fork() gives a copy of the memory: no step of fork(), of    *)
(* the fault handler or of another environment's end changes what a        *)
(* program finds in its pages, and CowFork implements PrivateMemory, for   *)
(* any number of environments, pages and values.                           *)
(*                                                                         *)
(* Places that show the same physical page are followed through the system *)
(* calls.  Each call takes some places from the pages they showed and      *)
(* keeps all the others with the ones they were with.                      *)
(***************************************************************************)
EXTENDS CowForkProofs

(* The pages a program finds its memory in.                                *)
Seen == Private \cup Shared \cup Text

(* With F as the physical pages: p and q show the same one, what it holds, *)
(* and no place shows two.                                                 *)
Same(F, p, q) == \E f \in F : p \in f.at /\ q \in f.at
Content(F, p) == (CHOOSE f \in F : p \in f.at).val
Apart(F) == \A f, g \in F : \A p \in f.at : p \in g.at => f = g

(* From F to G, the places outside P stay together with what they hold.    *)
Kept(F, G, P) ==
  \A p, q \in Places \ P : /\ Same(G, p, q) <=> Same(F, p, q)
                           /\ Same(F, p, p) => Content(G, p) = Content(F, p)

Pages == [at : SUBSET Places, val : Values]

LEMMA ContentIs ==
  ASSUME NEW F, Apart(F), NEW f \in F, NEW p \in f.at
  PROVE  Content(F, p) = f.val
<1>1. PICK h : h = CHOOSE g \in F : p \in g.at
  BY ZenonT(60)
<1>2. h \in F /\ p \in h.at
  BY <1>1, ZenonT(60)
<1>3. h = f
  BY <1>2, Zenon DEF Apart
<1>4. QED BY <1>1, <1>3, Zenon DEF Content

LEMMA SameRules ==
  ASSUME NEW F, Apart(F)
  PROVE  /\ \A p, q : Same(F, p, q) => /\ Same(F, q, p) /\ Same(F, p, p) /\ Same(F, q, q)
                                       /\ Content(F, p) = Content(F, q)
         /\ \A p, q, r : Same(F, p, q) /\ Same(F, q, r) => Same(F, p, r)
<1>1. \A p, q : Same(F, p, q) => /\ Same(F, q, p) /\ Same(F, p, p) /\ Same(F, q, q)
                                 /\ Content(F, p) = Content(F, q)
  BY ContentIs, ZenonT(60) DEF Same
<1>2. \A p, q, r : Same(F, p, q) /\ Same(F, q, r) => Same(F, p, r)
  BY Zenon DEF Same, Apart
<1>3. QED BY <1>1, <1>2, Zenon

LEMMA KeptIntro ==
  ASSUME NEW F, NEW G, Apart(F), Apart(G), NEW P,
         \A f \in F : \A p \in f.at \ P : \E g \in G :
           p \in g.at /\ g.val = f.val /\ g.at \ P = f.at \ P,
         \A g \in G : \A p \in g.at \ P : \E f \in F : p \in f.at /\ g.at \ P = f.at \ P
  PROVE  Kept(F, G, P)
<1> SUFFICES ASSUME NEW p \in Places \ P, NEW q \in Places \ P
             PROVE  /\ Same(G, p, q) <=> Same(F, p, q)
                    /\ Same(F, p, p) => Content(G, p) = Content(F, p)
  BY Zenon DEF Kept
<1>1. Same(F, p, q) => Same(G, p, q)
  BY DEF Same
<1>2. Same(G, p, q) => Same(F, p, q)
  BY DEF Same
<1>3. ASSUME Same(F, p, p) PROVE Content(G, p) = Content(F, p)
  <2>1. PICK f \in F : p \in f.at
    BY <1>3, Zenon DEF Same
  <2>2. PICK g \in G : p \in g.at /\ g.val = f.val
    BY <2>1, Zenon
  <2>3. QED BY <2>1, <2>2, ContentIs
<1>4. QED BY <1>1, <1>2, <1>3, Zenon

(* What the calls make of F.                                               *)
Dropped(F, P) == InUse({[f EXCEPT !.at = @ \ P] : f \in F})
Alloced(F, r) == Dropped(F, {r}) \cup {[at |-> {r}, val |-> Zero]}
Mapped(F, s, r) == InUse({[f EXCEPT !.at = IF s \in @ THEN @ \cup {r} ELSE @ \ {r}] : f \in F})
Stored(F, r, x) == {IF r \in f.at THEN [f EXCEPT !.val = x] ELSE f : f \in F}

(* sys_page_unmap and env_free: the places of P show nothing.              *)
LEMMA DropPages ==
  ASSUME NEW F, F \subseteq Pages, Apart(F), NEW P, NEW G,
         G = Dropped(F, P)
  PROVE  Apart(G) /\ Kept(F, G, P) /\ \A p \in P : \A q : ~ Same(G, p, q)
<1> DEFINE Left(f) == [f EXCEPT !.at = @ \ P]
<1>1. \A f \in F : Left(f).at = f.at \ P /\ Left(f).val = f.val
  BY Zenon DEF Pages
<1> HIDE DEF Left
<1>2. \A g \in G : \E f \in F : g = Left(f)
  BY Zenon DEF Dropped, InUse, Left
<1>3. \A f \in F : f.at \ P # {} => Left(f) \in G
  BY <1>1, Zenon DEF Dropped, InUse, Left
<1>4. Apart(G)
  BY <1>1, <1>2 DEF Apart
<1>5. \A f \in F : Left(f).at \ P = f.at \ P
  BY <1>1, Zenon
<1>6. Kept(F, G, P)
  <2>1. \A f \in F : \A p \in f.at \ P : \E g \in G :
          p \in g.at /\ g.val = f.val /\ g.at \ P = f.at \ P
    <3> TAKE f \in F
    <3> TAKE p \in f.at \ P
    <3>1. Left(f) \in G
      BY <1>3, Zenon
    <3>2. p \in Left(f).at /\ Left(f).val = f.val /\ Left(f).at \ P = f.at \ P
      BY <1>1, <1>5, Zenon
    <3>3. QED BY <3>1, <3>2, ZenonT(60)
  <2>2. \A g \in G : \A p \in g.at \ P : \E f \in F : p \in f.at /\ g.at \ P = f.at \ P
    BY <1>1, <1>2, <1>5
  <2>3. QED BY <1>4, <2>1, <2>2, KeptIntro, Zenon
<1>7. \A p \in P : \A q : ~ Same(G, p, q)
  BY <1>1, <1>2, Zenon DEF Same
<1>8. QED BY <1>4, <1>6, <1>7, Zenon

(* sys_page_alloc: the place r shows a new page, alone.                    *)
LEMMA AllocPages ==
  ASSUME NEW F, F \subseteq Pages, Apart(F), NEW r, NEW G,
         G = Alloced(F, r)
  PROVE  /\ Apart(G) /\ Kept(F, G, {r})
         /\ \A q : Same(G, r, q) <=> q = r
<1>1. PICK H : H = Dropped(F, {r})
  BY ZenonT(60)
<1>2. PICK new : new = [at |-> {r}, val |-> Zero]
  BY ZenonT(60)
<1>3. new.at = {r} /\ G = H \cup {new}
  BY <1>1, <1>2, Zenon DEF Alloced
<1>4. Apart(H) /\ Kept(F, H, {r}) /\ \A q : ~ Same(H, r, q)
  BY <1>1, DropPages, Zenon
<1>5. \A h \in H : r \notin h.at
  BY <1>4, Zenon DEF Same
<1>6. Apart(G)
  BY <1>3, <1>4, <1>5, Zenon DEF Apart
<1>7. \A p, q : p # r => (Same(G, p, q) <=> Same(H, p, q))
  BY <1>3, Zenon DEF Same
<1>8. \A p : p # r /\ Same(H, p, p) => Content(G, p) = Content(H, p)
  <2> SUFFICES ASSUME NEW p, p # r, Same(H, p, p) PROVE Content(G, p) = Content(H, p)
    BY Zenon
  <2>1. PICK h \in H : p \in h.at
    BY Zenon DEF Same
  <2>2. h \in G
    BY <1>3, <2>1, Zenon
  <2>3. Content(G, p) = h.val
    BY <1>6, <2>1, <2>2, ContentIs, Zenon
  <2>4. Content(H, p) = h.val
    BY <1>4, <2>1, ContentIs, Zenon
  <2>5. QED BY <2>3, <2>4, Zenon
<1>9. Kept(F, G, {r})
  BY <1>4, <1>7, <1>8, ZenonT(60) DEF Kept
<1>10. \A q : Same(G, r, q) <=> q = r
  <2>1. \A g \in G : r \in g.at => g = new
    BY <1>3, <1>5, Zenon
  <2>2. new \in G /\ \A q : q \in new.at <=> q = r
    BY <1>3, Zenon
  <2>3. QED BY <2>1, <2>2, ZenonT(60) DEF Same
<1>11. QED BY <1>6, <1>9, <1>10, Zenon

(* sys_page_map: the place r shows what s shows.                           *)
LEMMA MapPages ==
  ASSUME NEW F, F \subseteq Pages, Apart(F), NEW s, NEW r, Same(F, s, s), NEW G,
         G = Mapped(F, s, r)
  PROVE  /\ Apart(G) /\ (s # r => Kept(F, G, {r})) /\ (s = r => Kept(F, G, {}))
         /\ \A q : q # r => (Same(G, r, q) <=> Same(F, s, q))
         /\ Same(G, r, r) /\ Content(G, r) = Content(F, s)
<1> DEFINE Moved(f) == [f EXCEPT !.at = IF s \in @ THEN @ \cup {r} ELSE @ \ {r}]
<1>1. \A f \in F : /\ Moved(f).at = IF s \in f.at THEN f.at \cup {r} ELSE f.at \ {r}
                   /\ Moved(f).val = f.val
  BY Zenon DEF Pages
<1> HIDE DEF Moved
<1>2. \A g \in G : \E f \in F : g = Moved(f)
  BY Zenon DEF Mapped, InUse, Moved
<1>3. \A f \in F : Moved(f).at # {} => Moved(f) \in G
  BY Zenon DEF Mapped, InUse, Moved
<1>4. PICK fs \in F : s \in fs.at
  BY Zenon DEF Same
<1>5. \A f \in F : s \in f.at => f = fs
  BY <1>4, Zenon DEF Apart
<1>6. Moved(fs) \in G /\ Moved(fs).at = fs.at \cup {r} /\ Moved(fs).val = fs.val
  BY <1>1, <1>3, <1>4, Zenon
<1>7. Apart(G)
  <2> SUFFICES ASSUME NEW g \in G, NEW h \in G, NEW p \in g.at, p \in h.at PROVE g = h
    BY Zenon DEF Apart
  <2>1. PICK a \in F, b \in F : g = Moved(a) /\ h = Moved(b)
    BY <1>2, Zenon
  <2>2. CASE p = r
    BY <1>1, <1>5, <2>1, <2>2, Zenon
  <2>3. CASE p # r
    <3>1. p \in a.at /\ p \in b.at
      BY <1>1, <2>1, <2>3, Zenon
    <3>2. QED BY <2>1, <3>1, Zenon DEF Apart
  <2>4. QED BY <2>2, <2>3, Zenon
<1>8. \A f \in F : Moved(f).at \ {r} = f.at \ {r}
  BY <1>1, Zenon
<1>9. Kept(F, G, {r})
  <2>1. \A f \in F : \A p \in f.at \ {r} : \E g \in G :
          p \in g.at /\ g.val = f.val /\ g.at \ {r} = f.at \ {r}
    <3> TAKE f \in F
    <3> TAKE p \in f.at \ {r}
    <3>1. p \in Moved(f).at /\ Moved(f).val = f.val /\ Moved(f).at \ {r} = f.at \ {r}
      BY <1>1, <1>8, Zenon
    <3>2. Moved(f) \in G
      BY <1>3, <3>1, Zenon
    <3>3. QED BY <3>1, <3>2, ZenonT(60)
  <2>2. \A g \in G : \A p \in g.at \ {r} : \E f \in F : p \in f.at /\ g.at \ {r} = f.at \ {r}
    BY <1>1, <1>2, <1>8
  <2>3. QED BY <1>7, <2>1, <2>2, KeptIntro, Zenon
<1>10. \A q : q # r => (Same(G, r, q) <=> Same(F, s, q))
  <2> SUFFICES ASSUME NEW q, q # r PROVE Same(G, r, q) <=> Same(F, s, q)
    BY Zenon
  <2>1. ASSUME Same(G, r, q) PROVE Same(F, s, q)
    <3>1. PICK g \in G : r \in g.at /\ q \in g.at
      BY <2>1, Zenon DEF Same
    <3>2. PICK f \in F : g = Moved(f)
      BY <1>2, Zenon
    <3>3. s \in f.at /\ q \in f.at
      BY <1>1, <3>1, <3>2, Zenon
    <3>4. QED BY <3>3, Zenon DEF Same
  <2>2. ASSUME Same(F, s, q) PROVE Same(G, r, q)
    BY <1>5, <1>6, <2>2, Zenon DEF Same
  <2>3. QED BY <2>1, <2>2, Zenon
<1>11. Same(G, r, r) /\ Content(G, r) = Content(F, s)
  <2>1. r \in Moved(fs).at /\ Content(G, r) = Moved(fs).val
    BY <1>6, <1>7, ContentIs, Zenon
  <2>2. QED BY <1>4, <1>6, <2>1, ContentIs, Zenon DEF Same
<1>12. ASSUME s = r PROVE Kept(F, G, {})
  <2>1. \A f \in F : \A p \in f.at : Moved(f) \in G /\ Moved(f).at = f.at /\ Moved(f).val = f.val
    <3> TAKE f \in F
    <3> TAKE p \in f.at
    <3>1. CASE s \in f.at
      <4>1. f.at \cup {r} = f.at
        BY <1>12, <3>1, Zenon
      <4>2. QED BY <1>1, <1>3, <3>1, <4>1, Zenon
    <3>2. CASE s \notin f.at
      <4>1. f.at \ {r} = f.at
        BY <1>12, <3>2, Zenon
      <4>2. QED BY <1>1, <1>3, <3>2, <4>1, Zenon
    <3>3. QED BY <3>1, <3>2, Zenon
  <2>2. \A f \in F : \A p \in f.at \ {} : \E g \in G :
          p \in g.at /\ g.val = f.val /\ g.at \ {} = f.at \ {}
    BY <2>1, Zenon
  <2>3. \A g \in G : \A p \in g.at \ {} : \E f \in F : p \in f.at /\ g.at \ {} = f.at \ {}
    <3> TAKE g \in G
    <3> TAKE p \in g.at \ {}
    <3>1. PICK f \in F : g = Moved(f)
      BY <1>2, Zenon
    <3>2. g.at = f.at
      BY <1>1, <1>12, <3>1
    <3>3. QED BY <3>2, Zenon
  <2>4. QED BY <1>7, <2>2, <2>3, KeptIntro, Zenon
<1>13. QED BY <1>7, <1>9, <1>10, <1>11, <1>12, Zenon

(* A store: all places that show the page that r shows hold x.             *)
LEMMA SetPages ==
  ASSUME NEW F, F \subseteq Pages, Apart(F), NEW r, NEW x, NEW G,
         G = Stored(F, r, x)
  PROVE  /\ Apart(G) /\ \A p, q : Same(G, p, q) <=> Same(F, p, q)
         /\ \A p : Same(F, r, p) => Content(G, p) = x
         /\ \A p : Same(F, p, p) /\ ~ Same(F, r, p) => Content(G, p) = Content(F, p)
<1> DEFINE Set(f) == IF r \in f.at THEN [f EXCEPT !.val = x] ELSE f
<1>1. \A f \in F : Set(f).at = f.at /\ Set(f).val = IF r \in f.at THEN x ELSE f.val
  BY Zenon DEF Pages
<1>2. G = {Set(f) : f \in F}
  BY Zenon DEF Stored
<1> HIDE DEF Set
<1>3. Apart(G)
  BY <1>1, <1>2 DEF Apart
<1>4. \A p, q : Same(G, p, q) <=> Same(F, p, q)
  BY <1>1, <1>2, Zenon DEF Same
<1>5. ASSUME NEW p, NEW f \in F, p \in f.at
      PROVE  Content(F, p) = f.val /\ Content(G, p) = IF r \in f.at THEN x ELSE f.val
  <2>1. Set(f) \in G /\ p \in Set(f).at
    BY <1>1, <1>2, <1>5, Zenon
  <2>2. Content(G, p) = Set(f).val
    BY <1>3, <2>1, ContentIs, Zenon
  <2>3. QED BY <1>1, <1>5, <2>2, ContentIs
<1>6. \A p : Same(F, r, p) => Content(G, p) = x
  BY <1>5, Zenon DEF Same
<1>7. \A p : Same(F, p, p) /\ ~ Same(F, r, p) => Content(G, p) = Content(F, p)
  BY <1>5, Zenon DEF Same
<1>8. QED BY <1>3, <1>4, <1>6, <1>7, Zenon
-----------------------------------------------------------------------------
(* The invariant.                                                          *)

(* A place shows a page when its entry says so.                            *)
MappedInv ==
  \A e \in Envs, v \in VPages : Same(frames, <<e, v>>, <<e, v>>) <=> pte[e][v] # "none"

(* The entries of a page, and the one duppage is about to make, depend on  *)
(* what the page is for.                                                   *)
KindInv ==
  \A e \in Envs :
    /\ \A v \in Private : pte[e][v] \in {"none", "w", "cow"}
    /\ \A v \in Shared : pte[e][v] \in {"none", "share"}
    /\ Locus(e) = "map" => /\ Order[vp[e]] \in Private => perm[e] = "cow"
                           /\ Order[vp[e]] \in Shared => perm[e] = "share"

(* A page is shown at one address, but for PFTEMP; there it is shown       *)
(* nowhere else, but to its owner between the last two calls of pgfault.   *)
AddressInv ==
  \A d, e \in Envs, v, w \in VPages : Same(frames, <<d, v>>, <<e, w>>) =>
    /\ v # PFTEMP /\ w # PFTEMP => v = w
    /\ v = PFTEMP => e = d /\ (w = PFTEMP \/ (w = fva[d] /\ pc[d] = "pf_unmap"))

(* The pages to be shared are shared by all who have them.                 *)
SharedInv ==
  \A d, e \in Envs, v \in Shared :
    pte[d][v] # "none" /\ pte[e][v] # "none" => Same(frames, <<d, v>>, <<e, v>>)

(* What pgfault has done for e, by the places it goes through.             *)
HandlerOf(e) ==
  /\ pc[e] \in {"pf_alloc", "pf_copy", "pf_map"} => pte[e][fva[e]] = "cow"
  /\ pc[e] \in {"pf_copy", "pf_map", "pf_unmap"} => pte[e][PFTEMP] # "none"
  /\ pc[e] = "pf_map" => Content(frames, <<e, PFTEMP>>) = Content(frames, <<e, fva[e]>>)

(* A program that runs has all its pages.                                  *)
LiveInv == \A e \in Live, v \in Seen : pte[e][v] # "none"

(* A child has the pages fork() has come past, the same ones as its parent *)
(* but for the stack.                                                      *)
Passed(e, i) == \/ i < vp[e] \/ Locus(e) \in {"upcall", "start"}
                \/ Locus(e) = "remap" /\ i = vp[e]

Handed(e, v) ==
  /\ pte[child[e]][v] # "none"
  /\ v # Stack => Same(frames, <<e, v>>, <<child[e], v>>)

CopyOf(e) ==
  Locus(e) \in HasChild =>
    \A i \in 1 .. Len(Order) : Passed(e, i) /\ Order[i] \in Seen => Handed(e, Order[i])

HandlerInv == \A e \in Envs : HandlerOf(e)
CopyInv == \A e \in Envs : CopyOf(e)

MInv == /\ Apart(frames) /\ MappedInv /\ KindInv /\ AddressInv /\ SharedInv
        /\ HandlerInv /\ LiveInv /\ CopyInv

(* A step that no running program sees in its memory.                      *)
Unseen == \A e \in Live, v \in Seen :
            e \in Live' => Content(frames', <<e, v>>) = Content(frames, <<e, v>>)
-----------------------------------------------------------------------------
(* The ways most steps keep the parts of the invariant.                    *)

LEMMA Kinds ==
  /\ Seen \subseteq VPages /\ Private \subseteq VPages /\ Shared \subseteq VPages
  /\ PFTEMP \in VPages /\ XStack \in VPages /\ PFTEMP \notin Seen /\ XStack \notin Seen
  /\ Private \cap Shared = {} /\ Stack \in Private
BY LayoutAssumption, SMTT(60) DEF Seen

(* Places that are taken from the pages they showed show none, or a new    *)
(* one alone.                                                              *)
LEMMA MemoryKept ==
  ASSUME MappedInv, AddressInv, SharedInv, NEW P,
         \A p, q \in Places \ P : Same(frames', p, q) <=> Same(frames, p, q),
         \A d, e \in Envs, v, w \in VPages :
           <<d, v>> \in P /\ (Same(frames', <<d, v>>, <<e, w>>) \/ Same(frames', <<e, w>>, <<d, v>>))
             => d = e /\ v = w,
         \A d \in Envs, v \in VPages : <<d, v>> \in P =>
           (Same(frames', <<d, v>>, <<d, v>>) <=> pte'[d][v] # "none"),
         \A d \in Envs, v \in VPages : <<d, v>> \notin P =>
           (pte'[d][v] # "none" <=> pte[d][v] # "none"),
         \A d \in Envs, v \in Shared : <<d, v>> \in P => pte'[d][v] = "none",
         \A d \in Envs : pc[d] = "pf_unmap" =>
           (pc'[d] = "pf_unmap" /\ fva'[d] = fva[d]) \/ <<d, PFTEMP>> \in P
  PROVE  MappedInv' /\ AddressInv' /\ SharedInv'
<1>1. \A d \in Envs, v \in VPages : <<d, v>> \in Places
  BY Zenon DEF Places
<1>2. MappedInv'
  <2> SUFFICES ASSUME NEW d \in Envs, NEW v \in VPages
               PROVE  Same(frames', <<d, v>>, <<d, v>>) <=> pte'[d][v] # "none"
    BY Zenon DEF MappedInv
  <2>1. CASE <<d, v>> \in P
    BY <2>1, Zenon
  <2>2. CASE <<d, v>> \notin P
    <3>1. Same(frames', <<d, v>>, <<d, v>>) <=> Same(frames, <<d, v>>, <<d, v>>)
      BY <1>1, <2>2, Zenon
    <3>2. QED BY <2>2, <3>1, Zenon DEF MappedInv
  <2>3. QED BY <2>1, <2>2, Zenon
<1>3. AddressInv'
  <2> SUFFICES ASSUME NEW d \in Envs, NEW e \in Envs, NEW v \in VPages, NEW w \in VPages,
                      Same(frames', <<d, v>>, <<e, w>>)
               PROVE  /\ v # PFTEMP /\ w # PFTEMP => v = w
                      /\ v = PFTEMP => e = d /\ (w = PFTEMP \/ (w = fva'[d] /\ pc'[d] = "pf_unmap"))
    BY Zenon DEF AddressInv
  <2>1. CASE <<d, v>> \in P \/ <<e, w>> \in P
    BY <2>1
  <2>2. CASE <<d, v>> \notin P /\ <<e, w>> \notin P
    <3>1. Same(frames, <<d, v>>, <<e, w>>)
      BY <1>1, <2>2, Zenon
    <3>2. /\ v # PFTEMP /\ w # PFTEMP => v = w
          /\ v = PFTEMP => e = d /\ (w = PFTEMP \/ (w = fva[d] /\ pc[d] = "pf_unmap"))
      BY <3>1 DEF AddressInv
    <3>3. QED BY <2>2, <3>2, Zenon
  <2>3. QED BY <2>1, <2>2, Zenon
<1>4. SharedInv'
  <2> SUFFICES ASSUME NEW d \in Envs, NEW e \in Envs, NEW v \in Shared,
                      pte'[d][v] # "none", pte'[e][v] # "none"
               PROVE  Same(frames', <<d, v>>, <<e, v>>)
    BY Zenon DEF SharedInv
  <2>1. v \in VPages /\ <<d, v>> \notin P /\ <<e, v>> \notin P
    BY Kinds, Zenon
  <2>2. pte[d][v] # "none" /\ pte[e][v] # "none"
    BY <2>1, Zenon
  <2>3. Same(frames, <<d, v>>, <<e, v>>)
    BY <2>2, Zenon DEF SharedInv
  <2>4. QED BY <1>1, <2>1, <2>3, Zenon
<1>5. QED BY <1>2, <1>3, <1>4, Zenon

LEMMA KindKept ==
  ASSUME KindInv,
         \A d \in Envs, v \in Private \cup Shared :
           pte'[d][v] \in {pte[d][v], "none"} \/ (v \in Private /\ pte'[d][v] \in {"w", "cow"}),
         \A d \in Envs : Locus(d)' = "map" =>
           Locus(d) = "map" /\ vp'[d] = vp[d] /\ perm'[d] = perm[d]
  PROVE  KindInv'
<1>1. \A d \in Envs : /\ \A v \in Private : pte'[d][v] \in {"none", "w", "cow"}
                      /\ \A v \in Shared : pte'[d][v] \in {"none", "share"}
  BY Kinds DEF KindInv
<1>2. \A d \in Envs : Locus(d)' = "map" => /\ Order[vp'[d]] \in Private => perm'[d] = "cow"
                                           /\ Order[vp'[d]] \in Shared => perm'[d] = "share"
  BY Zenon DEF KindInv
<1>3. QED BY <1>1, <1>2, Zenon DEF KindInv

LEMMA HandlerKept ==
  ASSUME TypeOK, MappedInv, NEW d \in Envs, HandlerOf(d), NEW P, Kept(frames, frames', P),
         pc'[d] \in {"pf_alloc", "pf_copy", "pf_map", "pf_unmap"} =>
           /\ pc'[d] = pc[d] /\ fva'[d] = fva[d]
           /\ \A v \in VPages : pte'[d][v] = pte[d][v] /\ <<d, v>> \notin P
  PROVE  HandlerOf(d)'
<1>1. fva[d] \in VPages /\ PFTEMP \in VPages
  BY Kinds, Zenon DEF TypeOK
<1>2. ASSUME pc'[d] = "pf_map"
      PROVE  Content(frames', <<d, PFTEMP>>) = Content(frames', <<d, fva[d]>>)
  <2>1. /\ pc[d] = "pf_map" /\ <<d, PFTEMP>> \in Places \ P /\ <<d, fva[d]>> \in Places \ P
    BY <1>1, <1>2, Zenon DEF Places
  <2>2. pte[d][PFTEMP] # "none" /\ pte[d][fva[d]] # "none"
    BY <2>1, Zenon DEF HandlerOf
  <2>3. Same(frames, <<d, PFTEMP>>, <<d, PFTEMP>>) /\ Same(frames, <<d, fva[d]>>, <<d, fva[d]>>)
    BY <1>1, <2>2, Zenon DEF MappedInv
  <2>4. QED BY <2>1, <2>3, ZenonT(60) DEF Kept, HandlerOf
<1>3. QED BY <1>1, <1>2, Zenon DEF HandlerOf

LEMMA LiveKept ==
  ASSUME LiveInv, \A d \in Envs : d \in Live' => d \in Live,
         \A d \in Envs, v \in Seen : d \in Live' /\ pte'[d][v] = "none" => pte[d][v] = "none"
  PROVE  LiveInv'
BY Zenon DEF LiveInv, Live

LEMMA CopyKept ==
  ASSUME ChildInv, NEW d \in Envs, CopyOf(d), NEW P,
         \A p, q \in Places \ P : Same(frames, p, q) => Same(frames', p, q),
         Locus(d)' \in HasChild =>
           /\ Locus(d) \in HasChild /\ child'[d] = child[d]
           /\ \A i \in 1 .. Len(Order) : Passed(d, i)' => Passed(d, i) \/ Order[i] \notin Seen
           /\ \A v \in Seen : pte'[child[d]][v] = "none" => pte[child[d]][v] = "none"
           /\ \A v \in Seen : v # Stack => <<d, v>> \notin P /\ <<child[d], v>> \notin P
  PROVE  CopyOf(d)'
<1> SUFFICES ASSUME Locus(d)' \in HasChild, NEW i \in 1 .. Len(Order), Passed(d, i)',
                    NEW v \in Seen, v = Order[i]
             PROVE  /\ pte'[child'[d]][v] # "none"
                    /\ v # Stack => Same(frames', <<d, v>>, <<child'[d], v>>)
  BY ZenonT(60) DEF CopyOf, Handed
<1>1. Passed(d, i) /\ Locus(d) \in HasChild /\ child'[d] = child[d] /\ child[d] \in Envs
  BY Zenon DEF ChildInv
<1>2. pte[child[d]][v] # "none" /\ (v # Stack => Same(frames, <<d, v>>, <<child[d], v>>))
  BY <1>1, ZenonT(60) DEF CopyOf, Handed
<1>3. <<d, v>> \in Places /\ <<child[d], v>> \in Places
  BY <1>1, Kinds, Zenon DEF Places
<1>4. QED BY <1>1, <1>2, <1>3, Zenon

LEMMA UnseenStep ==
  ASSUME MappedInv, LiveInv, NEW P, Kept(frames, frames', P),
         \A d \in Envs, v \in Seen : d \in Live /\ d \in Live' => <<d, v>> \notin P
  PROVE  Unseen
<1> SUFFICES ASSUME NEW d \in Live, NEW v \in Seen, d \in Live'
             PROVE  Content(frames', <<d, v>>) = Content(frames, <<d, v>>)
  BY ZenonT(60) DEF Unseen
<1>1. d \in Envs /\ v \in VPages /\ <<d, v>> \in Places \ P
  BY Kinds, Zenon DEF Places, Live
<1>2. Same(frames, <<d, v>>, <<d, v>>)
  BY <1>1, Zenon DEF MappedInv, LiveInv
<1>3. QED BY <1>1, <1>2, ZenonT(60) DEF Kept

(* An environment that does not move, whose places and whose child's stay. *)
LEMMA OthersKept ==
  ASSUME TypeOK, ChildInv, MappedInv, NEW d \in Envs, HandlerOf(d), CopyOf(d),
         NEW P, Kept(frames, frames', P),
         pc'[d] = pc[d], ret'[d] = ret[d], fva'[d] = fva[d], vp'[d] = vp[d],
         child'[d] = child[d],
         \A v \in VPages : pte'[d][v] = pte[d][v] /\ <<d, v>> \notin P,
         child[d] \in Envs => \A v \in VPages :
           pte'[child[d]][v] = pte[child[d]][v] /\ <<child[d], v>> \notin P
  PROVE  HandlerOf(d)' /\ CopyOf(d)'
<1>1. HandlerOf(d)'
  BY HandlerKept, Zenon
<1>2. Locus(d)' = Locus(d)
  BY LocusSame, Zenon
<1>3. \A i \in 1 .. Len(Order) : Passed(d, i)' => Passed(d, i)
  BY <1>2, Zenon DEF Passed
<1>4. \A p, q \in Places \ P : Same(frames, p, q) => Same(frames', p, q)
  BY Zenon DEF Kept
<1>5. Locus(d) \in HasChild => child[d] \in Envs
  BY Zenon DEF ChildInv
<1>6. CopyOf(d)'
  BY <1>2, <1>3, <1>4, <1>5, Kinds, CopyKept, Zenon
<1>7. QED BY <1>1, <1>6, Zenon

(* Nothing moves but e and what it creates or starts, and no memory does.  *)
LEMMA StillStep ==
  ASSUME IInv, MInv, frames' = frames, pte' = pte, NEW e \in Envs, NEW C,
         pc[e] # "pf_unmap",
         \A c \in C : pc[c] \in {"free", "embryo"} /\ pc'[c] \in {"embryo", "user"},
         \A d \in Envs \ ({e} \cup C) : /\ pc'[d] = pc[d] /\ ret'[d] = ret[d] /\ fva'[d] = fva[d]
                                  /\ vp'[d] = vp[d] /\ child'[d] = child[d]
                                  /\ perm'[d] = perm[d]
  PROVE  /\ Apart(frames') /\ MappedInv' /\ AddressInv' /\ SharedInv' /\ Unseen
         /\ \A d \in Envs \ ({e} \cup C) : HandlerOf(d)' /\ CopyOf(d)' /\ Locus(d)' = Locus(d)
         /\ \A c \in C : HandlerOf(c)'
<1> USE DEF IInv, MInv
<1>1. PICK P : P = {}
  BY ZenonT(60)
<1>2. Kept(frames, frames', P)
  BY <1>1, Zenon DEF Kept
<1>3. \A d \in Envs : pc[d] = "pf_unmap" => pc'[d] = "pf_unmap" /\ fva'[d] = fva[d]
  BY Zenon
<1>4. Apart(frames') /\ MappedInv' /\ AddressInv' /\ SharedInv'
  <2>1. /\ \A p, q \in Places \ P : Same(frames', p, q) <=> Same(frames, p, q)
        /\ \A d, a \in Envs, v, w \in VPages :
             <<d, v>> \in P /\ (Same(frames', <<d, v>>, <<a, w>>) \/ Same(frames', <<a, w>>, <<d, v>>))
               => d = a /\ v = w
        /\ \A d \in Envs, v \in VPages : <<d, v>> \in P =>
             (Same(frames', <<d, v>>, <<d, v>>) <=> pte'[d][v] # "none")
        /\ \A d \in Envs, v \in VPages : <<d, v>> \notin P =>
             (pte'[d][v] # "none" <=> pte[d][v] # "none")
        /\ \A d \in Envs, v \in Shared : <<d, v>> \in P => pte'[d][v] = "none"
    BY <1>1, Zenon
  <2>2. QED BY <1>3, <2>1, MemoryKept, Zenon
<1>5. Unseen
  BY <1>1, <1>2, UnseenStep
<1>6. \A d \in Envs \ ({e} \cup C) : HandlerOf(d)' /\ CopyOf(d)'
  <2> TAKE d \in Envs \ ({e} \cup C)
  <2>1. HandlerOf(d) /\ CopyOf(d)
    BY Zenon DEF HandlerInv, CopyInv
  <2>2. /\ \A v \in VPages : pte'[d][v] = pte[d][v] /\ <<d, v>> \notin P
        /\ child[d] \in Envs => \A v \in VPages :
             pte'[child[d]][v] = pte[child[d]][v] /\ <<child[d], v>> \notin P
    BY <1>1, Zenon
  <2>3. QED BY <1>2, <2>1, <2>2, OthersKept, Zenon
<1>7. \A d \in Envs \ ({e} \cup C) : Locus(d)' = Locus(d)
  BY LocusSame, Zenon
<1>8. \A c \in C : HandlerOf(c)'
  BY Zenon DEF HandlerOf
<1>9. QED BY <1>4, <1>5, <1>6, <1>7, <1>8, Zenon
-----------------------------------------------------------------------------
(* Steps that change no mapping.                                           *)

LEMMA StillMemory ==
  ASSUME IInv, MInv, frames' = frames, pte' = pte, NEW e \in Envs,
         pc[e] \notin {"free", "embryo", "pf_unmap"},
         \A d \in Envs \ {e} : /\ pc'[d] = pc[d] /\ ret'[d] = ret[d] /\ fva'[d] = fva[d]
                               /\ vp'[d] = vp[d] /\ child'[d] = child[d] /\ perm'[d] = perm[d],
         Locus(e)' = "map" => /\ Order[vp'[e]] \in Private => perm'[e] = "cow"
                              /\ Order[vp'[e]] \in Shared => perm'[e] = "share",
         HandlerOf(e)', CopyOf(e)'
  PROVE  MInv' /\ Unseen
<1>1. PICK C : C = {}
  BY ZenonT(60)
<1>2. Envs \ ({e} \cup C) = Envs \ {e}
  BY <1>1, Zenon
<1>3. /\ Apart(frames') /\ MappedInv' /\ AddressInv' /\ SharedInv' /\ Unseen
      /\ \A d \in Envs \ {e} : HandlerOf(d)' /\ CopyOf(d)' /\ Locus(d)' = Locus(d)
  BY <1>1, <1>2, StillStep
<1>4. KindInv'
  <2> SUFFICES ASSUME NEW d \in Envs
               PROVE  /\ \A v \in Private : pte[d][v] \in {"none", "w", "cow"}
                      /\ \A v \in Shared : pte[d][v] \in {"none", "share"}
                      /\ Locus(d)' = "map" => /\ Order[vp'[d]] \in Private => perm'[d] = "cow"
                                              /\ Order[vp'[d]] \in Shared => perm'[d] = "share"
    BY Zenon DEF KindInv
  <2>1. CASE d = e
    BY <2>1, Zenon DEF MInv, KindInv
  <2>2. CASE d # e
    BY <1>3, <2>2 DEF MInv, KindInv
  <2>3. QED BY <2>1, <2>2, Zenon
<1>5. LiveInv'
  <2>1. \A d \in Envs : d \in Live' => d \in Live
    BY Zenon DEF Live
  <2>2. QED BY <2>1, LiveKept, Zenon DEF MInv
<1>6. HandlerInv' /\ CopyInv'
  BY <1>3, Zenon DEF HandlerInv, CopyInv
<1>7. QED BY <1>3, <1>4, <1>5, <1>6, Zenon DEF MInv

(* A program panics.                                                       *)
LEMMA PanicMemory ==
  ASSUME IInv, MInv, NEW e \in Envs, pc[e] \notin {"free", "embryo", "pf_unmap"},
         Goto(e, "panic"), UNCHANGED <<memory, ret, fva, child, vp>>,
         \A d \in Envs \ {e} : perm'[d] = perm[d]
  PROVE  MInv' /\ Unseen
<1>1. pc' = [pc EXCEPT ![e] = "panic"] /\ UNCHANGED <<frames, pte, ret, fva, child, vp>>
  BY Zenon DEF Goto, memory
<1>2. pc'[e] = "panic" /\ \A d \in Envs \ {e} : pc'[d] = pc[d]
  BY <1>1, Zenon DEF IInv, TypeOK
<1>3. Locus(e)' = "panic"
  BY <1>2, Zenon DEF Locus, InHandler
<1>4. HandlerOf(e)' /\ CopyOf(e)'
  BY <1>2, <1>3, Zenon DEF HandlerOf, CopyOf, HasChild
<1>5. QED BY <1>1, <1>2, <1>3, <1>4, StillMemory, Zenon

(* A store to a copy-on-write page enters the handler.                     *)
LEMMA FaultMemory ==
  ASSUME IInv, MInv, NEW e \in Envs, NEW v \in Private, MayStore(e, v), pte[e][v] = "cow",
         Goto(e, "pf_alloc"), ret' = [ret EXCEPT ![e] = pc[e]],
         fva' = [fva EXCEPT ![e] = v], UNCHANGED <<memory, child, vp, perm>>
  PROVE  MInv' /\ Unseen
<1>1. /\ pc' = [pc EXCEPT ![e] = "pf_alloc"] /\ UNCHANGED <<frames, pte, child, vp, perm>>
      /\ pc[e] \in {"user"} \cup InFork
  BY Zenon DEF Goto, memory, MayStore
<1>2. /\ pc'[e] = "pf_alloc" /\ ret'[e] = pc[e] /\ fva'[e] = v
      /\ \A d \in Envs \ {e} : pc'[d] = pc[d] /\ ret'[d] = ret[d] /\ fva'[d] = fva[d]
  BY <1>1, Zenon DEF IInv, TypeOK
<1>3. Locus(e)' = Locus(e) /\ pc[e] \notin {"free", "embryo", "pf_unmap"}
  BY <1>1, <1>2, Zenon DEF Locus, InHandler, InFork
<1>4. HandlerOf(e)'
  BY <1>1, <1>2, Zenon DEF HandlerOf
<1>5. CopyOf(e)'
  <2>1. \A i : Passed(e, i)' <=> Passed(e, i)
    BY <1>1, <1>3, Zenon DEF Passed
  <2>2. \A w : Handed(e, w)' <=> Handed(e, w)
    BY <1>1, Zenon DEF Handed
  <2>3. CopyOf(e)
    BY Zenon DEF MInv, CopyInv
  <2>4. QED BY <1>3, <2>1, <2>2, <2>3, Zenon DEF CopyOf
<1>6. QED BY <1>1, <1>2, <1>3, <1>4, <1>5, StillMemory DEF MInv, KindInv

(* The handler is there already.                                           *)
LEMMA InstalledMemory ==
  ASSUME IInv, MInv, NEW e \in Envs, pc[e] = "user", Goto(e, "exofork"),
         UNCHANGED <<memory, locals>>
  PROVE  MInv' /\ Unseen
<1>1. /\ pc' = [pc EXCEPT ![e] = "exofork"]
      /\ UNCHANGED <<frames, pte, ret, fva, child, vp, perm>>
  BY Zenon DEF Goto, memory, locals
<1>2. pc'[e] = "exofork" /\ \A d \in Envs \ {e} : pc'[d] = pc[d]
  BY <1>1, Zenon DEF IInv, TypeOK
<1>3. Locus(e)' = "exofork"
  BY <1>2, Zenon DEF Locus, InHandler
<1>4. HandlerOf(e)' /\ CopyOf(e)'
  BY <1>2, <1>3, Zenon DEF HandlerOf, CopyOf, HasChild
<1>5. QED BY <1>1, <1>2, <1>3, <1>4, StillMemory, Zenon

(* The loop of fork() passes one page.                                     *)
LEMMA NextPassed ==
  ASSUME TypeOK, NEW e \in Envs, NextPage(e), ret' = ret
  PROVE  /\ pc'[e] \in {"dup", "upcall"} /\ Locus(e)' = pc'[e]
         /\ \A d \in Envs \ {e} : pc'[d] = pc[d] /\ vp'[d] = vp[d]
         /\ \A i \in 1 .. Len(Order) : Passed(e, i)' => Passed(e, i) \/ i = vp[e]
<1>1. Len(Order) \in Nat /\ vp[e] \in 1 .. Len(Order)
  BY LayoutAssumption DEF TypeOK
<1>2. CASE vp[e] < Len(Order)
  <2>1. /\ \A d \in Envs \ {e} : pc'[d] = pc[d] /\ vp'[d] = vp[d]
        /\ pc'[e] = "dup" /\ vp'[e] = vp[e] + 1
    BY <1>2, Zenon DEF NextPage, Goto, TypeOK
  <2>2. Locus(e)' = "dup"
    BY <2>1, Zenon DEF Locus, InHandler
  <2>3. \A i \in 1 .. Len(Order) : i < vp[e] + 1 => i < vp[e] \/ i = vp[e]
    BY <1>1
  <2>4. QED BY <2>1, <2>2, <2>3, Zenon DEF Passed
<1>3. CASE ~ (vp[e] < Len(Order))
  <2>1. /\ \A d \in Envs \ {e} : pc'[d] = pc[d] /\ vp'[d] = vp[d]
        /\ pc'[e] = "upcall"
    BY <1>3, Zenon DEF NextPage, Goto, TypeOK
  <2>2. Locus(e)' = "upcall"
    BY <2>1, Zenon DEF Locus, InHandler
  <2>3. \A i \in 1 .. Len(Order) : i < vp[e] \/ i = vp[e]
    BY <1>1, <1>3
  <2>4. QED BY <2>1, <2>2, <2>3, Zenon DEF Passed
<1>4. QED BY <1>2, <1>3, Zenon

(* A page that is not there is passed: it is none of the program's.        *)
LEMMA SkipMemory ==
  ASSUME IInv, MInv, NEW e \in Envs, pc[e] = "dup", ~ IsMapped(e, Order[vp[e]]), NextPage(e),
         UNCHANGED <<memory, ret, fva, child, perm>>
  PROVE  MInv' /\ Unseen
<1>1. UNCHANGED <<frames, pte>>
  BY Zenon DEF memory
<1>2. /\ pc'[e] \in {"dup", "upcall"} /\ Locus(e)' = pc'[e]
      /\ \A d \in Envs \ {e} : pc'[d] = pc[d] /\ vp'[d] = vp[d]
      /\ \A i \in 1 .. Len(Order) : Passed(e, i)' => Passed(e, i) \/ i = vp[e]
  BY NextPassed, Zenon DEF IInv
<1>3. Order[vp[e]] \notin Seen
  BY Zenon DEF MInv, LiveInv, Live, IsMapped
<1>4. Locus(e) = "dup"
  BY Zenon DEF Locus, InHandler
<1>5. HandlerOf(e)'
  BY <1>2, Zenon DEF HandlerOf
<1>6. CopyOf(e)'
  <2>1. CopyOf(e)
    BY Zenon DEF MInv, CopyInv
  <2>2. \A v : Handed(e, v)' <=> Handed(e, v)
    BY <1>1, Zenon DEF Handed
  <2>3. \A i \in 1 .. Len(Order) : Passed(e, i) /\ Order[i] \in Seen => Handed(e, Order[i])
    BY <1>4, <2>1, Zenon DEF CopyOf, HasChild
  <2>4. QED BY <1>2, <1>3, <2>2, <2>3, Zenon DEF CopyOf
<1>7. QED BY <1>1, <1>2, <1>5, <1>6, StillMemory, Zenon

(* duppage looks at the entry.                                             *)
LEMMA LookMemory ==
  ASSUME IInv, MInv, NEW e \in Envs, pc[e] = "dup", IsMapped(e, Order[vp[e]]),
         Goto(e, "map"), perm' = [perm EXCEPT ![e] = ChildPerm(pte[e][Order[vp[e]]])],
         UNCHANGED <<memory, ret, fva, child, vp>>
  PROVE  MInv' /\ Unseen
<1>1. UNCHANGED <<frames, pte>> /\ pc' = [pc EXCEPT ![e] = "map"]
  BY Zenon DEF memory, Goto
<1>2. /\ pc'[e] = "map" /\ perm'[e] = ChildPerm(pte[e][Order[vp[e]]])
      /\ \A d \in Envs \ {e} : pc'[d] = pc[d] /\ perm'[d] = perm[d]
  BY <1>1, Zenon DEF IInv, TypeOK
<1>3. Locus(e)' = "map" /\ Locus(e) = "dup"
  BY <1>2, Zenon DEF Locus, InHandler
<1>4. /\ Order[vp[e]] \in Private => perm'[e] = "cow"
      /\ Order[vp[e]] \in Shared => perm'[e] = "share"
  BY <1>2, Zenon DEF MInv, KindInv, IsMapped, ChildPerm
<1>5. HandlerOf(e)'
  BY <1>2, Zenon DEF HandlerOf
<1>6. CopyOf(e)'
  <2>1. CopyOf(e)
    BY Zenon DEF MInv, CopyInv
  <2>2. \A v : Handed(e, v)' <=> Handed(e, v)
    BY <1>1, Zenon DEF Handed
  <2>3. \A i \in 1 .. Len(Order) : Passed(e, i)' => Passed(e, i)
    BY <1>3, Zenon DEF Passed
  <2>4. QED BY <1>3, <2>1, <2>2, <2>3, Zenon DEF CopyOf, HasChild
<1>7. QED BY <1>1, <1>2, <1>4, <1>5, <1>6, StillMemory, Zenon

(* The child's upcall is set.                                              *)
LEMMA UpcallMemory ==
  ASSUME IInv, MInv, NEW e \in Envs, sys_env_set_pgfault_upcall(e)
  PROVE  MInv' /\ Unseen
<1>1. /\ pc[e] = "upcall" /\ pc' = [pc EXCEPT ![e] = "start"]
      /\ UNCHANGED <<frames, pte, ret, fva, child, vp, perm>>
  BY Zenon DEF sys_env_set_pgfault_upcall, memory, locals, Goto
<1>2. pc'[e] = "start" /\ \A d \in Envs \ {e} : pc'[d] = pc[d]
  BY <1>1, Zenon DEF IInv, TypeOK
<1>3. Locus(e)' = "start" /\ Locus(e) = "upcall"
  BY <1>1, <1>2, Zenon DEF Locus, InHandler
<1>4. HandlerOf(e)'
  BY <1>2, Zenon DEF HandlerOf
<1>5. CopyOf(e)'
  <2>1. CopyOf(e)
    BY Zenon DEF MInv, CopyInv
  <2>2. \A v : Handed(e, v)' <=> Handed(e, v)
    BY <1>1, Zenon DEF Handed
  <2>3. \A i \in 1 .. Len(Order) : Passed(e, i)
    BY <1>3, Zenon DEF Passed
  <2>4. QED BY <1>3, <2>1, <2>2, <2>3, Zenon DEF CopyOf, HasChild
<1>6. QED BY <1>1, <1>2, <1>3, <1>4, <1>5, StillMemory, Zenon

(* A child is made, with no memory.                                        *)
Exoforks(e, c) ==
  /\ pc[e] = "exofork" /\ pc[c] = "free"
  /\ pc' = [pc EXCEPT ![e] = "dup", ![c] = "embryo"]
  /\ child' = [child EXCEPT ![e] = c]
  /\ vp' = [vp EXCEPT ![e] = 1]
  /\ UNCHANGED <<frames, pte, ret, fva, perm>>

LEMMA ExoforkMemory ==
  ASSUME IInv, MInv, NEW e \in Envs, NEW c \in Envs, Exoforks(e, c)
  PROVE  MInv' /\ Unseen
<1>1. /\ UNCHANGED <<frames, pte, ret, fva, perm>>
      /\ pc[e] = "exofork" /\ pc[c] = "free"
  BY Zenon DEF Exoforks
<1>2. /\ pc'[e] = "dup" /\ pc'[c] = "embryo" /\ vp'[e] = 1 /\ e # c
      /\ \A d \in Envs \ {e} : vp'[d] = vp[d] /\ child'[d] = child[d]
      /\ \A d \in Envs \ {e, c} : pc'[d] = pc[d]
  BY Zenon DEF IInv, TypeOK, Exoforks
<1>3. Locus(e)' = "dup" /\ Locus(c)' = "embryo"
  BY <1>2, Zenon DEF Locus, InHandler
<1>4. PICK C : C = {c}
  BY ZenonT(60)
<1>5. Envs \ ({e} \cup C) = Envs \ {e, c}
  BY <1>4, Zenon
<1>6. /\ Apart(frames') /\ MappedInv' /\ AddressInv' /\ SharedInv' /\ Unseen
      /\ \A d \in Envs \ {e, c} : HandlerOf(d)' /\ CopyOf(d)' /\ Locus(d)' = Locus(d)
      /\ HandlerOf(c)'
  <2>0. pc[e] # "pf_unmap" /\ frames' = frames /\ pte' = pte
    BY <1>1, Zenon
  <2>1. \A d \in Envs \ ({e} \cup C) :
          /\ pc'[d] = pc[d] /\ ret'[d] = ret[d] /\ fva'[d] = fva[d]
          /\ vp'[d] = vp[d] /\ child'[d] = child[d] /\ perm'[d] = perm[d]
    BY <1>1, <1>2, <1>5, Zenon
  <2>2. \A b \in C : pc[b] \in {"free", "embryo"} /\ pc'[b] \in {"embryo", "user"}
    BY <1>1, <1>2, <1>4, Zenon
  <2>3. /\ Apart(frames') /\ MappedInv' /\ AddressInv' /\ SharedInv' /\ Unseen
        /\ \A d \in Envs \ ({e} \cup C) : HandlerOf(d)' /\ CopyOf(d)' /\ Locus(d)' = Locus(d)
        /\ \A b \in C : HandlerOf(b)'
    BY <1>1, <2>0, <2>1, <2>2, StillStep, ZenonT(60)
  <2>4. QED BY <1>4, <1>5, <2>3, Zenon
<1>7. HandlerOf(e)' /\ CopyOf(c)'
  BY <1>2, <1>3, Zenon DEF HandlerOf, CopyOf, HasChild
<1>8. CopyOf(e)'
  <2>1. \A i \in 1 .. Len(Order) : ~ Passed(e, i)'
    BY <1>2, <1>3, LayoutAssumption DEF Passed
  <2>2. QED BY <2>1, Zenon DEF CopyOf
<1>9. KindInv'
  <2>1. \A d \in Envs : Locus(d)' = "map" =>
          Locus(d) = "map" /\ vp'[d] = vp[d] /\ perm'[d] = perm[d]
    BY <1>1, <1>2, <1>3, <1>6, Zenon
  <2>2. QED BY <1>1, <2>1, KindKept, Zenon DEF MInv
<1>10. LiveInv'
  <2>1. \A d \in Envs : d \in Live' => d \in Live
    BY <1>1, <1>2, Zenon DEF Live
  <2>2. QED BY <1>1, <2>1, LiveKept, Zenon DEF MInv
<1>11. HandlerInv' /\ CopyInv'
  BY <1>6, <1>7, <1>8, Zenon DEF HandlerInv, CopyInv
<1>12. QED BY <1>6, <1>9, <1>10, <1>11, Zenon DEF MInv

(* The child is started: it has a copy of all its parent has.              *)
LEMMA StartMemory ==
  ASSUME IInv, MInv, NEW e \in Envs, sys_env_set_status(e)
  PROVE  /\ MInv' /\ Unseen /\ child[e] \in Envs /\ child[e] \notin Live /\ e \in Live
         /\ Live' = Live \cup {child[e]} /\ frames' = frames
         /\ \A v \in Seen : Handed(e, v)
<1>0. child[e] \in Envs /\ pc[child[e]] = "embryo" /\ child[e] # e /\ Locus(e) = "start" /\ pc[e] = "start"
  <2>1. pc[e] = "start"
    BY Zenon DEF sys_env_set_status
  <2>2. Locus(e) = "start"
    BY <2>1, Zenon DEF Locus, InHandler
  <2>3. QED BY <2>1, <2>2, Zenon DEF IInv, ChildInv, HasChild
<1> PICK c \in Envs : c = child[e]
  BY <1>0, Zenon
<1>1. /\ pc[e] = "start" /\ pc' = [pc EXCEPT ![e] = "user", ![c] = "user"]
      /\ child' = [child EXCEPT ![e] = NoEnv]
      /\ UNCHANGED <<frames, pte, ret, fva, vp, perm>>
  BY Zenon DEF sys_env_set_status, memory
<1>2. Locus(e) = "start"
  BY <1>0, Zenon
<1>3. c \in Envs /\ pc[c] = "embryo" /\ c # e
  BY <1>0, Zenon
<1>4. /\ pc'[e] = "user" /\ pc'[c] = "user"
      /\ \A d \in Envs \ {e} : child'[d] = child[d]
      /\ \A d \in Envs \ {e, c} : pc'[d] = pc[d]
  <2>1. pc \in [Envs -> Labels] /\ child \in [Envs -> Envs \cup {NoEnv}]
    BY Zenon DEF IInv, TypeOK
  <2>2. QED BY <1>1, <1>3, <2>1, Zenon
<1>5. Locus(e)' = "user" /\ Locus(c)' = "user"
  BY <1>4, Zenon DEF Locus, InHandler
<1>6. PICK C : C = {c}
  BY ZenonT(60)
<1>7. Envs \ ({e} \cup C) = Envs \ {e, c}
  BY <1>6, Zenon
<1>8. \A d \in Envs \ ({e} \cup C) :
        /\ pc'[d] = pc[d] /\ ret'[d] = ret[d] /\ fva'[d] = fva[d]
        /\ vp'[d] = vp[d] /\ child'[d] = child[d] /\ perm'[d] = perm[d]
  BY <1>1, <1>4, <1>7, Zenon
<1>9. /\ Apart(frames') /\ MappedInv' /\ AddressInv' /\ SharedInv' /\ Unseen
      /\ \A d \in Envs \ {e, c} : HandlerOf(d)' /\ CopyOf(d)' /\ Locus(d)' = Locus(d)
      /\ HandlerOf(c)'
  <2>1. \A b \in C : pc[b] \in {"free", "embryo"} /\ pc'[b] \in {"embryo", "user"}
    BY <1>3, <1>4, <1>6, Zenon
  <2>2. /\ Apart(frames') /\ MappedInv' /\ AddressInv' /\ SharedInv' /\ Unseen
        /\ \A d \in Envs \ ({e} \cup C) : HandlerOf(d)' /\ CopyOf(d)' /\ Locus(d)' = Locus(d)
        /\ \A b \in C : HandlerOf(b)'
    BY <1>1, <1>8, <2>1, StillStep, ZenonT(60)
  <2>3. QED BY <1>6, <1>7, <2>2, Zenon
<1>10. HandlerOf(e)' /\ CopyOf(c)' /\ CopyOf(e)'
  BY <1>4, <1>5, Zenon DEF HandlerOf, CopyOf, HasChild
<1>11. KindInv'
  <2>1. \A d \in Envs : Locus(d)' = "map" =>
          Locus(d) = "map" /\ vp'[d] = vp[d] /\ perm'[d] = perm[d]
    <3>1. \A d \in Envs : Locus(d)' = "map" => Locus(d) = "map"
      BY <1>5, <1>9, Zenon
    <3>2. QED BY <1>1, <3>1, Zenon
  <2>2. QED BY <1>1, <2>1, KindKept, Zenon DEF MInv
<1>12. \A v \in Seen : Handed(e, v)
  <2> TAKE v \in Seen
  <2>1. PICK i \in 1 .. Len(Order) : v = Order[i]
    BY Kinds, Zenon DEF VPages
  <2>2. Passed(e, i) /\ CopyOf(e)
    BY <1>2, Zenon DEF Passed, MInv, CopyInv
  <2>3. QED BY <1>2, <2>1, <2>2, Zenon DEF CopyOf, HasChild
<1>13. e \in Live /\ c \notin Live /\ Live' = Live \cup {c}
  BY <1>1, <1>3, <1>4, Zenon DEF Live
<1>14. LiveInv'
  <2>1. \A v \in Seen : pte[c][v] # "none"
    BY <1>12, Zenon DEF Handed
  <2>2. QED BY <1>1, <1>13, <2>1, Zenon DEF MInv, LiveInv
<1>15. HandlerInv' /\ CopyInv'
  BY <1>9, <1>10, Zenon DEF HandlerInv, CopyInv
<1>16. QED BY <1>1, <1>3, <1>9, <1>11, <1>12, <1>13, <1>14, <1>15, Zenon DEF MInv
-----------------------------------------------------------------------------
(* Steps that take a place from the page it showed.                        *)

(* What an environment that does not move keeps.                           *)
Idle(d) == /\ pc'[d] = pc[d] /\ ret'[d] = ret[d] /\ fva'[d] = fva[d]
           /\ vp'[d] = vp[d] /\ child'[d] = child[d] /\ perm'[d] = perm[d]

(* The mover's place in fork() afterwards, as far as the rest depends on it. *)
Moves(e) ==
  /\ pc[e] \notin {"free", "embryo"}
  /\ Locus(e)' = "map" => Locus(e) = "map" /\ vp'[e] = vp[e] /\ perm'[e] = perm[e]
  /\ Locus(e)' \in HasChild =>
       /\ Locus(e) \in HasChild /\ child'[e] = child[e]
       /\ \A i \in 1 .. Len(Order) : Passed(e, i)' => Passed(e, i) \/ Order[i] \notin Seen

LEMMA IdlePlace ==
  ASSUME NEW d, Idle(d)
  PROVE  /\ Locus(d)' = Locus(d)
         /\ \A i : Passed(d, i)' <=> Passed(d, i)
<1>1. Locus(d)' = Locus(d)
  BY LocusSame, Zenon DEF Idle
<1>2. QED BY <1>1, Zenon DEF Passed, Idle

(* Places outside the program's memory get other pages.                    *)
LEMMA ApartStep ==
  ASSUME IInv, MInv, NEW P, Apart(frames'), Kept(frames, frames', P),
         NEW e \in Envs, Moves(e), \A a \in Envs \ {e} : Idle(a), HandlerOf(e)',
         \A a \in Envs \ {e} : pc[a] = "embryo" \/ \A v \in VPages : <<a, v>> \notin P,
         \A a \in Envs, v \in Seen : <<a, v>> \notin P,
         \A a \in Envs, v \in VPages : <<a, v>> \notin P => pte'[a][v] = pte[a][v],
         \A a, b \in Envs, v, w \in VPages :
           <<a, v>> \in P /\ (Same(frames', <<a, v>>, <<b, w>>) \/ Same(frames', <<b, w>>, <<a, v>>))
             => a = b /\ v = w,
         \A a \in Envs, v \in VPages : <<a, v>> \in P =>
           (Same(frames', <<a, v>>, <<a, v>>) <=> pte'[a][v] # "none"),
         pc[e] = "pf_unmap" => <<e, PFTEMP>> \in P
  PROVE  MInv' /\ Unseen
<1>1. /\ TypeOK /\ ChildInv /\ MappedInv /\ KindInv /\ AddressInv /\ SharedInv /\ LiveInv
      /\ \A a \in Envs : HandlerOf(a) /\ CopyOf(a)
  BY Zenon DEF IInv, MInv, HandlerInv, CopyInv
<1>2. \A p, q \in Places \ P : Same(frames', p, q) <=> Same(frames, p, q)
  BY Zenon DEF Kept
<1>3. /\ \A a \in Envs, v \in VPages : <<a, v>> \notin P =>
           (pte'[a][v] # "none" <=> pte[a][v] # "none")
      /\ \A a \in Envs, v \in Shared : <<a, v>> \in P => pte'[a][v] = "none"
  BY Zenon DEF Seen
<1>4. \A a \in Envs : pc[a] = "pf_unmap" =>
        (pc'[a] = "pf_unmap" /\ fva'[a] = fva[a]) \/ <<a, PFTEMP>> \in P
  BY Zenon DEF Idle
<1>5. MappedInv' /\ AddressInv' /\ SharedInv'
  BY <1>1, <1>2, <1>3, <1>4, MemoryKept, ZenonT(60)
<1>6. Unseen
  BY <1>1, UnseenStep, Zenon
<1>7. \A a \in Envs \ {e} : HandlerOf(a)'
  <2> TAKE a \in Envs \ {e}
  <2>1. Idle(a) /\ HandlerOf(a)
    BY <1>1, Zenon
  <2>2. CASE pc[a] = "embryo"
    BY <2>1, <2>2, Zenon DEF HandlerOf, Idle
  <2>3. CASE \A v \in VPages : <<a, v>> \notin P
    <3>1. /\ pc'[a] = pc[a] /\ fva'[a] = fva[a]
          /\ \A v \in VPages : pte'[a][v] = pte[a][v] /\ <<a, v>> \notin P
      BY <2>1, <2>3 DEF Idle
    <3>2. QED BY <1>1, <2>1, <3>1, HandlerKept, Zenon
  <2>4. QED BY <2>2, <2>3, Zenon
<1>8. \A a \in Envs : CopyOf(a)'
  <2> TAKE a \in Envs
  <2>1. CopyOf(a)
    BY <1>1, Zenon
  <2>2. Locus(a)' \in HasChild =>
          /\ Locus(a) \in HasChild /\ child'[a] = child[a]
          /\ \A i \in 1 .. Len(Order) : Passed(a, i)' => Passed(a, i) \/ Order[i] \notin Seen
    <3>1. CASE a = e
      BY <3>1, Zenon DEF Moves
    <3>2. CASE a # e
      <4>1. Idle(a)
        BY <3>2, Zenon
      <4>2. QED BY <4>1, IdlePlace DEF Idle
    <3>3. QED BY <3>1, <3>2, Zenon
  <2>3. Locus(a) \in HasChild => child[a] \in Envs
    BY <1>1, Zenon DEF ChildInv
  <2>4. Locus(a) \in HasChild =>
          /\ \A v \in Seen : pte'[child[a]][v] = "none" => pte[child[a]][v] = "none"
          /\ \A v \in Seen : v # Stack => <<a, v>> \notin P /\ <<child[a], v>> \notin P
    BY <2>3, Kinds, Zenon
  <2>5. \A p, q \in Places \ P : Same(frames, p, q) => Same(frames', p, q)
    BY <1>2, Zenon
  <2>6. QED BY <1>1, <2>1, <2>2, <2>4, <2>5, CopyKept, Zenon
<1>9. KindInv'
  <2>1. \A a \in Envs, v \in Private \cup Shared : pte'[a][v] = pte[a][v]
    BY Kinds, Zenon DEF Seen
  <2>2. \A a \in Envs : Locus(a)' = "map" =>
          Locus(a) = "map" /\ vp'[a] = vp[a] /\ perm'[a] = perm[a]
    BY IdlePlace DEF Moves, Idle
  <2>3. QED BY <1>1, <2>1, <2>2, KindKept
<1>10. LiveInv'
  <2>1. \A a \in Envs : a \in Live' => a \in Live
    BY Zenon DEF Live, Moves, Idle
  <2>2. \A a \in Envs, v \in Seen : pte'[a][v] = pte[a][v]
    BY Kinds, Zenon
  <2>3. QED BY <1>1, <2>1, <2>2, LiveKept, Zenon
<1>11. QED BY <1>5, <1>6, <1>7, <1>8, <1>9, <1>10, Zenon DEF MInv, HandlerInv, CopyInv

(* A page is allocated outside the program's memory.                       *)
LEMMA AllocMemory ==
  ASSUME IInv, MInv, NEW d \in Envs, NEW va \in {PFTEMP, XStack}, sys_page_alloc(d, va),
         NEW e \in Envs, Moves(e), \A a \in Envs \ {e} : Idle(a), HandlerOf(e)',
         d = e \/ pc[d] = "embryo", pc[e] # "pf_unmap"
  PROVE  MInv' /\ Unseen
<1>1. PICK P : P = {<<d, va>>}
  BY ZenonT(60)
<1>2. frames \subseteq Pages /\ Apart(frames) /\ va \in VPages /\ va \notin Seen
  BY Kinds, Zenon DEF IInv, TypeOK, MInv, Pages
<1>3. /\ Apart(frames') /\ Kept(frames, frames', P)
      /\ \A q : Same(frames', <<d, va>>, q) <=> q = <<d, va>>
  <2>1. PICK r : r = <<d, va>>
    BY ZenonT(60)
  <2>2. frames' = Alloced(frames, r)
    BY <2>1, Zenon DEF sys_page_alloc, Alloced, Dropped
  <2>3. Apart(frames') /\ Kept(frames, frames', {r}) /\ \A q : Same(frames', r, q) <=> q = r
    BY <1>2, <2>2, AllocPages, Zenon
  <2>4. QED BY <1>1, <2>1, <2>3, Zenon
<1>4. \A a \in Envs, v \in VPages : pte'[a][v] = IF a = d /\ v = va THEN "w" ELSE pte[a][v]
  <2>1. Allocates(d, va)
    BY <1>2, AllocEffect, Zenon DEF IInv
  <2>2. QED BY <2>1, Zenon DEF Allocates
<1>5. \A a \in Envs, v \in VPages : <<a, v>> \in P <=> a = d /\ v = va
  BY <1>1, Zenon
<1>6. \A a, b \in Envs, v, w \in VPages :
        <<a, v>> \in P /\ (Same(frames', <<a, v>>, <<b, w>>) \/ Same(frames', <<b, w>>, <<a, v>>))
          => a = b /\ v = w
  <2>1. \A q : Same(frames', q, <<d, va>>) => Same(frames', <<d, va>>, q)
    BY <1>3, SameRules, Zenon
  <2>2. QED BY <1>3, <1>5, <2>1
<1>7. \A a \in Envs, v \in VPages : <<a, v>> \in P =>
        (Same(frames', <<a, v>>, <<a, v>>) <=> pte'[a][v] # "none")
  BY <1>3, <1>4, <1>5, Zenon
<1>8. /\ \A a \in Envs \ {e} : pc[a] = "embryo" \/ \A v \in VPages : <<a, v>> \notin P
      /\ \A a \in Envs, v \in Seen : <<a, v>> \notin P
      /\ \A a \in Envs, v \in VPages : <<a, v>> \notin P => pte'[a][v] = pte[a][v]
  BY <1>2, <1>4, <1>5, Kinds, Zenon
<1>9. QED BY <1>3, <1>6, <1>7, <1>8, ApartStep, ZenonT(60)

(* pgfault gets a page for the copy.                                       *)
LEMMA HandlerAllocMemory ==
  ASSUME IInv, MInv, NEW e \in Envs, pc[e] = "pf_alloc", Goto(e, "pf_copy"),
         sys_page_alloc(e, PFTEMP), UNCHANGED locals
  PROVE  MInv' /\ Unseen
<1>1. /\ pc' = [pc EXCEPT ![e] = "pf_copy"] /\ UNCHANGED <<ret, fva, child, vp, perm>>
  BY Zenon DEF Goto, locals
<1>2. pc'[e] = "pf_copy" /\ \A d \in Envs \ {e} : Idle(d)
  BY <1>1, Zenon DEF IInv, TypeOK, Idle
<1>3. Locus(e)' = Locus(e)
  BY <1>1, <1>2, Zenon DEF Locus, InHandler
<1>4. Moves(e)
  BY <1>1, <1>3, Zenon DEF Moves, Passed
<1>5. /\ pte'[e][PFTEMP] = "w" /\ pte'[e][fva[e]] = "cow"
  <2>1. fva[e] \in Private /\ HandlerOf(e) /\ TypeOK
    BY Zenon DEF IInv, TypeOK, MInv, HandlerInv
  <2>2. fva[e] \in VPages /\ fva[e] # PFTEMP
    BY <2>1, Kinds, Zenon DEF Seen
  <2>3. pte[e][fva[e]] = "cow"
    BY <2>1, Zenon DEF HandlerOf
  <2>4. Allocates(e, PFTEMP)
    BY <2>1, Kinds, AllocEffect, Zenon
  <2>5. QED BY <2>2, <2>3, <2>4, Kinds, Zenon DEF Allocates
<1>6. HandlerOf(e)'
  BY <1>1, <1>2, <1>5, Zenon DEF HandlerOf
<1>7. QED BY <1>2, <1>4, <1>6, AllocMemory, Zenon

(* The first fork() installs the handler.                                  *)
LEMMA InstallMemory ==
  ASSUME IInv, MInv, NEW e \in Envs, pc[e] = "user", Goto(e, "exofork"),
         sys_page_alloc(e, XStack), UNCHANGED locals
  PROVE  MInv' /\ Unseen
<1>1. pc' = [pc EXCEPT ![e] = "exofork"] /\ UNCHANGED <<ret, fva, child, vp, perm>>
  BY Zenon DEF Goto, locals
<1>2. pc'[e] = "exofork" /\ \A d \in Envs \ {e} : Idle(d)
  BY <1>1, Zenon DEF IInv, TypeOK, Idle
<1>3. Locus(e)' = "exofork"
  BY <1>2, Zenon DEF Locus, InHandler
<1>4. Moves(e) /\ HandlerOf(e)'
  BY <1>2, <1>3, Zenon DEF Moves, HandlerOf, HasChild
<1>5. QED BY <1>2, <1>4, AllocMemory, Zenon

(* fork() gives the child an exception stack of its own.                   *)
LEMMA NewStackMemory ==
  ASSUME IInv, MInv, NEW e \in Envs, pc[e] = "dup", Order[vp[e]] = XStack,
         sys_page_alloc(child[e], XStack), NextPage(e), UNCHANGED <<ret, fva, child, perm>>
  PROVE  MInv' /\ Unseen
<1>1. Locus(e) = "dup"
  BY Zenon DEF Locus, InHandler
<1>2. child[e] \in Envs /\ pc[child[e]] = "embryo" /\ TypeOK
  BY <1>1, Zenon DEF IInv, ChildInv, HasChild
<1>3. /\ pc'[e] \in {"dup", "upcall"} /\ Locus(e)' = pc'[e]
      /\ \A d \in Envs \ {e} : pc'[d] = pc[d] /\ vp'[d] = vp[d]
      /\ \A i \in 1 .. Len(Order) : Passed(e, i)' => Passed(e, i) \/ i = vp[e]
  BY <1>2, NextPassed, Zenon
<1>4. \A d \in Envs \ {e} : Idle(d)
  BY <1>3, Zenon DEF Idle
<1>5. Moves(e)
  BY <1>1, <1>3, Kinds, Zenon DEF Moves, HasChild
<1>6. HandlerOf(e)'
  BY <1>3, Zenon DEF HandlerOf
<1>7. QED BY <1>2, <1>4, <1>5, <1>6, AllocMemory, Zenon

(* The last call of pgfault.                                               *)
LEMMA UnmapMemory ==
  ASSUME IInv, MInv, NEW e \in Envs, pgfault_unmap(e)
  PROVE  MInv' /\ Unseen
<1>1. /\ pc[e] = "pf_unmap" /\ sys_page_unmap(e, PFTEMP) /\ pc' = [pc EXCEPT ![e] = ret[e]]
      /\ ret' = [ret EXCEPT ![e] = "user"] /\ fva' = [fva EXCEPT ![e] = Stack]
      /\ UNCHANGED <<child, vp, perm>>
  BY Zenon DEF pgfault_unmap, Goto
<1>2. /\ pc'[e] = ret[e] /\ ret[e] \in {"user"} \cup InFork
      /\ \A d \in Envs \ {e} : Idle(d)
  BY <1>1, Zenon DEF IInv, TypeOK, Idle
<1>3. Locus(e)' = ret[e] /\ Locus(e) = ret[e]
  BY <1>1, <1>2, Zenon DEF Locus, InHandler, InFork
<1>4. Moves(e)
  BY <1>1, <1>3, Zenon DEF Moves, Passed
<1>5. HandlerOf(e)'
  BY <1>2, Zenon DEF HandlerOf, InFork
<1>6. PICK P : P = {<<e, PFTEMP>>}
  BY ZenonT(60)
<1>7. frames \subseteq Pages /\ Apart(frames)
  BY Zenon DEF IInv, TypeOK, MInv, Pages
<1>8. Apart(frames') /\ Kept(frames, frames', P) /\ \A p \in P : \A q : ~ Same(frames', p, q)
  <2>1. frames' = Dropped(frames, P)
    BY <1>1, <1>6, Zenon DEF sys_page_unmap, Dropped
  <2>2. QED BY <1>7, <2>1, DropPages, Zenon
<1>9. \A a \in Envs, v \in VPages : <<a, v>> \in P <=> a = e /\ v = PFTEMP
  BY <1>6, Zenon
<1>10. /\ pte'[e][PFTEMP] = "none"
       /\ \A a \in Envs, v \in VPages : <<a, v>> \notin P => pte'[a][v] = pte[a][v]
  BY <1>1, <1>9, Kinds, Zenon DEF sys_page_unmap, IInv, TypeOK
<1>11. /\ \A a, b \in Envs, v, w \in VPages :
            <<a, v>> \in P /\ (Same(frames', <<a, v>>, <<b, w>>) \/ Same(frames', <<b, w>>, <<a, v>>))
              => a = b /\ v = w
       /\ \A a \in Envs, v \in VPages : <<a, v>> \in P =>
            (Same(frames', <<a, v>>, <<a, v>>) <=> pte'[a][v] # "none")
  <2>1. \A p, q : Same(frames', p, q) => Same(frames', q, p)
    BY <1>8, SameRules, Zenon
  <2>2. \A p, q : Same(frames', p, q) => p \notin P /\ q \notin P
    BY <1>8, <2>1, Zenon
  <2>3. QED BY <1>9, <1>10, <2>2, Zenon
<1>12. /\ \A a \in Envs \ {e}, v \in VPages : <<a, v>> \notin P
       /\ \A a \in Envs, v \in Seen : <<a, v>> \notin P
       /\ <<e, PFTEMP>> \in P
  BY <1>6, <1>9, Kinds, Zenon
<1>13. QED BY <1>2, <1>4, <1>5, <1>8, <1>10, <1>11, <1>12, ApartStep, ZenonT(60)
-----------------------------------------------------------------------------
(* Steps that change the pages of the program.                             *)

(* A step of e that touches its own places and its child's.                *)
LEMMA OthersStep ==
  ASSUME IInv, MInv, NEW P, Kept(frames, frames', P),
         NEW e \in Envs, pc[e] \notin {"free", "embryo"}, \A a \in Envs \ {e} : Idle(a),
         \A a \in Envs : \/ a = e \/ a = child[e]
                         \/ \A v \in VPages : pte'[a][v] = pte[a][v] /\ <<a, v>> \notin P
  PROVE  \A a \in Envs \ {e} : HandlerOf(a)' /\ CopyOf(a)' /\ Locus(a)' = Locus(a)
<1> TAKE a \in Envs \ {e}
<1>1. /\ TypeOK /\ ChildInv /\ MappedInv /\ HandlerOf(a) /\ CopyOf(a) /\ Idle(a)
  BY Zenon DEF IInv, MInv, HandlerInv, CopyInv
<1>2. Locus(a)' = Locus(a)
  BY <1>1, IdlePlace, Zenon
<1>3. CASE a = child[e]
  <2>1. pc[a] = "embryo" /\ pc'[a] = "embryo"
    BY <1>1, <1>3, Zenon DEF ChildInv, Idle
  <2>2. Locus(a)' = "embryo"
    BY <2>1, Zenon DEF Locus, InHandler
  <2>3. QED BY <1>2, <2>1, <2>2, Zenon DEF HandlerOf, CopyOf, HasChild
<1>4. CASE a # child[e]
  <2>1. \A v \in VPages : pte'[a][v] = pte[a][v] /\ <<a, v>> \notin P
    BY <1>4, Zenon
  <2>2. child[a] \in Envs => child[a] # e /\ child[a] # child[e]
    BY <1>1, Zenon DEF ChildInv
  <2>3. child[a] \in Envs => \A v \in VPages :
          pte'[child[a]][v] = pte[child[a]][v] /\ <<child[a], v>> \notin P
    BY <2>2, Zenon
  <2>4. HandlerOf(a)' /\ CopyOf(a)'
    BY <1>1, <2>1, <2>3, OthersKept, Zenon DEF Idle
  <2>5. QED BY <1>2, <2>4, Zenon
<1>5. QED BY <1>3, <1>4, Zenon

(* pgfault's memcpy.                                                       *)
LEMMA CopyMemory ==
  ASSUME IInv, MInv, NEW e \in Envs, pgfault_copy(e)
  PROVE  MInv' /\ Unseen
<1>1. PICK x \in Values : Holds(e, fva[e], x) /\ SetPage(e, PFTEMP, x)
  BY Zenon DEF pgfault_copy
<1>2. /\ pc[e] = "pf_copy" /\ pc' = [pc EXCEPT ![e] = "pf_map"]
      /\ UNCHANGED <<ret, fva, child, vp, perm>> /\ pte' = pte
  BY <1>1, Zenon DEF pgfault_copy, Goto, locals, SetPage
<1>3. pc'[e] = "pf_map" /\ \A d \in Envs \ {e} : Idle(d)
  BY <1>2, Zenon DEF IInv, TypeOK, Idle
<1>4. Locus(e)' = Locus(e)
  BY <1>2, <1>3, Zenon DEF Locus, InHandler
<1>5. Moves(e)
  BY <1>2, <1>4, Zenon DEF Moves, Passed
<1>6. /\ frames \subseteq Pages /\ Apart(frames) /\ AddressInv /\ MappedInv /\ HandlerOf(e)
      /\ fva[e] \in Private
  BY Zenon DEF IInv, TypeOK, MInv, HandlerInv, Pages
<1>7. fva[e] \in VPages /\ fva[e] # PFTEMP
  BY <1>6, Kinds, Zenon DEF Seen
<1>8. PICK r : r = <<e, PFTEMP>>
  BY ZenonT(60)
<1>9. /\ Apart(frames') /\ \A p, q : Same(frames', p, q) <=> Same(frames, p, q)
      /\ \A p : Same(frames, r, p) => Content(frames', p) = x
      /\ \A p : Same(frames, p, p) /\ ~ Same(frames, r, p) => Content(frames', p) = Content(frames, p)
  <2>1. frames' = Stored(frames, r, x)
    BY <1>1, <1>8, Zenon DEF SetPage, Stored
  <2>2. QED BY <1>6, <2>1, SetPages
<1>10. \A a \in Envs, v \in VPages : Same(frames, r, <<a, v>>) => a = e /\ v = PFTEMP
  BY <1>2, <1>6, <1>8, Kinds, Zenon DEF AddressInv
<1>11. PICK P : P = {r}
  BY ZenonT(60)
<1>12. Kept(frames, frames', P)
  <2>1. \A p \in Places \ P : ~ Same(frames, r, p)
    BY <1>8, <1>10, <1>11 DEF Places
  <2>2. QED BY <1>9, <2>1, Zenon DEF Kept
<1>13. \A a \in Envs, v \in VPages : <<a, v>> \in P <=> a = e /\ v = PFTEMP
  BY <1>8, <1>11, Zenon
<1>14. HandlerOf(e)'
  <2>1. pte[e][fva[e]] = "cow" /\ pte[e][PFTEMP] # "none"
    BY <1>2, <1>6, Zenon DEF HandlerOf
  <2>2. Same(frames, <<e, fva[e]>>, <<e, fva[e]>>) /\ ~ Same(frames, r, <<e, fva[e]>>)
    BY <1>6, <1>7, <1>10, <2>1, Zenon DEF MappedInv
  <2>3. Content(frames', <<e, fva[e]>>) = Content(frames, <<e, fva[e]>>)
    BY <1>9, <2>2, Zenon
  <2>4. Content(frames, <<e, fva[e]>>) = x
    BY <1>1, <1>6, ContentIs, Zenon DEF Holds
  <2>5. Same(frames, r, r)
    BY <1>6, <1>8, <2>1, Kinds, Zenon DEF MappedInv
  <2>6. Content(frames', <<e, PFTEMP>>) = x
    BY <1>8, <1>9, <2>5, Zenon
  <2>7. QED BY <1>2, <1>3, <2>1, <2>3, <2>4, <2>6, Zenon DEF HandlerOf
<1>15. /\ \A a, b \in Envs, v, w \in VPages :
            <<a, v>> \in P /\ (Same(frames', <<a, v>>, <<b, w>>) \/ Same(frames', <<b, w>>, <<a, v>>))
              => a = b /\ v = w
       /\ \A a \in Envs, v \in VPages : <<a, v>> \in P =>
            (Same(frames', <<a, v>>, <<a, v>>) <=> pte'[a][v] # "none")
  <2>1. \A p, q : Same(frames', p, q) => Same(frames, p, q) /\ Same(frames, q, p)
    BY <1>6, <1>9, SameRules, Zenon
  <2>2. \A a \in Envs, v \in VPages : Same(frames, <<a, v>>, <<a, v>>) <=> pte'[a][v] # "none"
    BY <1>2, <1>6, Zenon DEF MappedInv
  <2>3. QED BY <1>8, <1>9, <1>10, <1>13, <2>1, <2>2
<1>16. /\ \A a \in Envs \ {e}, v \in VPages : <<a, v>> \notin P
       /\ \A a \in Envs, v \in Seen : <<a, v>> \notin P
       /\ \A a \in Envs, v \in VPages : <<a, v>> \notin P => pte'[a][v] = pte[a][v]
       /\ pc[e] # "pf_unmap"
  BY <1>2, <1>13, Kinds, Zenon
<1>17. QED BY <1>3, <1>5, <1>9, <1>12, <1>14, <1>15, <1>16, ApartStep, ZenonT(60)

(* pgfault puts the copy where the page was.                               *)
LEMMA MapMemory ==
  ASSUME IInv, MInv, NEW e \in Envs, pgfault_map(e)
  PROVE  MInv' /\ Unseen
<1>1. /\ pc[e] = "pf_map" /\ sys_page_map(e, PFTEMP, e, fva[e], "w")
      /\ pc' = [pc EXCEPT ![e] = "pf_unmap"] /\ UNCHANGED <<ret, fva, child, vp, perm>>
  BY Zenon DEF pgfault_map, Goto, locals
<1>2. /\ TypeOK /\ PageInv /\ ChildInv /\ frames \subseteq Pages /\ Apart(frames)
      /\ MappedInv /\ KindInv /\ AddressInv /\ SharedInv /\ LiveInv
      /\ \A a \in Envs : HandlerOf(a) /\ CopyOf(a)
      /\ fva[e] \in Private
  BY Zenon DEF IInv, TypeOK, MInv, HandlerInv, CopyInv, Pages
<1>3. pc'[e] = "pf_unmap" /\ \A d \in Envs \ {e} : Idle(d)
  BY <1>1, <1>2, Zenon DEF TypeOK, Idle
<1>4. Locus(e)' = Locus(e)
  BY <1>1, <1>3, Zenon DEF Locus, InHandler
<1>5. PICK v \in VPages : v = fva[e] /\ v # PFTEMP /\ v \in Private /\ v \notin Shared
  BY <1>2, Kinds, Zenon DEF Seen
<1>6. PICK s, r, P : s = <<e, PFTEMP>> /\ r = <<e, v>> /\ P = {r}
  BY ZenonT(60)
<1>7. \A a \in Envs, w \in VPages : <<a, w>> \in P <=> a = e /\ w = v
  BY <1>6, Zenon
<1>r. s # r /\ \A a \in Envs, w \in VPages : <<a, w>> = r <=> a = e /\ w = v
  BY <1>5, <1>6, Zenon
<1>8. \A a \in Envs, w \in VPages : pte'[a][w] = IF a = e /\ w = v THEN "w" ELSE pte[a][w]
  <2>1. Maps(e, PFTEMP, e, v, "w")
    BY <1>1, <1>2, <1>5, Kinds, MapEffect, Zenon DEF Perms
  <2>2. QED BY <2>1, Zenon DEF Maps
<1>9. pte[e][PFTEMP] # "none" /\ pte[e][v] = "cow" /\ Content(frames, s) = Content(frames, r)
  BY <1>1, <1>2, <1>5, <1>6, Zenon DEF HandlerOf
<1>10. /\ Apart(frames') /\ Kept(frames, frames', P)
       /\ \A q : q # r => (Same(frames', r, q) <=> Same(frames, s, q))
       /\ Same(frames', r, r) /\ Content(frames', r) = Content(frames, s)
  <2>1. Same(frames, s, s)
    BY <1>2, <1>6, <1>9, Kinds, Zenon DEF MappedInv
  <2>2. frames' = Mapped(frames, s, r)
    BY <1>1, <1>5, <1>6, Zenon DEF sys_page_map, Mapped
  <2>3. frames \subseteq Pages /\ Apart(frames) /\ s # r
    BY <1>2, <1>r, Zenon
  <2>4. Apart(frames') /\ Kept(frames, frames', {r})
    BY <2>1, <2>2, <2>3, MapPages, ZenonT(60)
  <2>5. /\ \A q : q # r => (Same(frames', r, q) <=> Same(frames, s, q))
        /\ Same(frames', r, r)
    BY <2>1, <2>2, <2>3, MapPages, ZenonT(60)
  <2>6. Content(frames', r) = Content(frames, s)
    BY <2>1, <2>2, <2>3, MapPages, ZenonT(60)
  <2>7. QED BY <1>6, <2>4, <2>5, <2>6, Zenon
<1>11. \A a \in Envs, w \in VPages : Same(frames, s, <<a, w>>) => a = e /\ w = PFTEMP
  BY <1>1, <1>2, <1>6, Kinds, Zenon DEF AddressInv
<1>12. \A p, q \in Places \ P : Same(frames', p, q) <=> Same(frames, p, q)
  BY <1>10, Zenon DEF Kept
<1>13. \A a, b \in Envs, u, w \in VPages : Same(frames', <<a, u>>, <<b, w>>) =>
         \/ Same(frames, <<a, u>>, <<b, w>>)
         \/ a = e /\ b = e /\ u \in {v, PFTEMP} /\ w \in {v, PFTEMP}
  <2> TAKE a, b \in Envs, u, w \in VPages
  <2> HAVE Same(frames', <<a, u>>, <<b, w>>)
  <2>0. <<a, u>> \in Places /\ <<b, w>> \in Places
    BY Zenon DEF Places
  <2>1. CASE <<a, u>> \notin P /\ <<b, w>> \notin P
    BY <1>12, <2>0, <2>1, Zenon
  <2>2. CASE <<a, u>> \in P
    <3>1. a = e /\ u = v /\ Same(frames', r, <<b, w>>)
      BY <1>6, <1>7, <2>2, Zenon
    <3>2. CASE <<b, w>> = r
      BY <1>r, <3>1, <3>2, Zenon
    <3>3. CASE <<b, w>> # r
      <4>1. Same(frames, s, <<b, w>>)
        BY <1>10, <3>1, <3>3, Zenon
      <4>2. QED BY <1>11, <3>1, <4>1, Zenon
    <3>4. QED BY <3>2, <3>3, Zenon
  <2>3. CASE <<b, w>> \in P
    <3>1. b = e /\ w = v /\ Same(frames', r, <<a, u>>)
      BY <1>6, <1>7, <1>10, <2>3, SameRules, Zenon
    <3>2. CASE <<a, u>> = r
      BY <1>r, <3>1, <3>2, Zenon
    <3>3. CASE <<a, u>> # r
      <4>1. Same(frames, s, <<a, u>>)
        BY <1>10, <3>1, <3>3, Zenon
      <4>2. QED BY <1>11, <3>1, <4>1, Zenon
    <3>4. QED BY <3>2, <3>3, Zenon
  <2>4. QED BY <2>1, <2>2, <2>3, Zenon
<1>14. AddressInv'
  <2> SUFFICES ASSUME NEW a \in Envs, NEW b \in Envs, NEW u \in VPages, NEW w \in VPages,
                      Same(frames', <<a, u>>, <<b, w>>)
               PROVE  /\ u # PFTEMP /\ w # PFTEMP => u = w
                      /\ u = PFTEMP => b = a /\ (w = PFTEMP \/ (w = fva'[a] /\ pc'[a] = "pf_unmap"))
    BY Zenon DEF AddressInv
  <2>1. CASE Same(frames, <<a, u>>, <<b, w>>)
    <3>1. /\ u # PFTEMP /\ w # PFTEMP => u = w
          /\ u = PFTEMP => b = a /\ (w = PFTEMP \/ (w = fva[a] /\ pc[a] = "pf_unmap"))
      BY <1>2, <2>1 DEF AddressInv
    <3>2. pc[a] = "pf_unmap" => pc'[a] = "pf_unmap"
      BY <1>1, <1>3, Zenon DEF Idle
    <3>3. QED BY <1>1, <3>1, <3>2, Zenon
  <2>2. CASE a = e /\ b = e /\ u \in {v, PFTEMP} /\ w \in {v, PFTEMP}
    BY <1>1, <1>3, <1>5, <2>2, Zenon
  <2>3. QED BY <1>13, <2>1, <2>2, Zenon
<1>15. MappedInv'
  <2> SUFFICES ASSUME NEW a \in Envs, NEW w \in VPages
               PROVE  Same(frames', <<a, w>>, <<a, w>>) <=> pte'[a][w] # "none"
    BY Zenon DEF MappedInv
  <2>0. <<a, w>> \in Places
    BY Zenon DEF Places
  <2>1. CASE a = e /\ w = v
    BY <1>6, <1>8, <1>10, <2>1, Zenon
  <2>2. CASE ~ (a = e /\ w = v)
    <3>1. <<a, w>> \in Places \ P /\ pte'[a][w] = pte[a][w]
      BY <1>7, <1>8, <2>0, <2>2, Zenon
    <3>2. QED BY <1>2, <1>12, <3>1, Zenon DEF MappedInv
  <2>3. QED BY <2>1, <2>2, Zenon
<1>16. SharedInv'
  <2>1. \A a \in Envs, w \in Shared : <<a, w>> \in Places \ P /\ pte'[a][w] = pte[a][w]
    BY <1>5, <1>7, <1>8, Kinds, Zenon DEF Places
  <2>2. QED BY <1>2, <1>12, <2>1, Zenon DEF SharedInv
<1>17. \A a \in Envs \ {e} : HandlerOf(a)' /\ CopyOf(a)' /\ Locus(a)' = Locus(a)
  <2>1. \A a \in Envs : a = e \/ \A w \in VPages : pte'[a][w] = pte[a][w] /\ <<a, w>> \notin P
    BY <1>7, <1>8, Zenon
  <2>2. QED BY <1>1, <1>3, <1>10, <2>1, OthersStep, Zenon
<1>18. HandlerOf(e)'
  BY <1>3, <1>5, <1>8, <1>9, Kinds, Zenon DEF HandlerOf
<1>19. CopyOf(e)'
  <2>1. Locus(e) \in HasChild => v = Stack /\ child[e] \in Envs /\ child[e] # e
    BY <1>1, <1>2, <1>5, Zenon DEF PageInv, ChildInv, Locus, InHandler, HasChild
  <2>2. \A i \in 1 .. Len(Order) : Passed(e, i)' => Passed(e, i)
    BY <1>1, <1>4, Zenon DEF Passed
  <2>3. Locus(e) \in HasChild =>
          /\ \A w \in Seen : pte'[child[e]][w] = "none" => pte[child[e]][w] = "none"
          /\ \A w \in Seen : w # Stack => <<e, w>> \notin P /\ <<child[e], w>> \notin P
    BY <1>7, <1>8, <2>1, Kinds, Zenon
  <2>4. \A p, q \in Places \ P : Same(frames, p, q) => Same(frames', p, q)
    BY <1>12, Zenon
  <2>5. QED BY <1>1, <1>2, <1>4, <2>2, <2>3, <2>4, CopyKept, Zenon
<1>20. KindInv'
  <2>1. \A a \in Envs, w \in Private \cup Shared :
          pte'[a][w] = pte[a][w] \/ (w \in Private /\ pte'[a][w] = "w")
    BY <1>5, <1>8, Kinds, Zenon
  <2>2. \A a \in Envs : Locus(a)' = "map" =>
          Locus(a) = "map" /\ vp'[a] = vp[a] /\ perm'[a] = perm[a]
    BY <1>1, <1>4, <1>17, Zenon
  <2>3. QED BY <1>2, <2>1, <2>2, KindKept, Zenon
<1>21. LiveInv' /\ \A a \in Envs : a \in Live' => a \in Live
  <2>1. \A a \in Envs : a \in Live' => a \in Live
    BY <1>1, <1>3, Zenon DEF Live, Idle
  <2>2. \A a \in Envs, w \in Seen : pte'[a][w] = "none" => pte[a][w] = "none"
    BY <1>8, Kinds, Zenon
  <2>3. QED BY <1>2, <2>1, <2>2, LiveKept, Zenon
<1>22. Unseen
  <2> SUFFICES ASSUME NEW a \in Live, NEW w \in Seen
               PROVE  Content(frames', <<a, w>>) = Content(frames, <<a, w>>)
    BY Zenon DEF Unseen
  <2>1. CASE a = e /\ w = v
    BY <1>6, <1>9, <1>10, <2>1, Zenon
  <2>2. CASE ~ (a = e /\ w = v)
    <3>1. a \in Envs /\ w \in VPages /\ pte[a][w] # "none"
      BY <1>2, Kinds, Zenon DEF Live, LiveInv
    <3>2. <<a, w>> \in Places \ P /\ Same(frames, <<a, w>>, <<a, w>>)
      BY <1>2, <1>7, <2>2, <3>1, Zenon DEF Places, MappedInv
    <3>3. QED BY <1>10, <3>2, Zenon DEF Kept
  <2>3. QED BY <2>1, <2>2, Zenon
<1>23. QED BY <1>10, <1>14, <1>15, <1>16, <1>17, <1>18, <1>19, <1>20, <1>21, <1>22, Zenon
             DEF MInv, HandlerInv, CopyInv

(* An environment ends.                                                    *)
LEMMA ClearMemory ==
  ASSUME IInv, MInv, NEW e \in Envs, pc[e] \notin {"free", "embryo"}, Clear(e)
  PROVE  MInv' /\ Unseen /\ e \in Live /\ Live' = Live \ {e}
<1>1. /\ TypeOK /\ frames \subseteq Pages /\ Apart(frames)
      /\ MappedInv /\ KindInv /\ AddressInv /\ SharedInv /\ LiveInv
  BY Zenon DEF IInv, TypeOK, MInv, Pages
<1>2. /\ pc' = [pc EXCEPT ![e] = "free"] /\ ret' = [ret EXCEPT ![e] = "user"]
      /\ fva' = [fva EXCEPT ![e] = Stack] /\ child' = [child EXCEPT ![e] = NoEnv]
      /\ vp' = [vp EXCEPT ![e] = 1] /\ perm' = [perm EXCEPT ![e] = "none"]
      /\ pte' = [pte EXCEPT ![e] = [v \in VPages |-> "none"]]
  BY Zenon DEF Clear
<1>3. pc'[e] = "free" /\ \A a \in Envs \ {e} : Idle(a)
  BY <1>1, <1>2, Zenon DEF TypeOK, Idle
<1>4. Locus(e)' = "free"
  BY <1>3, Zenon DEF Locus, InHandler
<1>5. HandlerOf(e)' /\ CopyOf(e)'
  BY <1>3, <1>4, Zenon DEF HandlerOf, CopyOf, HasChild
<1>6. PICK P : P = {e} \X VPages
  BY ZenonT(60)
<1>7. \A a \in Envs, w \in VPages : <<a, w>> \in P <=> a = e
  BY <1>6, Zenon
<1>8. \A a \in Envs, w \in VPages : pte'[a][w] = IF a = e THEN "none" ELSE pte[a][w]
  BY <1>1, <1>2, Zenon DEF TypeOK
<1>9. Apart(frames') /\ Kept(frames, frames', P) /\ \A p \in P : \A q : ~ Same(frames', p, q)
  <2>1. frames' = Dropped(frames, P)
    BY <1>6, Zenon DEF Clear, Dropped
  <2>2. QED BY <1>1, <2>1, DropPages, Zenon
<1>10. MappedInv' /\ AddressInv' /\ SharedInv'
  <2>1. \A p, q : Same(frames', p, q) => p \notin P /\ q \notin P
    BY <1>9, SameRules, Zenon
  <2>2. \A p, q \in Places \ P : Same(frames', p, q) <=> Same(frames, p, q)
    BY <1>9, Zenon DEF Kept
  <2>3. /\ \A d, a \in Envs, v, w \in VPages :
             <<d, v>> \in P /\ (Same(frames', <<d, v>>, <<a, w>>) \/ Same(frames', <<a, w>>, <<d, v>>))
               => d = a /\ v = w
        /\ \A d \in Envs, v \in VPages : <<d, v>> \in P =>
             (Same(frames', <<d, v>>, <<d, v>>) <=> pte'[d][v] # "none")
    BY <1>7, <1>8, <2>1, Zenon
  <2>4. /\ \A d \in Envs, v \in VPages : <<d, v>> \notin P =>
             (pte'[d][v] # "none" <=> pte[d][v] # "none")
        /\ \A d \in Envs, v \in Shared : <<d, v>> \in P => pte'[d][v] = "none"
    BY <1>7, <1>8, Kinds, Zenon
  <2>5. \A d \in Envs : pc[d] = "pf_unmap" =>
          (pc'[d] = "pf_unmap" /\ fva'[d] = fva[d]) \/ <<d, PFTEMP>> \in P
    BY <1>3, <1>7, Kinds, Zenon DEF Idle
  <2>6. QED BY <1>1, <2>2, <2>3, <2>4, <2>5, MemoryKept, ZenonT(60)
<1>11. \A a \in Envs \ {e} : HandlerOf(a)' /\ CopyOf(a)' /\ Locus(a)' = Locus(a)
  <2>1. \A a \in Envs : a = e \/ \A w \in VPages : pte'[a][w] = pte[a][w] /\ <<a, w>> \notin P
    BY <1>7, <1>8, Zenon
  <2>2. QED BY <1>3, <1>9, <2>1, OthersStep, Zenon
<1>12. KindInv'
  <2>1. \A a \in Envs, w \in Private \cup Shared : pte'[a][w] \in {pte[a][w], "none"}
    BY <1>8, Kinds, Zenon
  <2>2. \A a \in Envs : Locus(a)' = "map" =>
          Locus(a) = "map" /\ vp'[a] = vp[a] /\ perm'[a] = perm[a]
    BY <1>3, <1>4, <1>11, Zenon DEF Idle
  <2>3. QED BY <1>1, <2>1, <2>2, KindKept, Zenon
<1>13. e \in Live /\ Live' = Live \ {e}
  BY <1>3, Zenon DEF Live, Idle
<1>14. LiveInv'
  BY <1>1, <1>8, <1>13, Kinds, LiveKept, Zenon
<1>15. Unseen
  BY <1>1, <1>7, <1>9, <1>13, Kinds, UnseenStep, Zenon
<1>16. QED BY <1>5, <1>9, <1>10, <1>11, <1>12, <1>13, <1>14, <1>15, Zenon
             DEF MInv, HandlerInv, CopyInv

(* duppage gives the child the page.                                       *)
LEMMA ChildMapMemory ==
  ASSUME IInv, MInv, NEW e \in Envs, pc[e] = "map",
         sys_page_map(e, Order[vp[e]], child[e], Order[vp[e]], perm[e]),
         IF perm[e] = "cow" THEN Goto(e, "remap") /\ vp' = vp ELSE NextPage(e),
         perm' = [perm EXCEPT ![e] = "none"], UNCHANGED <<ret, fva, child>>
  PROVE  MInv' /\ Unseen
<1>1. /\ TypeOK /\ PageInv /\ ChildInv /\ frames \subseteq Pages /\ Apart(frames)
      /\ MappedInv /\ KindInv /\ AddressInv /\ SharedInv /\ LiveInv /\ CopyOf(e)
  BY Zenon DEF IInv, TypeOK, MInv, CopyInv, Pages
<1>2. Locus(e) = "map"
  BY Zenon DEF Locus, InHandler
<1>3. PICK c \in Envs : c = child[e] /\ pc[c] = "embryo" /\ c # e
  BY <1>1, <1>2, Zenon DEF ChildInv, HasChild
<1>4. PICK v \in VPages : v = Order[vp[e]] /\ v \in Seen /\ v # PFTEMP
  <2>1. Order[vp[e]] \in VPages
    BY <1>1, Zenon DEF TypeOK, VPages
  <2>2. Order[vp[e]] \notin {XStack, PFTEMP}
    BY <1>1, <1>2, Zenon DEF PageInv
  <2>3. QED BY <2>1, <2>2, LayoutAssumption, Zenon DEF Seen
<1>5. /\ pte[e][v] # "none" /\ perm[e] \in {"share", "r", "cow"}
      /\ v \in Private => perm[e] = "cow"
      /\ v \in Shared => perm[e] = "share"
  BY <1>1, <1>2, <1>4, Zenon DEF sys_page_map, IsMapped, PageInv, KindInv
<1>6. PICK s, r, P : s = <<e, v>> /\ r = <<c, v>> /\ P = {r}
  BY ZenonT(60)
<1>7. s # r /\ \A a \in Envs, w \in VPages : <<a, w>> = r <=> a = c /\ w = v
  BY <1>3, <1>6, Zenon
<1>8. \A a \in Envs, w \in VPages : <<a, w>> \in P <=> a = c /\ w = v
  BY <1>6, Zenon
<1>9. \A a \in Envs, w \in VPages : pte'[a][w] = IF a = c /\ w = v THEN perm[e] ELSE pte[a][w]
  <2>1. Maps(e, v, c, v, perm[e])
    BY <1>1, <1>3, <1>4, <1>5, MapEffect, Zenon DEF Perms
  <2>2. QED BY <2>1, Zenon DEF Maps
<1>10. /\ Apart(frames') /\ Kept(frames, frames', P)
       /\ \A q : q # r => (Same(frames', r, q) <=> Same(frames, s, q))
       /\ Same(frames', r, r) /\ Same(frames, s, s)
  <2>1. Same(frames, s, s)
    BY <1>1, <1>5, <1>6, Zenon DEF MappedInv
  <2>2. frames' = Mapped(frames, s, r)
    BY <1>3, <1>4, <1>6, Zenon DEF sys_page_map, Mapped
  <2>3. /\ Apart(frames') /\ Kept(frames, frames', {r}) /\ Same(frames', r, r)
        /\ \A q : q # r => (Same(frames', r, q) <=> Same(frames, s, q))
    BY <1>1, <1>7, <2>1, <2>2, MapPages, ZenonT(60)
  <2>4. QED BY <1>6, <2>1, <2>3, Zenon
<1> DEFINE From(a, w) == IF a = c /\ w = v THEN e ELSE a
<1>11. \A a \in Envs, w \in VPages : From(a, w) \in Envs
  BY Zenon
<1>12. \A a \in Envs, w \in VPages : <<a, w>> = r => <<From(a, w), w>> = s
  BY <1>6, <1>7, Zenon
<1>13. \A a \in Envs, w \in VPages : <<a, w>> # r => From(a, w) = a /\ <<a, w>> \in Places \ P
  BY <1>6, <1>7, Zenon DEF Places
<1>14. \A a \in Envs, w \in VPages : pte'[a][w] # "none" <=> pte[From(a, w)][w] # "none"
  BY <1>5, <1>9, Zenon
<1>15. From(e, v) = e /\ From(c, v) = e /\ \A a \in Envs, w \in VPages : w # v => From(a, w) = a
  BY <1>3, Zenon
<1> HIDE DEF From
<1>16. \A a, b \in Envs, u, w \in VPages :
         Same(frames', <<a, u>>, <<b, w>>) <=> Same(frames, <<From(a, u), u>>, <<From(b, w), w>>)
  <2> TAKE a, b \in Envs, u, w \in VPages
  <2>0. /\ Same(frames', <<a, u>>, <<b, w>>) <=> Same(frames', <<b, w>>, <<a, u>>)
        /\ Same(frames, <<a, u>>, s) <=> Same(frames, s, <<a, u>>)
    BY <1>1, <1>10, SameRules, Zenon
  <2>1. CASE <<a, u>> = r /\ <<b, w>> = r
    BY <1>10, <1>12, <2>1, Zenon
  <2>2. CASE <<a, u>> = r /\ <<b, w>> # r
    BY <1>10, <1>12, <1>13, <2>2, Zenon
  <2>3. CASE <<a, u>> # r /\ <<b, w>> = r
    BY <1>10, <1>12, <1>13, <2>0, <2>3, Zenon
  <2>4. CASE <<a, u>> # r /\ <<b, w>> # r
    BY <1>10, <1>13, <2>4, Zenon DEF Kept
  <2>5. QED BY <2>1, <2>2, <2>3, <2>4, Zenon
<1>17. /\ pc'[e] \in {"remap", "dup", "upcall"} /\ Locus(e)' = pc'[e]
       /\ \A a \in Envs \ {e} : Idle(a)
       /\ \A i \in 1 .. Len(Order) : Passed(e, i)' => Passed(e, i) \/ i = vp[e]
  <2>1. \A a \in Envs \ {e} : perm'[a] = perm[a]
    BY <1>1, Zenon DEF TypeOK
  <2>2. CASE perm[e] = "cow"
    <3>1. pc'[e] = "remap" /\ vp' = vp /\ \A a \in Envs \ {e} : pc'[a] = pc[a]
      BY <1>1, <2>2, Zenon DEF TypeOK, Goto
    <3>2. Locus(e)' = "remap"
      BY <3>1, Zenon DEF Locus, InHandler
    <3>3. QED BY <2>1, <3>1, <3>2, Zenon DEF Idle, Passed
  <2>3. CASE perm[e] # "cow"
    <3>1. NextPage(e) /\ ret' = ret
      BY <2>3, Zenon
    <3>2. /\ pc'[e] \in {"dup", "upcall"} /\ Locus(e)' = pc'[e]
          /\ \A d \in Envs \ {e} : pc'[d] = pc[d] /\ vp'[d] = vp[d]
          /\ \A i \in 1 .. Len(Order) : Passed(e, i)' => Passed(e, i) \/ i = vp[e]
      BY <1>1, <3>1, NextPassed, Zenon
    <3>3. QED BY <2>1, <3>2, Zenon DEF Idle
  <2>4. QED BY <2>2, <2>3, Zenon
<1>18. MappedInv'
  BY <1>1, <1>11, <1>14, <1>16, Zenon DEF MappedInv
<1>19. AddressInv'
  <2> SUFFICES ASSUME NEW a \in Envs, NEW b \in Envs, NEW u \in VPages, NEW w \in VPages,
                      Same(frames', <<a, u>>, <<b, w>>)
               PROVE  /\ u # PFTEMP /\ w # PFTEMP => u = w
                      /\ u = PFTEMP => b = a /\ (w = PFTEMP \/ (w = fva'[a] /\ pc'[a] = "pf_unmap"))
    BY Zenon DEF AddressInv
  <2>1. PICK d \in Envs, g \in Envs : d = From(a, u) /\ g = From(b, w)
    BY <1>11, Zenon
  <2>2. Same(frames, <<d, u>>, <<g, w>>)
    BY <1>16, <2>1, Zenon
  <2>3. /\ u # PFTEMP /\ w # PFTEMP => u = w
        /\ u = PFTEMP => g = d /\ (w = PFTEMP \/ (w = fva[d] /\ pc[d] = "pf_unmap"))
    BY <1>1, <2>2 DEF AddressInv
  <2>4. ASSUME u = PFTEMP PROVE b = a /\ (w = PFTEMP \/ (w = fva'[a] /\ pc'[a] = "pf_unmap"))
    <3>1. d = a /\ g = a /\ (w = PFTEMP \/ (w = fva[a] /\ pc[a] = "pf_unmap"))
      BY <1>4, <1>15, <2>1, <2>3, <2>4, Zenon
    <3>2. CASE w = PFTEMP
      BY <1>4, <1>15, <2>1, <3>1, <3>2, Zenon
    <3>3. CASE w # PFTEMP
      <4>1. pc[a] = "pf_unmap" /\ a # e
        BY <3>1, <3>3, Zenon
      <4>2. g = b
        BY <1>7, <1>13, <1>12, <1>6, <2>1, <3>1, <4>1, Zenon
      <4>3. QED BY <1>17, <3>1, <3>3, <4>1, <4>2, Zenon DEF Idle
    <3>4. QED BY <3>2, <3>3, Zenon
  <2>5. QED BY <2>3, <2>4, Zenon
<1>20. SharedInv'
  <2> SUFFICES ASSUME NEW a \in Envs, NEW b \in Envs, NEW w \in Shared,
                      pte'[a][w] # "none", pte'[b][w] # "none"
               PROVE  Same(frames', <<a, w>>, <<b, w>>)
    BY Zenon DEF SharedInv
  <2>1. w \in VPages
    BY Kinds, Zenon
  <2>2. pte[From(a, w)][w] # "none" /\ pte[From(b, w)][w] # "none"
    BY <1>14, <2>1, Zenon
  <2>3. Same(frames, <<From(a, w), w>>, <<From(b, w), w>>)
    BY <1>1, <1>11, <2>1, <2>2, Zenon DEF SharedInv
  <2>4. QED BY <1>16, <2>1, <2>3, Zenon
<1>21. \A a \in Envs \ {e} : HandlerOf(a)' /\ CopyOf(a)' /\ Locus(a)' = Locus(a)
  <2>1. \A a \in Envs : a = child[e] \/ \A w \in VPages : pte'[a][w] = pte[a][w] /\ <<a, w>> \notin P
    BY <1>3, <1>8, <1>9, Zenon
  <2>2. QED BY <1>10, <1>17, <2>1, OthersStep, Zenon
<1>22. HandlerOf(e)'
  BY <1>17, Zenon DEF HandlerOf
<1>23. CopyOf(e)'
  <2> SUFFICES ASSUME NEW i \in 1 .. Len(Order), Passed(e, i)', NEW w \in Seen, w = Order[i]
               PROVE  pte'[c][w] # "none" /\ (w # Stack => Same(frames', <<e, w>>, <<c, w>>))
    BY <1>3, ZenonT(60) DEF CopyOf, Handed
  <2>0. w \in VPages
    BY Kinds, Zenon
  <2>1. CASE w = v
    <3>1. Same(frames', <<e, v>>, <<c, v>>)
      BY <1>6, <1>10, <1>15, <1>16, Zenon
    <3>2. QED BY <1>5, <1>9, <2>1, <3>1, Zenon
  <2>2. CASE w # v
    <3>1. Passed(e, i)
      BY <1>4, <1>17, <2>2, Zenon
    <3>2. pte[c][w] # "none" /\ (w # Stack => Same(frames, <<e, w>>, <<c, w>>))
      BY <1>1, <1>2, <1>3, <3>1, Zenon DEF CopyOf, HasChild, Handed
    <3>3. QED BY <1>9, <1>15, <1>16, <2>0, <2>2, <3>2, Zenon
  <2>3. QED BY <2>1, <2>2, Zenon
<1>24. KindInv'
  <2>1. \A a \in Envs : /\ \A w \in Private : pte'[a][w] \in {"none", "w", "cow"}
                        /\ \A w \in Shared : pte'[a][w] \in {"none", "share"}
    BY <1>1, <1>5, <1>9, Kinds DEF KindInv
  <2>2. \A a \in Envs : Locus(a)' = "map" => /\ Order[vp'[a]] \in Private => perm'[a] = "cow"
                                             /\ Order[vp'[a]] \in Shared => perm'[a] = "share"
    BY <1>1, <1>17, <1>21 DEF KindInv, Idle
  <2>3. QED BY <2>1, <2>2, Zenon DEF KindInv
<1>25. LiveInv' /\ \A a \in Envs : a \in Live' => a \in Live
  <2>1. \A a \in Envs : a \in Live' => a \in Live
    BY <1>17, Zenon DEF Live, Idle
  <2>2. \A a \in Envs, w \in Seen : pte'[a][w] = "none" => pte[a][w] = "none"
    BY <1>5, <1>9, Kinds, Zenon
  <2>3. QED BY <1>1, <2>1, <2>2, LiveKept, Zenon
<1>26. Unseen
  <2>1. \A a \in Envs, w \in Seen : a \in Live => <<a, w>> \notin P
    BY <1>3, <1>8, Kinds, Zenon DEF Live
  <2>2. QED BY <1>1, <1>10, <2>1, UnseenStep, Zenon
<1>27. QED BY <1>10, <1>18, <1>19, <1>20, <1>21, <1>22, <1>23, <1>24, <1>25, <1>26, Zenon
             DEF MInv, HandlerInv, CopyInv

(* Then the parent's own entry.                                            *)
LEMMA RemapMemory ==
  ASSUME IInv, MInv, NEW e \in Envs, duppage_remap(e)
  PROVE  MInv' /\ Unseen
<1>1. /\ TypeOK /\ PageInv /\ ChildInv /\ frames \subseteq Pages /\ Apart(frames)
      /\ MappedInv /\ KindInv /\ AddressInv /\ SharedInv /\ LiveInv /\ CopyOf(e)
  BY Zenon DEF IInv, TypeOK, MInv, CopyInv, Pages
<1>2. /\ pc[e] = "remap" /\ sys_page_map(e, Order[vp[e]], e, Order[vp[e]], "cow")
      /\ NextPage(e) /\ UNCHANGED <<ret, fva, child, perm>>
  BY Zenon DEF duppage_remap
<1>3. Locus(e) = "remap"
  BY <1>2, Zenon DEF Locus, InHandler
<1>4. PICK v \in VPages : v = Order[vp[e]] /\ pte[e][v] \in {"w", "cow"} /\ v \notin Shared
  <2>1. Order[vp[e]] \in VPages /\ pte[e][Order[vp[e]]] \in {"w", "cow"}
    BY <1>1, <1>3, Zenon DEF TypeOK, PageInv, VPages
  <2>2. QED BY <1>1, <2>1, Zenon DEF KindInv
<1>5. /\ pc'[e] \in {"dup", "upcall"} /\ Locus(e)' = pc'[e]
      /\ \A d \in Envs \ {e} : pc'[d] = pc[d] /\ vp'[d] = vp[d]
      /\ \A i \in 1 .. Len(Order) : Passed(e, i)' => Passed(e, i) \/ i = vp[e]
  BY <1>1, <1>2, NextPassed, Zenon
<1>6. \A a \in Envs \ {e} : Idle(a)
  BY <1>2, <1>5, Zenon DEF Idle
<1>7. \A a \in Envs, w \in VPages : pte'[a][w] = IF a = e /\ w = v THEN "cow" ELSE pte[a][w]
  <2>1. Maps(e, v, e, v, "cow")
    BY <1>1, <1>2, <1>4, MapEffect, Zenon DEF Perms
  <2>2. QED BY <2>1, Zenon DEF Maps
<1>8. PICK P : P = {}
  BY ZenonT(60)
<1>9. Apart(frames') /\ Kept(frames, frames', P)
  <2>1. PICK s : s = <<e, v>>
    BY ZenonT(60)
  <2>2. Same(frames, s, s)
    BY <1>1, <1>4, <2>1, Zenon DEF MappedInv
  <2>3. frames' = Mapped(frames, s, s)
    BY <1>2, <1>4, <2>1, Zenon DEF sys_page_map, Mapped
  <2>4. Apart(frames') /\ Kept(frames, frames', {})
    BY <1>1, <2>2, <2>3, MapPages, Zenon
  <2>5. QED BY <1>8, <2>4, Zenon
<1>10. \A p, q \in Places \ P : Same(frames', p, q) <=> Same(frames, p, q)
  BY <1>9, Zenon DEF Kept
<1>11. \A a \in Envs, w \in VPages : pte'[a][w] # "none" <=> pte[a][w] # "none"
  BY <1>4, <1>7, Zenon
<1>12. MappedInv' /\ AddressInv' /\ SharedInv'
  <2>1. \A a \in Envs : pc[a] = "pf_unmap" => pc'[a] = "pf_unmap" /\ fva'[a] = fva[a]
    BY <1>2, <1>6, Zenon DEF Idle
  <2>2. /\ \A d, b \in Envs, u, w \in VPages :
             <<d, u>> \in P /\ (Same(frames', <<d, u>>, <<b, w>>) \/ Same(frames', <<b, w>>, <<d, u>>))
               => d = b /\ u = w
        /\ \A d \in Envs, w \in VPages : <<d, w>> \in P =>
             (Same(frames', <<d, w>>, <<d, w>>) <=> pte'[d][w] # "none")
        /\ \A d \in Envs, w \in Shared : <<d, w>> \in P => pte'[d][w] = "none"
    BY <1>8, Zenon
  <2>3. /\ \A d \in Envs, w \in VPages : <<d, w>> \notin P =>
             (pte'[d][w] # "none" <=> pte[d][w] # "none")
        /\ \A d \in Envs : pc[d] = "pf_unmap" =>
             (pc'[d] = "pf_unmap" /\ fva'[d] = fva[d]) \/ <<d, PFTEMP>> \in P
    BY <1>11, <2>1, Zenon
  <2>4. QED BY <1>1, <1>10, <2>2, <2>3, MemoryKept, Zenon
<1>13. \A a \in Envs \ {e} : HandlerOf(a)' /\ CopyOf(a)' /\ Locus(a)' = Locus(a)
  <2>1. \A a \in Envs : a = e \/ \A w \in VPages : pte'[a][w] = pte[a][w] /\ <<a, w>> \notin P
    BY <1>7, <1>8, Zenon
  <2>2. QED BY <1>2, <1>6, <1>9, <2>1, OthersStep, Zenon
<1>14. HandlerOf(e)'
  BY <1>5, Zenon DEF HandlerOf
<1>15. CopyOf(e)'
  <2>1. Locus(e) \in HasChild /\ child[e] \in Envs
    BY <1>1, <1>3, Zenon DEF ChildInv, HasChild
  <2>2. \A i \in 1 .. Len(Order) : Passed(e, i)' => Passed(e, i)
    BY <1>3, <1>5, Zenon DEF Passed
  <2>3. /\ \A w \in Seen : pte'[child[e]][w] = "none" => pte[child[e]][w] = "none"
        /\ \A w \in Seen : w # Stack => <<e, w>> \notin P /\ <<child[e], w>> \notin P
    BY <1>8, <1>11, <2>1, Kinds, Zenon
  <2>4. \A p, q \in Places \ P : Same(frames, p, q) => Same(frames', p, q)
    BY <1>10, Zenon
  <2>5. QED BY <1>1, <1>2, <2>1, <2>2, <2>3, <2>4, CopyKept, Zenon
<1>16. KindInv'
  <2>1. \A a \in Envs, w \in Private \cup Shared :
          pte'[a][w] = pte[a][w] \/ (w \in Private /\ pte'[a][w] = "cow")
    BY <1>4, <1>7, Kinds, Zenon
  <2>2. \A a \in Envs : Locus(a)' = "map" =>
          Locus(a) = "map" /\ vp'[a] = vp[a] /\ perm'[a] = perm[a]
    BY <1>5, <1>6, <1>13, Zenon DEF Idle
  <2>3. QED BY <1>1, <2>1, <2>2, KindKept, Zenon
<1>17. LiveInv' /\ \A a \in Envs : a \in Live' => a \in Live
  <2>1. \A a \in Envs : a \in Live' => a \in Live
    BY <1>2, <1>6, Zenon DEF Live, Idle
  <2>2. QED BY <1>1, <1>11, <2>1, Kinds, LiveKept, Zenon
<1>18. Unseen
  BY <1>1, <1>8, <1>9, UnseenStep
<1>19. QED BY <1>9, <1>12, <1>13, <1>14, <1>15, <1>16, <1>17, <1>18, Zenon
             DEF MInv, HandlerInv, CopyInv

(* A store of the program: seen by itself, and by all if the page is       *)
(* shared.                                                                 *)
LEMMA StoreMemory ==
  ASSUME IInv, MInv, NEW e \in Envs, NEW v \in Private \cup Shared, NEW x \in Values,
         Store(e, v, x)
  PROVE  /\ MInv' /\ e \in Live /\ Live' = Live
         /\ \A a \in Live, w \in Seen : Content(frames', <<a, w>>) =
              IF w = v /\ (a = e \/ v \in Shared) THEN x ELSE Content(frames, <<a, w>>)
<1>1. /\ TypeOK /\ ChildInv /\ CowInv /\ WriterInv /\ frames \subseteq Pages /\ Apart(frames)
      /\ MappedInv /\ KindInv /\ AddressInv /\ SharedInv /\ LiveInv
      /\ \A a \in Envs : HandlerOf(a) /\ CopyOf(a)
  BY Zenon DEF IInv, TypeOK, MInv, HandlerInv, CopyInv, Pages
<1>2. /\ pc[e] \in {"user"} \cup InFork /\ pte[e][v] \in {"w", "share"}
      /\ UNCHANGED <<pte, pc, ret, fva, child, vp, perm>>
  BY Zenon DEF Store, MayStore, IsWritable, SetPage, locals
<1>3. v \in VPages /\ v # PFTEMP /\ v \in Seen /\ (v \in Private => v \notin Shared /\ pte[e][v] = "w")
  BY <1>1, <1>2, Kinds DEF KindInv, Seen
<1>4. PICK r : r = <<e, v>>
  BY ZenonT(60)
<1>5. /\ Apart(frames') /\ \A p, q : Same(frames', p, q) <=> Same(frames, p, q)
      /\ \A p : Same(frames, r, p) => Content(frames', p) = x
      /\ \A p : Same(frames, p, p) /\ ~ Same(frames, r, p) => Content(frames', p) = Content(frames, p)
  <2>1. frames' = Stored(frames, r, x)
    BY <1>4, Zenon DEF Store, SetPage, Stored
  <2>2. QED BY <1>1, <2>1, SetPages
<1>6. \A a \in Envs, w \in VPages : Same(frames, r, <<a, w>>) /\ w # PFTEMP => w = v
  BY <1>1, <1>3, <1>4 DEF AddressInv
<1>7. \A a \in Envs : Same(frames, r, <<a, v>>) /\ pte[a][v] = "cow" => a = child[e] \/ v \in Shared
  <2> SUFFICES ASSUME NEW a \in Envs, Same(frames, r, <<a, v>>), pte[a][v] = "cow", v \notin Shared
               PROVE  a = child[e]
    BY Zenon
  <2>1. PICK f \in frames : r \in f.at /\ <<a, v>> \in f.at
    BY Zenon DEF Same
  <2>2. Cow(<<a, v>>) /\ Writes(r)
    BY <1>3, <1>4, Zenon DEF Cow, Writes
  <2>3. QED BY <1>1, <1>4, <2>1, <2>2, ZenonT(60) DEF CowInv
<1>8. \A a \in Envs : Same(frames, r, <<a, v>>) /\ pte[a][v] = "w" => a = e \/ v \in Shared
  <2> SUFFICES ASSUME NEW a \in Envs, Same(frames, r, <<a, v>>), pte[a][v] = "w", v \notin Shared
               PROVE  a = e
    BY Zenon
  <2>1. PICK f \in frames : r \in f.at /\ <<a, v>> \in f.at
    BY Zenon DEF Same
  <2>2. Writes(<<a, v>>) /\ Writes(r)
    BY <1>3, <1>4, Zenon DEF Writes
  <2>3. QED BY <1>1, <1>4, <2>1, <2>2, Zenon DEF WriterInv
<1>9. \A a \in Envs : child[e] = a => pc[a] = "embryo"
  BY <1>1, Zenon DEF ChildInv
<1>10. Live' = Live /\ e \in Live /\ \A a \in Envs : Locus(a)' = Locus(a)
  BY <1>2, Zenon DEF Live, Locus, InFork
<1>11. \A a \in Live, w \in Seen : Content(frames', <<a, w>>) =
         IF w = v /\ (a = e \/ v \in Shared) THEN x ELSE Content(frames, <<a, w>>)
  <2> TAKE a \in Live, w \in Seen
  <2>1. a \in Envs /\ w \in VPages /\ w # PFTEMP /\ pc[a] # "embryo" /\ pte[a][w] # "none"
    BY <1>1, Kinds, Zenon DEF Live, LiveInv
  <2>2. Same(frames, <<a, w>>, <<a, w>>)
    BY <1>1, <2>1, Zenon DEF MappedInv
  <2>3. CASE w # v
    BY <1>5, <1>6, <2>1, <2>2, <2>3, Zenon
  <2>4. CASE w = v /\ a = e
    BY <1>4, <1>5, <2>2, <2>4, Zenon
  <2>5. CASE w = v /\ v \in Shared
    <3>1. Same(frames, r, <<a, w>>)
      BY <1>1, <1>2, <1>4, <2>1, <2>5, Zenon DEF SharedInv
    <3>2. QED BY <1>5, <2>5, <3>1, Zenon
  <2>6. CASE w = v /\ a # e /\ v \notin Shared
    <3>1. pte[a][v] \in {"w", "cow"}
      BY <1>1, <2>1, <2>6, Zenon DEF KindInv
    <3>2. ~ Same(frames, r, <<a, v>>)
      BY <1>7, <1>8, <1>9, <2>1, <2>6, <3>1, Zenon
    <3>3. QED BY <1>5, <2>2, <2>6, <3>2, Zenon
  <2>7. QED BY <2>3, <2>4, <2>5, <2>6, Zenon
<1>12. \A a \in Envs : HandlerOf(a)'
  <2> TAKE a \in Envs
  <2>1. HandlerOf(a) /\ fva[a] \in Private
    BY <1>1, Zenon DEF TypeOK
  <2>2. PICK u \in VPages : u = fva[a] /\ u # PFTEMP /\ u \notin Shared
    BY <2>1, Kinds, Zenon DEF Seen
  <2>3. ASSUME pc[a] = "pf_map"
        PROVE  Content(frames', <<a, PFTEMP>>) = Content(frames', <<a, u>>)
    <3>1. /\ pte[a][u] = "cow" /\ pte[a][PFTEMP] # "none"
          /\ Content(frames, <<a, PFTEMP>>) = Content(frames, <<a, u>>)
      BY <2>1, <2>2, <2>3, Zenon DEF HandlerOf
    <3>2. Same(frames, <<a, PFTEMP>>, <<a, PFTEMP>>) /\ Same(frames, <<a, u>>, <<a, u>>)
      BY <1>1, <3>1, Kinds, Zenon DEF MappedInv
    <3>3. ~ Same(frames, r, <<a, u>>)
      BY <1>6, <1>7, <1>9, <2>2, <2>3, <3>1, Zenon
    <3>4. ~ Same(frames, r, <<a, PFTEMP>>)
      <4>1. ~ Same(frames, <<a, PFTEMP>>, r)
        BY <1>1, <1>3, <1>4, <2>3, Kinds, Zenon DEF AddressInv
      <4>2. QED BY <1>1, <4>1, SameRules, Zenon
    <3>5. QED BY <1>5, <3>1, <3>2, <3>3, <3>4, Zenon
  <2>4. QED BY <1>2, <2>1, <2>2, <2>3, Zenon DEF HandlerOf
<1>13. MappedInv' /\ AddressInv' /\ SharedInv'
  BY <1>1, <1>2, <1>5, SMTT(30) DEF MappedInv, AddressInv, SharedInv
<1>14. KindInv' /\ LiveInv'
  BY <1>1, <1>2, <1>10 DEF KindInv, LiveInv
<1>15. \A a \in Envs : CopyOf(a)'
  <2> TAKE a \in Envs
  <2>1. \A i : Passed(a, i)' <=> Passed(a, i)
    BY <1>2, <1>10, Zenon DEF Passed
  <2>2. \A w : Handed(a, w)' <=> Handed(a, w)
    BY <1>2, <1>5, Zenon DEF Handed
  <2>3. QED BY <1>1, <1>10, <2>1, <2>2, Zenon DEF CopyOf
<1>16. QED BY <1>5, <1>10, <1>11, <1>12, <1>13, <1>14, <1>15, Zenon DEF MInv, HandlerInv, CopyInv
-----------------------------------------------------------------------------
(* What a step is to the programs.                                         *)
Silent == MInv' /\ Unseen /\ Live' = Live

Ends(e) == MInv' /\ Unseen /\ e \in Live /\ Live' = Live \ {e}

Starts(e, c) == /\ MInv' /\ Unseen /\ e \in Live /\ c \in Envs /\ c \notin Live
                /\ Live' = Live \cup {c} /\ frames' = frames
                /\ \A v \in Seen : Same(frames, <<c, v>>, <<c, v>>)
                /\ \A v \in Seen \ {Stack} : Same(frames, <<e, v>>, <<c, v>>)

Stores(e, v, x) ==
  /\ MInv' /\ e \in Live /\ Live' = Live /\ pc' = pc
  /\ \A a \in Live, w \in Seen : Content(frames', <<a, w>>) =
       IF w = v /\ (a = e \/ v \in Shared) THEN x ELSE Content(frames, <<a, w>>)

LEMMA InitMemory == Init => MInv
<1> SUFFICES ASSUME Init PROVE MInv
  BY Zenon
<1>1. /\ \A e \in Envs, v \in VPages : pte[e][v] =
           IF e # Root THEN "none"
           ELSE CASE v \in Private -> "w" [] v \in Shared -> "share"
                  [] v \in Text -> "r" [] OTHER -> "none"
      /\ \A e \in Envs : pc[e] = IF e = Root THEN "user" ELSE "free"
      /\ frames = {[at |-> {<<Root, v>>}, val |-> Zero] : v \in Seen}
  BY Zenon DEF Init, Seen
<1>2. \A f \in frames : \E v \in Seen : f.at = {<<Root, v>>} /\ f = [at |-> {<<Root, v>>}, val |-> Zero]
  BY <1>1
<1>3. Apart(frames)
  <2> SUFFICES ASSUME NEW f \in frames, NEW g \in frames, NEW p \in f.at, p \in g.at
               PROVE  f = g
    BY Zenon DEF Apart
  <2>1. PICK v \in Seen : f.at = {<<Root, v>>} /\ f = [at |-> {<<Root, v>>}, val |-> Zero]
    BY <1>2, Zenon
  <2>2. PICK w \in Seen : g.at = {<<Root, w>>} /\ g = [at |-> {<<Root, w>>}, val |-> Zero]
    BY <1>2, Zenon
  <2>3. v = w
    BY <2>1, <2>2
  <2>4. QED BY <2>1, <2>2, <2>3, Zenon
<1>4. \A p, q : Same(frames, p, q) => p = q /\ \E v \in Seen : p = <<Root, v>>
  BY <1>2 DEF Same
<1>5. \A v \in Seen : Same(frames, <<Root, v>>, <<Root, v>>)
  <2> TAKE v \in Seen
  <2>1. PICK f : f = [at |-> {<<Root, v>>}, val |-> Zero]
    BY ZenonT(60)
  <2>2. f \in frames /\ <<Root, v>> \in f.at
    BY <1>1, <2>1, Zenon
  <2>3. QED BY <2>2, Zenon DEF Same
<1>6. \A e \in Envs, v \in VPages : pte[e][v] # "none" <=> e = Root /\ v \in Seen
  <2> TAKE e \in Envs, v \in VPages
  <2>0. pte[e][v] = IF e # Root THEN "none"
                    ELSE CASE v \in Private -> "w" [] v \in Shared -> "share"
                           [] v \in Text -> "r" [] OTHER -> "none"
    BY <1>1, Zenon
  <2>1. CASE e # Root
    BY <2>0, <2>1, Zenon
  <2>2. CASE e = Root /\ v \in Seen
    BY <2>0, <2>2, Zenon DEF Seen
  <2>3. CASE e = Root /\ v \notin Seen
    BY <2>0, <2>3, Zenon DEF Seen
  <2>4. QED BY <2>1, <2>2, <2>3, Zenon
<1>7. MappedInv
  <2>1. \A e \in Envs, v \in VPages : Same(frames, <<e, v>>, <<e, v>>) => e = Root /\ v \in Seen
    BY <1>4
  <2>2. QED BY <1>5, <1>6, <2>1, Zenon DEF MappedInv
<1>8. \A e \in Envs : Locus(e) \notin {"map"} \cup HasChild
  BY <1>1, Zenon DEF Locus, InHandler, HasChild
<1>9. KindInv
  BY <1>1, <1>8, LayoutAssumption, Zenon DEF KindInv
<1>10. AddressInv
  <2>1. \A d, e \in Envs, v, w \in VPages : Same(frames, <<d, v>>, <<e, w>>) => d = e /\ v = w
    BY <1>4
  <2>2. QED BY <2>1, Zenon DEF AddressInv
<1>11. SharedInv
  BY <1>5, <1>6, Kinds, Zenon DEF SharedInv, Seen
<1>12. HandlerInv /\ CopyInv
  BY <1>1, <1>8, Zenon DEF HandlerInv, HandlerOf, CopyInv, CopyOf
<1>13. LiveInv
  BY <1>1, <1>6, Kinds DEF LiveInv, Live
<1>14. QED BY <1>3, <1>7, <1>9, <1>10, <1>11, <1>12, <1>13, Zenon DEF MInv

LEMMA SameLive ==
  ASSUME TypeOK, NEW e \in Envs, pc[e] \notin {"free", "embryo"},
         NEW l, l \notin {"free", "embryo"}, Goto(e, l)
  PROVE  Live' = Live
BY Zenon DEF TypeOK, Goto, Live

LEMMA NextPageLive ==
  ASSUME TypeOK, NEW e \in Envs, pc[e] \notin {"free", "embryo"}, NextPage(e)
  PROVE  Live' = Live
<1>1. Goto(e, "dup") \/ Goto(e, "upcall")
  BY Zenon DEF NextPage
<1>2. QED BY <1>1, SameLive, Zenon

(* panic().                                                                *)
LEMMA PanicIsSilent ==
  ASSUME IInv, MInv, NEW e \in Envs, pc[e] \notin {"free", "embryo", "pf_unmap"},
         Goto(e, "panic"), UNCHANGED <<memory, ret, fva, child, vp>>,
         \A d \in Envs \ {e} : perm'[d] = perm[d]
  PROVE  Silent
<1>1. Live' = Live
  BY SameLive, Zenon DEF IInv
<1>2. QED BY <1>1, PanicMemory, Zenon DEF Silent

LEMMA FaultIsSilent ==
  ASSUME IInv, TextInv, MInv, NEW e \in Envs, NEW v \in Private \cup Text, page_fault(e, v)
  PROVE  Silent \/ Ends(e)
<1>1. MayStore(e, v) /\ pc[e] \notin {"free", "embryo", "pf_unmap"} /\ TypeOK
  BY Zenon DEF page_fault, MayStore, InFork, IInv
<1>2. CASE /\ Goto(e, "pf_alloc") /\ pte[e][v] = "cow"
           /\ ret' = [ret EXCEPT ![e] = pc[e]] /\ fva' = [fva EXCEPT ![e] = v]
           /\ UNCHANGED <<memory, child, vp, perm, upcall>>
  <2>1. v \in Private
    BY <1>2, Zenon DEF TextInv
  <2>2. Live' = Live
    BY <1>1, <1>2, SameLive, Zenon
  <2>3. MInv' /\ Unseen
    BY <1>1, <1>2, <2>1, FaultMemory, ZenonT(60)
  <2>4. QED BY <2>2, <2>3, Zenon DEF Silent
<1>3. CASE Goto(e, "panic") /\ UNCHANGED <<ret, fva, memory, child, vp, perm, upcall>>
  BY <1>1, <1>3, PanicIsSilent, Zenon
<1>4. CASE Clear(e)
  BY <1>1, <1>4, ClearMemory, Zenon DEF Ends
<1>5. QED BY <1>2, <1>3, <1>4, Zenon DEF page_fault

LEMMA HandlerIsSilent ==
  ASSUME IInv, MInv, NEW e \in Envs, pgfault(e)
  PROVE  Silent
<1>0. TypeOK
  BY Zenon DEF IInv
<1>1. CASE pgfault_alloc(e)
  <2>1. pc[e] = "pf_alloc" /\ UNCHANGED locals
    BY <1>1, Zenon DEF pgfault_alloc
  <2>2. CASE Goto(e, "panic") /\ UNCHANGED memory
    BY <2>1, <2>2, PanicIsSilent, Zenon DEF locals
  <2>3. CASE Goto(e, "pf_copy") /\ sys_page_alloc(e, PFTEMP)
    BY <1>0, <2>1, <2>3, SameLive, HandlerAllocMemory, Zenon DEF Silent
  <2>4. QED BY <1>1, <2>2, <2>3, Zenon DEF pgfault_alloc
<1>2. CASE pgfault_copy(e)
  <2>1. pc[e] = "pf_copy" /\ Goto(e, "pf_map")
    BY <1>2, Zenon DEF pgfault_copy
  <2>2. QED BY <1>0, <1>2, <2>1, SameLive, CopyMemory, Zenon DEF Silent
<1>3. CASE pgfault_map(e)
  <2>1. pc[e] = "pf_map" /\ Goto(e, "pf_unmap")
    BY <1>3, Zenon DEF pgfault_map
  <2>2. QED BY <1>0, <1>3, <2>1, SameLive, MapMemory, Zenon DEF Silent
<1>4. CASE pgfault_unmap(e)
  <2>1. pc[e] = "pf_unmap" /\ Goto(e, ret[e])
    BY <1>4, Zenon DEF pgfault_unmap
  <2>2. ret[e] \notin {"free", "embryo"}
    BY <1>0, Zenon DEF TypeOK, InFork
  <2>3. QED BY <1>0, <1>4, <2>1, <2>2, SameLive, UnmapMemory, Zenon DEF Silent
<1>5. QED BY <1>1, <1>2, <1>3, <1>4, Zenon DEF pgfault

LEMMA InstallIsSilent ==
  ASSUME IInv, MInv, NEW e \in Envs, set_pgfault_handler(e)
  PROVE  Silent
<1>0. TypeOK /\ pc[e] = "user" /\ UNCHANGED locals
  BY Zenon DEF IInv, set_pgfault_handler
<1>1. CASE Goto(e, "panic") /\ UNCHANGED memory
  BY <1>0, <1>1, PanicIsSilent, Zenon DEF locals
<1>2. CASE Goto(e, "exofork") /\ UNCHANGED memory
  BY <1>0, <1>2, SameLive, InstalledMemory, Zenon DEF Silent
<1>3. CASE Goto(e, "exofork") /\ sys_page_alloc(e, XStack)
  BY <1>0, <1>3, SameLive, InstallMemory, Zenon DEF Silent
<1>4. QED BY <1>1, <1>2, <1>3, Zenon DEF set_pgfault_handler

LEMMA ExoforkIsSilent ==
  ASSUME IInv, MInv, NEW e \in Envs, sys_exofork(e)
  PROVE  Silent
<1>0. TypeOK /\ pc[e] = "exofork" /\ UNCHANGED <<memory, ret, fva, perm>>
  BY Zenon DEF IInv, sys_exofork
<1>1. CASE Goto(e, "panic") /\ UNCHANGED <<child, vp>>
  BY <1>0, <1>1, PanicIsSilent, Zenon
<1>2. CASE \E c \in Envs : /\ pc[c] = "free"
                           /\ pc' = [pc EXCEPT ![e] = "dup", ![c] = "embryo"]
                           /\ child' = [child EXCEPT ![e] = c]
                           /\ vp' = [vp EXCEPT ![e] = 1]
  <2>1. PICK c \in Envs : Exoforks(e, c)
    BY <1>0, <1>2, Zenon DEF Exoforks, memory
  <2>2. pc \in [Envs -> Labels] /\ pc[c] = "free" /\ pc' = [pc EXCEPT ![e] = "dup", ![c] = "embryo"]
    BY <1>0, <2>1, Zenon DEF Exoforks, TypeOK
  <2>3. Live' = Live
    BY <1>0, <2>2, Zenon DEF Live
  <2>4. QED BY <2>1, <2>3, ExoforkMemory, Zenon DEF Silent
<1>3. QED BY <1>1, <1>2, Zenon DEF sys_exofork

LEMMA PageIsSilent ==
  ASSUME IInv, MInv, NEW e \in Envs, fork_page(e)
  PROVE  Silent
<1>0. TypeOK /\ pc[e] = "dup" /\ UNCHANGED <<ret, fva, child>>
  BY Zenon DEF IInv, fork_page
<1>1. CASE Order[vp[e]] = XStack
  <2>1. perm' = perm
    BY <1>1, Zenon DEF fork_page
  <2>2. CASE Goto(e, "panic") /\ UNCHANGED <<memory, vp>>
    BY <1>0, <2>1, <2>2, PanicIsSilent, Zenon
  <2>3. CASE sys_page_alloc(child[e], XStack) /\ NextPage(e)
    BY <1>0, <1>1, <2>1, <2>3, NextPageLive, NewStackMemory, Zenon DEF Silent
  <2>4. QED BY <1>1, <2>2, <2>3, Zenon DEF fork_page
<1>2. CASE Order[vp[e]] # XStack /\ IsMapped(e, Order[vp[e]])
  <2>1. /\ Goto(e, "map") /\ perm' = [perm EXCEPT ![e] = ChildPerm(pte[e][Order[vp[e]]])]
        /\ UNCHANGED <<memory, vp>>
    BY <1>2, Zenon DEF fork_page
  <2>2. QED BY <1>0, <1>2, <2>1, SameLive, LookMemory, ZenonT(60) DEF Silent
<1>3. CASE Order[vp[e]] # XStack /\ ~ IsMapped(e, Order[vp[e]])
  <2>1. NextPage(e) /\ UNCHANGED <<memory, perm>>
    BY <1>3, Zenon DEF fork_page
  <2>2. QED BY <1>0, <1>3, <2>1, NextPageLive, SkipMemory, Zenon DEF Silent
<1>4. QED BY <1>1, <1>2, <1>3, Zenon

LEMMA DuppageIsSilent ==
  ASSUME IInv, MInv, NEW e \in Envs, duppage_map(e)
  PROVE  Silent
<1>0. /\ TypeOK /\ pc[e] = "map" /\ UNCHANGED <<ret, fva, child>>
      /\ perm' = [perm EXCEPT ![e] = "none"]
  BY Zenon DEF IInv, duppage_map
<1>1. \A d \in Envs \ {e} : perm'[d] = perm[d]
  BY <1>0, Zenon DEF TypeOK
<1>2. CASE Goto(e, "panic") /\ UNCHANGED <<memory, vp>>
  BY <1>0, <1>1, <1>2, PanicIsSilent, Zenon
<1>3. CASE /\ sys_page_map(e, Order[vp[e]], child[e], Order[vp[e]], perm[e])
           /\ IF perm[e] = "cow" THEN Goto(e, "remap") /\ vp' = vp ELSE NextPage(e)
  <2>1. Live' = Live
    BY <1>0, <1>3, SameLive, NextPageLive, Zenon
  <2>2. MInv' /\ Unseen
    BY <1>0, <1>3, ChildMapMemory, ZenonT(60)
  <2>3. QED BY <2>1, <2>2, Zenon DEF Silent
<1>4. QED BY <1>2, <1>3, Zenon DEF duppage_map

LEMMA ForkStep ==
  ASSUME IInv, MInv, NEW e \in Envs, fork(e)
  PROVE  Silent \/ \E c \in Envs : Starts(e, c)
<1>0. TypeOK
  BY Zenon DEF IInv
<1>1. CASE duppage_remap(e)
  <2>1. pc[e] = "remap" /\ NextPage(e)
    BY <1>1, Zenon DEF duppage_remap
  <2>2. QED BY <1>0, <1>1, <2>1, NextPageLive, RemapMemory, Zenon DEF Silent
<1>2. CASE sys_env_set_pgfault_upcall(e)
  <2>1. pc[e] = "upcall" /\ Goto(e, "start")
    BY <1>2, Zenon DEF sys_env_set_pgfault_upcall
  <2>2. QED BY <1>0, <1>2, <2>1, SameLive, UpcallMemory, Zenon DEF Silent
<1>3. CASE sys_env_set_status(e)
  <2>1. /\ MInv' /\ Unseen /\ child[e] \in Envs /\ child[e] \notin Live /\ e \in Live
        /\ Live' = Live \cup {child[e]} /\ frames' = frames
        /\ \A v \in Seen : Handed(e, v)
    BY <1>3, StartMemory, Zenon
  <2>2. PICK c \in Envs : c = child[e]
    BY <2>1, Zenon
  <2>3. \A v \in Seen : Same(frames, <<c, v>>, <<c, v>>)
    BY <2>1, <2>2, Kinds, Zenon DEF Handed, MInv, MappedInv
  <2>4. \A v \in Seen \ {Stack} : Same(frames, <<e, v>>, <<c, v>>)
    BY <2>1, <2>2, Zenon DEF Handed
  <2>5. Starts(e, c)
    BY <2>1, <2>2, <2>3, <2>4, Zenon DEF Starts
  <2>6. QED BY <2>5, Zenon
<1>4. QED BY <1>1, <1>2, <1>3, ExoforkIsSilent, PageIsSilent, DuppageIsSilent, Zenon DEF fork

LEMMA NextMemory ==
  ASSUME IInv, TextInv, MInv, [Next]_vars
  PROVE  \/ Silent
         \/ \E e \in Envs : Ends(e)
         \/ \E e, c \in Envs : Starts(e, c)
         \/ \E e \in Envs, v \in Private \cup Shared, x \in Values : Stores(e, v, x)
<1>1. CASE UNCHANGED vars
  <2>1. UNCHANGED <<frames, pte, pc, ret, fva, child, vp, perm>>
    BY <1>1, Zenon DEF vars, memory, locals
  <2>2. Live' = Live /\ Unseen
    BY <2>1, Zenon DEF Live, Unseen
  <2>3. \A e \in Envs : Locus(e)' = Locus(e)
    BY <2>1, Zenon DEF Locus
  <2>4. /\ Apart(frames)' /\ MappedInv' /\ KindInv' /\ AddressInv' /\ SharedInv' /\ LiveInv'
    BY <2>1, <2>2, <2>3 DEF MInv, MappedInv, KindInv, AddressInv, SharedInv, LiveInv
  <2>5. HandlerInv'
    BY <2>1, Zenon DEF MInv, HandlerInv, HandlerOf
  <2>6. CopyInv'
    <3>1. \A e \in Envs : /\ \A i : Passed(e, i)' <=> Passed(e, i)
                          /\ \A v : Handed(e, v)' <=> Handed(e, v)
      BY <2>1, <2>3, Zenon DEF Passed, Handed
    <3>2. QED BY <2>3, <3>1, Zenon DEF MInv, CopyInv, CopyOf
  <2>7. QED BY <2>2, <2>4, <2>5, <2>6, Zenon DEF Silent, MInv
<1>2. CASE Next
  <2>1. PICK e \in Envs :
          \/ \E v \in Private \cup Shared, x \in Values : Store(e, v, x)
          \/ \E v \in Private \cup Text : page_fault(e, v)
          \/ pgfault(e) \/ set_pgfault_handler(e) \/ fork(e) \/ env_destroy(e)
    BY <1>2, Zenon DEF Next
  <2>2. CASE \E v \in Private \cup Shared, x \in Values : Store(e, v, x)
    <3>1. PICK v \in Private \cup Shared, x \in Values : Store(e, v, x)
      BY <2>2, Zenon
    <3>2. pc' = pc
      BY <3>1, Zenon DEF Store
    <3>3. Stores(e, v, x)
      BY <3>1, <3>2, StoreMemory DEF Stores
    <3>4. QED BY <3>3, Zenon
  <2>3. CASE \E v \in Private \cup Text : page_fault(e, v)
    BY <2>3, FaultIsSilent, Zenon
  <2>4. CASE env_destroy(e)
    BY <2>4, ClearMemory, Zenon DEF env_destroy, Ends
  <2>5. QED BY <2>1, <2>2, <2>3, <2>4, HandlerIsSilent, InstallIsSilent, ForkStep, Zenon
<1>3. QED BY <1>1, <1>2, Zenon
-----------------------------------------------------------------------------
(* What the programs L find in the pages F.                                *)
MemOf(F, L) ==
  [e \in Envs |-> [v \in Private |-> IF e \in L THEN Content(F, <<e, v>>) ELSE Zero]]

SharedOf(F, L) ==
  [v \in Shared |-> IF L = {} THEN Zero ELSE Content(F, <<CHOOSE e \in L : TRUE, v>>)]

(* All of L find the same in the shared pages.                             *)
One(F, L) == \A d, e \in L, v \in Shared : Content(F, <<d, v>>) = Content(F, <<e, v>>)

LEMMA OneMemory == MInv => One(frames, Live)
<1> SUFFICES ASSUME MInv, NEW d \in Live, NEW e \in Live, NEW v \in Shared
             PROVE  Content(frames, <<d, v>>) = Content(frames, <<e, v>>)
  BY Zenon DEF One
<1>1. d \in Envs /\ e \in Envs /\ pte[d][v] # "none" /\ pte[e][v] # "none"
  BY Zenon DEF Live, MInv, LiveInv, Seen
<1>2. Same(frames, <<d, v>>, <<e, v>>)
  BY <1>1, Zenon DEF MInv, SharedInv
<1>3. QED BY <1>2, SameRules, Zenon DEF MInv

LEMMA OneMemoryNext == MInv' => One(frames', Live')
<1> SUFFICES ASSUME MInv', NEW d \in Live', NEW e \in Live', NEW v \in Shared
             PROVE  Content(frames', <<d, v>>) = Content(frames', <<e, v>>)
  BY Zenon DEF One
<1>1. d \in Envs /\ e \in Envs /\ pte'[d][v] # "none" /\ pte'[e][v] # "none"
  BY Zenon DEF Live, MInv, LiveInv, Seen
<1>2. Same(frames', <<d, v>>, <<e, v>>)
  BY <1>1, Zenon DEF MInv, SharedInv
<1>3. Apart(frames')
  BY Zenon DEF MInv
<1>4. QED BY <1>2, <1>3, SameRules, Zenon

LEMMA SharedAt ==
  ASSUME NEW F, NEW L, One(F, L), NEW e \in L, NEW v \in Shared
  PROVE  SharedOf(F, L)[v] = Content(F, <<e, v>>)
<1>1. PICK d : d = CHOOSE a \in L : TRUE
  BY ZenonT(60)
<1>2. d \in L
  BY <1>1, ZenonT(60)
<1>3. SharedOf(F, L)[v] = Content(F, <<d, v>>)
  BY <1>1, Zenon DEF SharedOf
<1>4. QED BY <1>2, <1>3, Zenon DEF One

LEMMA SharedKept ==
  ASSUME NEW F, NEW L, One(F, L), NEW G, NEW K, One(G, K),
         NEW d \in L, d \in K, \A v \in Shared : Content(G, <<d, v>>) = Content(F, <<d, v>>)
  PROVE  SharedOf(G, K) = SharedOf(F, L)
<1>1. \A v \in Shared : SharedOf(G, K)[v] = Content(G, <<d, v>>)
  BY SharedAt, Zenon
<1>2. \A v \in Shared : SharedOf(F, L)[v] = Content(F, <<d, v>>)
  BY SharedAt
<1>3. \A v \in Shared : SharedOf(G, K)[v] = SharedOf(F, L)[v]
  BY <1>1, <1>2, Zenon
<1>4. QED BY <1>3, Zenon DEF SharedOf

LEMMA SilentView ==
  ASSUME NEW F, NEW L, One(F, L), NEW G, One(G, L),
         \A e \in L, v \in Private \cup Shared : Content(G, <<e, v>>) = Content(F, <<e, v>>)
  PROVE  MemOf(G, L) = MemOf(F, L) /\ SharedOf(G, L) = SharedOf(F, L)
<1>1. MemOf(G, L) = MemOf(F, L)
  BY Zenon DEF MemOf
<1>2. CASE L = {}
  BY <1>1, <1>2, Zenon DEF SharedOf
<1>3. CASE L # {}
  BY <1>1, <1>3, SharedKept
<1>4. QED BY <1>2, <1>3, Zenon

(* e has gone from L, which leaves K.                                      *)
GoneFrom(F, L, e, G, K) ==
  /\ MemOf(G, K) = [MemOf(F, L) EXCEPT ![e] = [v \in Private |-> Zero]]
  /\ SharedOf(G, K) = IF K = {} THEN [v \in Shared |-> Zero] ELSE SharedOf(F, L)

LEMMA EndView ==
  ASSUME NEW F, NEW L, One(F, L), NEW G, NEW e \in Envs, e \in L, NEW K, K = L \ {e}, One(G, K),
         \A d \in K, v \in Private \cup Shared : Content(G, <<d, v>>) = Content(F, <<d, v>>)
  PROVE  GoneFrom(F, L, e, G, K)
<1>1. MemOf(G, K) = [MemOf(F, L) EXCEPT ![e] = [v \in Private |-> Zero]]
  <2>1. MemOf(G, K)[e] = [v \in Private |-> Zero]
    BY Zenon DEF MemOf
  <2>2. \A d \in Envs \ {e} : MemOf(G, K)[d] = MemOf(F, L)[d]
    BY Zenon DEF MemOf
  <2>3. /\ MemOf(F, L) = [d \in Envs |-> MemOf(F, L)[d]]
        /\ MemOf(G, K) = [d \in Envs |-> MemOf(G, K)[d]]
    BY Zenon DEF MemOf
  <2>4. QED BY <2>1, <2>2, <2>3, Zenon
<1>2. CASE K = {}
  BY <1>1, <1>2, Zenon DEF SharedOf, GoneFrom
<1>3. CASE K # {}
  <2>1. PICK d : d \in K
    BY <1>3, Zenon
  <2>2. SharedOf(G, K) = SharedOf(F, L)
    BY <2>1, SharedKept
  <2>3. QED BY <1>1, <1>3, <2>2, Zenon DEF GoneFrom
<1>4. QED BY <1>2, <1>3, Zenon

LEMMA StartView ==
  ASSUME NEW F, NEW L, One(F, L), NEW e \in Envs, e \in L, NEW c \in Envs, c \notin L,
         One(F, L \cup {c}),
         \A v \in Private \ {Stack} : Content(F, <<c, v>>) = Content(F, <<e, v>>)
  PROVE  /\ MemOf(F, L \cup {c}) =
              [MemOf(F, L) EXCEPT ![c] = [MemOf(F, L)[e] EXCEPT ![Stack] = Content(F, <<c, Stack>>)]]
         /\ SharedOf(F, L \cup {c}) = SharedOf(F, L)
<1>1. PICK K : K = L \cup {c}
  BY ZenonT(60)
<1>2. PICK M, N : M = MemOf(F, L) /\ N = MemOf(F, K)
  BY ZenonT(60)
<1>3. /\ M = [d \in Envs |-> M[d]] /\ N = [d \in Envs |-> N[d]]
      /\ M[e] = [v \in Private |-> Content(F, <<e, v>>)]
      /\ N[c] = [v \in Private |-> Content(F, <<c, v>>)]
      /\ \A d \in Envs \ {c} : N[d] = M[d]
  BY <1>1, <1>2, Zenon DEF MemOf
<1>4. N[c] = [M[e] EXCEPT ![Stack] = Content(F, <<c, Stack>>)]
  <2>1. /\ M[e] = [v \in Private |-> M[e][v]] /\ N[c] = [v \in Private |-> N[c][v]]
        /\ \A v \in Private : M[e][v] = Content(F, <<e, v>>) /\ N[c][v] = Content(F, <<c, v>>)
    BY <1>3, Zenon
  <2>2. \A v \in Private : N[c][v] = IF v = Stack THEN Content(F, <<c, Stack>>) ELSE M[e][v]
    BY <2>1, Zenon
  <2>3. QED BY <2>1, <2>2, Zenon
<1>5. N = [M EXCEPT ![c] = [M[e] EXCEPT ![Stack] = Content(F, <<c, Stack>>)]]
  BY <1>3, <1>4, Zenon
<1>6. SharedOf(F, K) = SharedOf(F, L)
  BY <1>1, SharedKept
<1>7. QED BY <1>1, <1>2, <1>5, <1>6, Zenon

LEMMA WriteView ==
  ASSUME NEW F, NEW L, One(F, L), NEW G, One(G, L), NEW e \in Envs, e \in L,
         NEW v \in Private, v \notin Shared, NEW x,
         \A a \in L, w \in Private \cup Shared : Content(G, <<a, w>>) =
           IF w = v /\ a = e THEN x ELSE Content(F, <<a, w>>)
  PROVE  MemOf(G, L) = [MemOf(F, L) EXCEPT ![e][v] = x] /\ SharedOf(G, L) = SharedOf(F, L)
<1>1. PICK M, N : M = MemOf(F, L) /\ N = MemOf(G, L)
  BY ZenonT(60)
<1>2. /\ M = [d \in Envs |-> M[d]] /\ N = [d \in Envs |-> N[d]]
      /\ M[e] = [w \in Private |-> Content(F, <<e, w>>)]
      /\ N[e] = [w \in Private |-> Content(G, <<e, w>>)]
      /\ \A d \in Envs \ {e} : N[d] = M[d]
  BY <1>1, Zenon DEF MemOf
<1>3. N[e] = [M[e] EXCEPT ![v] = x]
  <2>1. /\ M[e] = [w \in Private |-> M[e][w]] /\ N[e] = [w \in Private |-> N[e][w]]
        /\ \A w \in Private : M[e][w] = Content(F, <<e, w>>) /\ N[e][w] = Content(G, <<e, w>>)
    BY <1>2, Zenon
  <2>2. \A w \in Private : N[e][w] = IF w = v THEN x ELSE M[e][w]
    BY <2>1, Zenon
  <2>3. QED BY <2>1, <2>2, Zenon
<1>4. N = [M EXCEPT ![e][v] = x]
  BY <1>2, <1>3, Zenon
<1>5. SharedOf(G, L) = SharedOf(F, L)
  BY SharedKept
<1>6. QED BY <1>1, <1>4, <1>5, Zenon

LEMMA WriteSharedView ==
  ASSUME NEW F, NEW L, One(F, L), NEW G, One(G, L), NEW e \in L, NEW v \in Shared,
         v \notin Private, NEW x,
         \A a \in L, w \in Private \cup Shared : Content(G, <<a, w>>) =
           IF w = v THEN x ELSE Content(F, <<a, w>>)
  PROVE  MemOf(G, L) = MemOf(F, L) /\ SharedOf(G, L) = [SharedOf(F, L) EXCEPT ![v] = x]
<1>1. MemOf(G, L) = MemOf(F, L)
  BY Zenon DEF MemOf
<1>2. PICK S, T : S = SharedOf(F, L) /\ T = SharedOf(G, L)
  BY ZenonT(60)
<1>3. S = [w \in Shared |-> S[w]] /\ T = [w \in Shared |-> T[w]]
  BY <1>2, Zenon DEF SharedOf
<1>4. \A w \in Shared : S[w] = Content(F, <<e, w>>) /\ T[w] = Content(G, <<e, w>>)
  BY <1>2, SharedAt
<1>5. \A w \in Shared : T[w] = IF w = v THEN x ELSE S[w]
  BY <1>4, Zenon
<1>6. T = [S EXCEPT ![v] = x]
  BY <1>3, <1>5, Zenon
<1>7. QED BY <1>1, <1>2, <1>6, Zenon

(* The state of PrivateMemory, now and after the step.                     *)
LEMMA Views == PrivateView = MemOf(frames, Live) /\ SharedView = SharedOf(frames, Live)
<1>1. PrivateView = MemOf(frames, Live)
  BY Zenon DEF PrivateView, MemOf, ReadPage, Content
<1>2. SharedView = SharedOf(frames, Live)
  BY Zenon DEF SharedView, SharedOf, ReadPage, Content
<1>3. QED BY <1>1, <1>2, Zenon

LEMMA ViewsNext == PrivateView' = MemOf(frames', Live') /\ SharedView' = SharedOf(frames', Live')
<1>1. PrivateView' = MemOf(frames', Live')
  BY Zenon DEF PrivateView, MemOf, ReadPage, Content
<1>2. SharedView' = SharedOf(frames', Live')
  BY Zenon DEF SharedView, SharedOf, ReadPage, Content
<1>3. QED BY <1>1, <1>2, Zenon

(* PrivateMemory's steps, of the memory the programs find.                 *)
LEMMA SilentMaps ==
  ASSUME MInv, Silent
  PROVE  /\ Live' = Live /\ MemOf(frames', Live') = MemOf(frames, Live)
         /\ SharedOf(frames', Live') = SharedOf(frames, Live)
<1>1. One(frames, Live) /\ One(frames', Live) /\ Live' = Live
  BY OneMemory, OneMemoryNext, Zenon DEF Silent
<1>2. \A e \in Live, v \in Private \cup Shared : Content(frames', <<e, v>>) = Content(frames, <<e, v>>)
  BY <1>1, Zenon DEF Silent, Unseen, Seen
<1>3. QED BY <1>1, <1>2, SilentView, Zenon

LEMMA EndsMaps ==
  ASSUME MInv, NEW e \in Envs, Ends(e)
  PROVE  /\ e \in Live /\ Live' = Live \ {e}
         /\ MemOf(frames', Live') = [MemOf(frames, Live) EXCEPT ![e] = [v \in Private |-> Zero]]
         /\ SharedOf(frames', Live') =
              IF Live' = {} THEN [v \in Shared |-> Zero] ELSE SharedOf(frames, Live)
<1>1. One(frames, Live) /\ One(frames', Live') /\ Live' = Live \ {e} /\ e \in Live
  BY OneMemory, OneMemoryNext, Zenon DEF Ends
<1>2. \A d \in Live', v \in Private \cup Shared :
        Content(frames', <<d, v>>) = Content(frames, <<d, v>>)
  BY <1>1, Zenon DEF Ends, Unseen, Seen
<1>3. GoneFrom(frames, Live, e, frames', Live')
  BY <1>1, <1>2, EndView, Zenon
<1>4. QED BY <1>1, <1>3, Zenon DEF GoneFrom

LEMMA StartsMaps ==
  ASSUME TypeOK, MInv, NEW e \in Envs, NEW c \in Envs, Starts(e, c)
  PROVE  /\ e \in Live /\ c \notin Live /\ Live' = Live \cup {c}
         /\ \E x \in Values : MemOf(frames', Live') =
              [MemOf(frames, Live) EXCEPT ![c] = [MemOf(frames, Live)[e] EXCEPT ![Stack] = x]]
         /\ SharedOf(frames', Live') = SharedOf(frames, Live)
<1>1. /\ One(frames, Live) /\ One(frames, Live \cup {c}) /\ Live' = Live \cup {c} /\ frames' = frames
      /\ e \in Live /\ c \notin Live /\ Apart(frames)
  BY OneMemory, OneMemoryNext, Zenon DEF Starts, MInv
<1>2. \A v \in Private \ {Stack} : Content(frames, <<c, v>>) = Content(frames, <<e, v>>)
  <2>1. \A v \in Private \ {Stack} : Same(frames, <<e, v>>, <<c, v>>)
    BY Zenon DEF Starts, Seen
  <2>2. QED BY <1>1, <2>1, SameRules, Zenon
<1>3. PICK x : x = Content(frames, <<c, Stack>>)
  BY ZenonT(60)
<1>4. x \in Values
  <2>1. Same(frames, <<c, Stack>>, <<c, Stack>>)
    BY Kinds, Zenon DEF Starts, Seen
  <2>2. PICK f \in frames : <<c, Stack>> \in f.at
    BY <2>1, Zenon DEF Same
  <2>3. x = f.val
    BY <1>1, <1>3, <2>2, ContentIs, Zenon
  <2>4. QED BY <2>3, Zenon DEF TypeOK
<1>5. /\ MemOf(frames, Live \cup {c}) =
           [MemOf(frames, Live) EXCEPT ![c] = [MemOf(frames, Live)[e] EXCEPT ![Stack] = x]]
      /\ SharedOf(frames, Live \cup {c}) = SharedOf(frames, Live)
  BY <1>1, <1>2, <1>3, StartView
<1>6. QED BY <1>1, <1>4, <1>5, ZenonT(60)

LEMMA StoresMaps ==
  ASSUME MInv, NEW e \in Envs, NEW v \in Private \cup Shared, NEW x \in Values, Stores(e, v, x)
  PROVE  /\ e \in Live /\ Live' = Live
         /\ \/ /\ v \in Private
               /\ MemOf(frames', Live') = [MemOf(frames, Live) EXCEPT ![e][v] = x]
               /\ SharedOf(frames', Live') = SharedOf(frames, Live)
            \/ /\ v \in Shared
               /\ MemOf(frames', Live') = MemOf(frames, Live)
               /\ SharedOf(frames', Live') = [SharedOf(frames, Live) EXCEPT ![v] = x]
<1>1. /\ One(frames, Live) /\ One(frames', Live) /\ Live' = Live /\ e \in Live
      /\ Private \cap Shared = {}
  BY OneMemory, OneMemoryNext, Kinds, Zenon DEF Stores
<1>2. \A a \in Live, w \in Private \cup Shared : Content(frames', <<a, w>>) =
        IF w = v /\ (a = e \/ v \in Shared) THEN x ELSE Content(frames, <<a, w>>)
  BY Zenon DEF Stores, Seen
<1>3. CASE v \in Private /\ v \notin Shared
  <2>1. \A a \in Live, w \in Private \cup Shared : Content(frames', <<a, w>>) =
          IF w = v /\ a = e THEN x ELSE Content(frames, <<a, w>>)
    BY <1>2, <1>3, Zenon
  <2>2. /\ MemOf(frames', Live) = [MemOf(frames, Live) EXCEPT ![e][v] = x]
        /\ SharedOf(frames', Live) = SharedOf(frames, Live)
    BY <1>1, <1>3, <2>1, WriteView
  <2>3. QED BY <1>1, <1>3, <2>2, Zenon
<1>4. CASE v \in Shared /\ v \notin Private
  <2>1. \A a \in Live, w \in Private \cup Shared : Content(frames', <<a, w>>) =
          IF w = v THEN x ELSE Content(frames, <<a, w>>)
    BY <1>2, <1>4, Zenon
  <2>2. /\ MemOf(frames', Live) = MemOf(frames, Live)
        /\ SharedOf(frames', Live) = [SharedOf(frames, Live) EXCEPT ![v] = x]
    BY <1>1, <1>4, <2>1, WriteSharedView
  <2>3. QED BY <1>1, <1>4, <2>2, Zenon
<1>5. QED BY <1>1, <1>3, <1>4, Zenon

LEMMA RefineNext ==
  ASSUME IInv, TextInv, MInv, [Next]_vars
  PROVE  [Memory!Next]_(Memory!vars)
<1>1. CASE Silent
  <2>1. UNCHANGED Memory!vars
    BY <1>1, SilentMaps, Views, ViewsNext, Zenon DEF Memory!vars
  <2>2. QED BY <2>1, Zenon
<1>2. ASSUME NEW e \in Envs, Ends(e) PROVE Memory!Next
  <2>1. Memory!Exit(e)
    BY <1>2, EndsMaps, Views, ViewsNext, Zenon DEF Memory!Exit, Memory!Blank
  <2>2. QED BY <2>1, Zenon DEF Memory!Next
<1>3. ASSUME NEW e \in Envs, NEW c \in Envs, Starts(e, c) PROVE Memory!Next
  <2>1. /\ e \in Live /\ c \notin Live /\ Live' = Live \cup {c} /\ SharedView' = SharedView
        /\ \E x \in Values :
             PrivateView' = [PrivateView EXCEPT ![c] = [PrivateView[e] EXCEPT ![Stack] = x]]
    BY <1>3, StartsMaps, Views, ViewsNext, Zenon DEF IInv
  <2>2. Memory!Fork(e, c)
    BY <2>1, Zenon DEF Memory!Fork
  <2>3. QED BY <2>2, Zenon DEF Memory!Next
<1>4. ASSUME NEW e \in Envs, NEW v \in Private \cup Shared, NEW x \in Values, Stores(e, v, x)
      PROVE  Memory!Next
  <2>0. /\ e \in Live /\ Live' = Live
        /\ \/ /\ v \in Private
              /\ MemOf(frames', Live') = [MemOf(frames, Live) EXCEPT ![e][v] = x]
              /\ SharedOf(frames', Live') = SharedOf(frames, Live)
           \/ /\ v \in Shared
              /\ MemOf(frames', Live') = MemOf(frames, Live)
              /\ SharedOf(frames', Live') = [SharedOf(frames, Live) EXCEPT ![v] = x]
    BY <1>4, StoresMaps, Zenon
  <2>1. /\ e \in Live /\ Live' = Live
        /\ \/ /\ v \in Private
              /\ PrivateView' = [PrivateView EXCEPT ![e][v] = x] /\ SharedView' = SharedView
           \/ /\ v \in Shared
              /\ PrivateView' = PrivateView /\ SharedView' = [SharedView EXCEPT ![v] = x]
    BY <2>0, Views, ViewsNext, Zenon
  <2>2. CASE v \in Private /\ PrivateView' = [PrivateView EXCEPT ![e][v] = x] /\ SharedView' = SharedView
    <3>1. Memory!Write(e, v, x)
      BY <2>1, <2>2, Zenon DEF Memory!Write
    <3>2. QED BY <2>2, <3>1, Zenon DEF Memory!Next
  <2>3. CASE v \in Shared /\ PrivateView' = PrivateView /\ SharedView' = [SharedView EXCEPT ![v] = x]
    <3>1. Memory!WriteShared(e, v, x)
      BY <2>1, <2>3, Zenon DEF Memory!WriteShared
    <3>2. QED BY <2>3, <3>1, Zenon DEF Memory!Next
  <2>4. QED BY <2>1, <2>2, <2>3, Zenon
<1>5. QED BY <1>1, <1>2, <1>3, <1>4, NextMemory, Zenon

LEMMA RefineInit == Init => Memory!Init
<1> SUFFICES ASSUME Init PROVE Memory!Init
  BY Zenon
<1>1. Live = {Root} /\ MInv
  BY LayoutAssumption, InitMemory, Zenon DEF Init, Live
<1>2. \A v \in Private \cup Shared : Content(frames, <<Root, v>>) = Zero
  <2> TAKE v \in Private \cup Shared
  <2>1. PICK f : f = [at |-> {<<Root, v>>}, val |-> Zero]
    BY ZenonT(60)
  <2>2. f \in frames /\ <<Root, v>> \in f.at /\ f.val = Zero
    BY <2>1, Zenon DEF Init
  <2>3. QED BY <1>1, <2>2, ContentIs, Zenon DEF MInv
<1>3. MemOf(frames, Live) = [e \in Envs |-> [v \in Private |-> Zero]]
  BY <1>1, <1>2, Zenon DEF MemOf
<1>4. SharedOf(frames, Live) = [v \in Shared |-> Zero]
  <2>1. \A v \in Shared : SharedOf(frames, Live)[v] = Zero
    BY <1>1, <1>2, OneMemory, SharedAt, Zenon
  <2>2. QED BY <2>1, Zenon DEF SharedOf
<1>5. QED BY <1>1, <1>3, <1>4, Views, Zenon DEF Memory!Init, Memory!Blank
-----------------------------------------------------------------------------

(* The places that show a page are those the entries say, they are shared  *)
(* as fork() left them, and pgfault's copy is one (lib/fork.c:44-70,       *)
(* 75-120).                                                                *)
THEOREM MemoryInvariant == Spec => [](IInv /\ TextInv /\ MInv)
<1>1. IInv /\ TextInv /\ MInv /\ [Next]_vars => MInv'
  BY NextMemory, Zenon DEF Silent, Ends, Starts, Stores
<1>2. QED BY <1>1, InitMemory, ForkInvariant, PTL DEF Spec

(* No step of fork(), of the fault handler or of another environment's end *)
(* changes what a running program finds in its memory (lib/fork.c:44-70).  *)
THEOREM CopiesAreInvisible == Spec => CopyingIsInvisible
<1>1. IInv /\ TextInv /\ MInv /\ [Next]_vars =>
        [pc' # pc => \A e \in Live : e \in Live' =>
           \A v \in Private \cup Shared \cup Text : ReadPage(e, v)' = ReadPage(e, v)]_vars
  <2> SUFFICES ASSUME IInv, TextInv, MInv, [Next]_vars, pc' # pc,
                      NEW e \in Live, e \in Live', NEW v \in Seen
               PROVE  ReadPage(e, v)' = ReadPage(e, v)
    BY Zenon DEF Seen
  <2>1. Unseen
    BY NextMemory, Zenon DEF Silent, Ends, Starts, Stores
  <2>2. Content(frames', <<e, v>>) = Content(frames, <<e, v>>)
    BY <2>1, Zenon DEF Unseen
  <2>3. QED BY <2>2, Zenon DEF ReadPage, Content
<1>2. QED BY <1>1, MemoryInvariant, PTL DEF Spec, CopyingIsInvisible

(* fork() gives a copy of the memory: every store is seen by the           *)
(* environment that made it and by no other, shared pages apart, whatever  *)
(* copies are still to be made (lib/fork.c:75-82, 174-189).                *)
THEOREM MemoryRefinement == Spec => ImplementsPrivateMemory
<1>1. IInv /\ TextInv /\ MInv /\ [Next]_vars => [Memory!Next]_(Memory!vars)
  BY RefineNext, Zenon
<1>2. QED BY <1>1, RefineInit, MemoryInvariant, PTL DEF Spec, ImplementsPrivateMemory, Memory!Spec
=============================================================================
