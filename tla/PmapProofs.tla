----------------------------- MODULE PmapProofs ------------------------------
(***************************************************************************)
(* Proofs about Pmap, for any number of pages, environments, virtual       *)
(* pages, page tables and CPUs.                                            *)
(*                                                                         *)
(* The argument counts places.  A place is an env_pgdir, a page directory  *)
(* entry or a page table entry; Target says which page it names.  Inside a *)
(* system call the counts are off by what the call has still to do, so the *)
(* invariant of a memory, Good, has two parameters: a page taken from the  *)
(* free list that nothing points to yet, and a page that has been counted  *)
(* but not yet entered.                                                    *)
(***************************************************************************)
EXTENDS Pmap, FiniteSetTheorems, TLAPS

Places == ({"dir"} \X Envs)
            \cup ({"pde"} \X (Envs \X Dirs))
            \cup ({"pte"} \X (Envs \X VAs))

Target(m, y) ==
  IF y[1] = "dir" THEN m.dir[y[2]]
  ELSE IF y[1] = "pde" THEN m.pde[y[2][1]][y[2][2]]
  ELSE m.pte[y[2][1]][y[2][2]].page

Refs(m, p) == Cardinality(Pointers(m, p))

(* The only pointer to a page directory or page table is the one in the    *)
(* env_pgdir or the page directory entry that makes it one.                *)
OnePlace(m) ==
  \A y, z \in Places :
    Target(m, y) \in Pages /\ Target(m, y) = Target(m, z) /\ y[1] # "pte" => y = z

Good(m, taken, counted) ==
  /\ m \in Memory
  /\ \A p \in Pages : m.ref[p] = Refs(m, p) + (IF p = counted THEN 1 ELSE 0)
  /\ \A p \in Pages : p \in m.free <=> m.ref[p] = 0 /\ p # taken
  /\ OnePlace(m)
-----------------------------------------------------------------------------
(* Counting.                                                               *)

LEMMA PointersAre ==
  ASSUME NEW m, NEW p
  PROVE  Pointers(m, p) = {y \in Places : Target(m, y) = p}
<1>1. ASSUME NEW y \in Pointers(m, p) PROVE y \in Places /\ Target(m, y) = p
  BY <1>1 DEF Pointers, Places, Target
<1>2. ASSUME NEW y \in Places, Target(m, y) = p PROVE y \in Pointers(m, p)
  BY <1>2 DEF Pointers, Places, Target
<1>3. QED BY <1>1, <1>2, Zenon

LEMMA PlacesFinite == IsFiniteSet(Places)
<1>1. IsFiniteSet(Envs \X Dirs) /\ IsFiniteSet(Envs \X VAs)
  BY FiniteAssumption, FS_Product, Zenon
<1>2. \A x : IsFiniteSet({x})
  BY FS_Singleton, Zenon
<1>3. /\ IsFiniteSet({"dir"} \X Envs)
      /\ IsFiniteSet({"pde"} \X (Envs \X Dirs))
      /\ IsFiniteSet({"pte"} \X (Envs \X VAs))
  BY <1>1, <1>2, FiniteAssumption, FS_Product, ZenonT(60)
<1>4. QED BY <1>3, FS_Union, ZenonT(60) DEF Places

LEMMA PointersFinite ==
  ASSUME NEW m, NEW p
  PROVE  /\ IsFiniteSet(Pointers(m, p))
         /\ Refs(m, p) \in Nat
         /\ Refs(m, p) <= Cardinality(Places)
         /\ Cardinality(Places) \in Nat
         /\ Refs(m, p) = 0 <=> \A y \in Places : Target(m, y) # p
<1>1. Pointers(m, p) \in SUBSET Places
  BY PointersAre, Zenon
<1>2. IsFiniteSet(Pointers(m, p)) /\ Refs(m, p) <= Cardinality(Places)
  BY <1>1, PlacesFinite, FS_Subset, Zenon DEF Refs
<1>3. Refs(m, p) \in Nat /\ Cardinality(Places) \in Nat
  BY <1>2, PlacesFinite, FS_CardinalityType, Zenon DEF Refs
<1>4. Refs(m, p) = 0 <=> Pointers(m, p) = {}
  BY <1>2, FS_EmptySet, Zenon DEF Refs
<1>5. QED BY <1>2, <1>3, <1>4, PointersAre, Zenon

(* Memories that name the same pages have the same counts.                 *)
LEMMA SamePlaces ==
  ASSUME NEW m, NEW n, \A y \in Places : Target(n, y) = Target(m, y)
  PROVE  /\ \A p : Refs(n, p) = Refs(m, p)
         /\ OnePlace(m) => OnePlace(n)
<1>1. ASSUME NEW p PROVE Pointers(n, p) = Pointers(m, p)
  BY PointersAre, Zenon
<1>2. OnePlace(m) => OnePlace(n)
  BY Zenon DEF OnePlace
<1>3. QED BY <1>1, <1>2, Zenon DEF Refs

LEMMA EnterPlace ==
  ASSUME NEW m, NEW n, NEW y \in Places, NEW p \in Pages,
         \A z \in Places \ {y} : Target(n, z) = Target(m, z),
         Target(m, y) = NoPage, Target(n, y) = p
  PROVE  /\ Refs(n, p) = Refs(m, p) + 1
         /\ \A q \in Pages \ {p} : Refs(n, q) = Refs(m, q)
<1> USE PageAssumption
<1>1. Pointers(n, p) = Pointers(m, p) \cup {y} /\ y \notin Pointers(m, p)
  BY PointersAre, Zenon
<1>2. IsFiniteSet(Pointers(m, p))
  BY PointersFinite, Zenon
<1>3. Refs(n, p) = Refs(m, p) + 1
  BY <1>1, <1>2, FS_AddElement DEF Refs
<1>4. ASSUME NEW q \in Pages \ {p} PROVE Pointers(n, q) = Pointers(m, q)
  BY PointersAre, Zenon
<1>5. QED BY <1>3, <1>4, Zenon DEF Refs

LEMMA ClearPlace ==
  ASSUME NEW m, NEW n, NEW y \in Places, NEW p \in Pages,
         \A z \in Places \ {y} : Target(n, z) = Target(m, z),
         Target(m, y) = p, Target(n, y) = NoPage
  PROVE  /\ Refs(n, p) = Refs(m, p) - 1
         /\ \A q \in Pages \ {p} : Refs(n, q) = Refs(m, q)
         /\ OnePlace(m) => OnePlace(n)
<1> USE PageAssumption
<1>1. Pointers(n, p) = Pointers(m, p) \ {y} /\ y \in Pointers(m, p)
  BY PointersAre, Zenon
<1>2. IsFiniteSet(Pointers(m, p))
  BY PointersFinite, Zenon
<1>3. Refs(n, p) = Refs(m, p) - 1
  BY <1>1, <1>2, FS_RemoveElement, ZenonT(60) DEF Refs
<1>4. ASSUME NEW q \in Pages \ {p} PROVE Pointers(n, q) = Pointers(m, q)
  BY PointersAre, Zenon
<1>5. OnePlace(m) => OnePlace(n)
  BY Zenon DEF OnePlace
<1>6. QED BY <1>3, <1>4, <1>5, Zenon DEF Refs
-----------------------------------------------------------------------------
(* The operators of the memory.                                            *)

LEMMA Modulo ==
  ASSUME RefLimit \in Nat, NEW a \in Nat, a < RefLimit
  PROVE  a % RefLimit = a
OBVIOUS

LEMMA RefType ==
  ASSUME NEW r \in [Pages -> 0 .. RefLimit - 1], NEW p \in Pages
  PROVE  /\ [r EXCEPT ![p] = (@ + 1) % RefLimit] \in [Pages -> 0 .. RefLimit - 1]
         /\ [r EXCEPT ![p] = (@ - 1) % RefLimit] \in [Pages -> 0 .. RefLimit - 1]
<1>1. \A a \in Int : a % RefLimit \in 0 .. RefLimit - 1
  BY PageAssumption
<1>2. r[p] + 1 \in Int /\ r[p] - 1 \in Int
  BY PageAssumption
<1>3. QED BY <1>1, <1>2, Zenon

(* A page from the free list becomes a page directory or a page table.     *)
LEMMA TakeTable ==
  ASSUME NEW m, NEW taken, Good(m, taken, NoPage),
         NEW p \in m.free, NEW y \in Places, NEW n \in Memory,
         n.free = m.free \ {p},
         n.ref = [m.ref EXCEPT ![p] = (@ + 1) % RefLimit],
         Target(m, y) = NoPage, Target(n, y) = p,
         \A z \in Places \ {y} : Target(n, z) = Target(m, z)
  PROVE  Good(n, taken, NoPage)
<1> USE PageAssumption
<1>1. /\ p \in Pages /\ m.ref \in [Pages -> 0 .. RefLimit - 1]
      /\ m.ref[p] = 0 /\ Refs(m, p) = 0 /\ p # taken
  BY PointersFinite DEF Good, Memory
<1>2. RefLimit \in Nat /\ 1 < RefLimit
  OBVIOUS
<1>3. n.ref[p] = 1 /\ \A q \in Pages \ {p} : n.ref[q] = m.ref[q]
  BY <1>1, <1>2, Modulo
<1>4. Refs(n, p) = 1 /\ \A q \in Pages \ {p} : Refs(n, q) = Refs(m, q)
  BY <1>1, EnterPlace
<1>5. \A q \in Pages : n.ref[q] = Refs(n, q) + (IF q = NoPage THEN 1 ELSE 0)
  BY <1>3, <1>4 DEF Good
<1>6. \A q \in Pages : q \in n.free <=> n.ref[q] = 0 /\ q # taken
  BY <1>1, <1>3 DEF Good
<1>7. \A z \in Places : Target(m, z) # p
  BY <1>1, PointersFinite
<1>8. OnePlace(n)
  BY <1>1, <1>7, Zenon DEF OnePlace, Good
<1>9. QED BY <1>5, <1>6, <1>8, Zenon DEF Good

(* No page directory or page table, as far as the place tells.             *)
DataPage(m, p) == \A y \in Places : Target(m, y) = p => y[1] = "pte"

LEMMA WalkGood ==
  ASSUME NEW m, NEW taken, Good(m, taken, NoPage),
         NEW e \in Envs, NEW va \in VAs, NEW n \in pgdir_walk(m, e, va)
  PROVE  /\ Good(n, taken, NoPage)
         /\ n.dir = m.dir /\ n.pte = m.pte /\ n.free \subseteq m.free
         /\ \A p \in Pages \ m.free :
              n.ref[p] = m.ref[p] /\ (DataPage(m, p) => DataPage(n, p))
<1> USE PageAssumption, AddressAssumption
<1>1. CASE m.pde[e][PDX[va]] # NoPage
  BY <1>1, Zenon DEF pgdir_walk
<1>2. CASE m.pde[e][PDX[va]] = NoPage
  <2> DEFINE d == PDX[va]
             y == <<"pde", <<e, d>>>>
  <2>1. PICK p \in m.free :
          n = [page_incref(page_alloc(m, p), p) EXCEPT !.pde[e][d] = p]
    BY <1>2, Zenon DEF pgdir_walk
  <2>2. m \in Memory /\ p \in Pages /\ d \in Dirs
    BY Zenon DEF Good, Memory
  <2>3. /\ n.free = m.free \ {p}
        /\ n.ref = [m.ref EXCEPT ![p] = (@ + 1) % RefLimit]
        /\ n.dir = m.dir
        /\ n.pde = [m.pde EXCEPT ![e] = [m.pde[e] EXCEPT ![d] = p]]
        /\ n.pte = m.pte
        /\ n = [free |-> n.free, ref |-> n.ref, dir |-> n.dir,
                pde |-> n.pde, pte |-> n.pte]
    BY <2>1, <2>2, ZenonT(60) DEF page_incref, page_alloc, Memory
  <2>4. n \in Memory
    <3>1. n.ref \in [Pages -> 0 .. RefLimit - 1]
      BY <2>2, <2>3, RefType DEF Memory
    <3>2. /\ n.free \in SUBSET Pages
          /\ n.pde \in [Envs -> [Dirs -> Pages \cup {NoPage}]]
      BY <2>2, <2>3 DEF Memory
    <3>3. QED BY <2>2, <2>3, <3>1, <3>2, ZenonT(60) DEF Memory
  <2>5. y \in Places /\ Target(m, y) = NoPage /\ Target(n, y) = p
    BY <1>2, <2>2, <2>3 DEF Places, Target, Memory
  <2>6. \A z \in Places \ {y} : Target(n, z) = Target(m, z)
    BY <2>2, <2>3 DEF Places, Target, Memory
  <2>7. Good(n, taken, NoPage)
    BY <2>3, <2>4, <2>5, <2>6, TakeTable, Zenon
  <2>8. \A q \in Pages \ m.free : DataPage(m, q) => DataPage(n, q)
    BY <2>5, <2>6, Zenon DEF DataPage
  <2>9. \A q \in Pages \ m.free : n.ref[q] = m.ref[q]
    BY <2>2, <2>3, Zenon DEF Memory
  <2>10. QED BY <2>3, <2>7, <2>8, <2>9, Zenon
<1>3. QED BY <1>1, <1>2, Zenon

LEMMA SetupGood ==
  ASSUME NEW m, Good(m, NoPage, NoPage),
         NEW e \in Envs, m.dir[e] = NoPage, NEW p \in m.free,
         NEW n, n = env_setup_vm(m, e, p)
  PROVE  /\ Good(n, NoPage, NoPage)
         /\ n.dir = [m.dir EXCEPT ![e] = p] /\ n.pte = m.pte
         /\ n.free = m.free \ {p}
<1> USE PageAssumption
<1> DEFINE y == <<"dir", e>>
<1>1. m \in Memory /\ p \in Pages
  BY Zenon DEF Good, Memory
<1>2. /\ n.free = m.free \ {p}
      /\ n.ref = [m.ref EXCEPT ![p] = (@ + 1) % RefLimit]
      /\ n.dir = [m.dir EXCEPT ![e] = p]
      /\ n.pde = m.pde /\ n.pte = m.pte
      /\ n = [free |-> n.free, ref |-> n.ref, dir |-> n.dir,
              pde |-> n.pde, pte |-> n.pte]
  BY <1>1, ZenonT(60) DEF env_setup_vm, page_incref, page_alloc, Memory
<1>3. n \in Memory
  <2>1. n.ref \in [Pages -> 0 .. RefLimit - 1]
    BY <1>1, <1>2, RefType DEF Memory
  <2>2. n.free \in SUBSET Pages /\ n.dir \in [Envs -> Pages \cup {NoPage}]
    BY <1>1, <1>2 DEF Memory
  <2>3. QED BY <1>1, <1>2, <2>1, <2>2, ZenonT(60) DEF Memory
<1>4. y \in Places /\ Target(m, y) = NoPage /\ Target(n, y) = p
  BY <1>1, <1>2, Zenon DEF Places, Target, Memory
<1>5. \A z \in Places \ {y} : Target(n, z) = Target(m, z)
  BY <1>1, <1>2 DEF Places, Target, Memory
<1>6. QED BY <1>2, <1>3, <1>4, <1>5, TakeTable

LEMMA IncrefGood ==
  ASSUME NEW m, NEW p \in Pages, p \notin m.free, m.ref[p] + 1 < RefLimit,
         NEW taken \in {p, NoPage}, Good(m, taken, NoPage),
         NEW n, n = page_incref(m, p)
  PROVE  /\ Good(n, NoPage, p)
         /\ n.dir = m.dir /\ n.pte = m.pte
         /\ DataPage(m, p) => DataPage(n, p)
<1> USE PageAssumption
<1>1. m \in Memory
  BY Zenon DEF Good
<1>2. /\ n.free = m.free
      /\ n.ref = [m.ref EXCEPT ![p] = (@ + 1) % RefLimit]
      /\ n.dir = m.dir /\ n.pde = m.pde /\ n.pte = m.pte
      /\ n = [free |-> n.free, ref |-> n.ref, dir |-> n.dir,
              pde |-> n.pde, pte |-> n.pte]
  BY <1>1, ZenonT(60) DEF page_incref, Memory
<1>3. n \in Memory
  <2>1. n.ref \in [Pages -> 0 .. RefLimit - 1]
    BY <1>1, <1>2, RefType DEF Memory
  <2>2. QED BY <1>1, <1>2, <2>1, ZenonT(60) DEF Memory
<1>4. Refs(m, p) \in Nat /\ Refs(m, p) + 1 \in Nat
  BY PointersFinite
<1>5. /\ m.ref[p] = Refs(m, p) /\ m.ref \in [Pages -> 0 .. RefLimit - 1]
      /\ Refs(m, p) + 1 < RefLimit
  <2>1. m.ref[p] = Refs(m, p) + (IF p = NoPage THEN 1 ELSE 0)
    BY Zenon DEF Good
  <2>2. QED BY <1>1, <1>4, <2>1 DEF Memory
<1>6. n.ref[p] = Refs(m, p) + 1 /\ \A q \in Pages \ {p} : n.ref[q] = m.ref[q]
  BY <1>2, <1>4, <1>5, Modulo, Zenon
<1>7. \A y \in Places : Target(n, y) = Target(m, y)
  BY <1>2, Zenon DEF Target
<1>8. OnePlace(n) /\ \A q : Refs(n, q) = Refs(m, q)
  BY <1>7, SamePlaces, Zenon DEF Good
<1>9. \A q \in Pages : n.ref[q] = Refs(n, q) + (IF q = p THEN 1 ELSE 0)
  BY <1>4, <1>6, <1>8, PointersFinite, Zenon DEF Good
<1>10. \A q \in Pages : q \in n.free <=> n.ref[q] = 0 /\ q # NoPage
  BY <1>2, <1>4, <1>6 DEF Good
<1>11. DataPage(m, p) => DataPage(n, p)
  BY <1>7, Zenon DEF DataPage
<1>12. QED BY <1>2, <1>3, <1>8, <1>9, <1>10, <1>11, Zenon DEF Good

LEMMA RemoveGood ==
  ASSUME NEW m, NEW counted \in Pages \cup {NoPage}, Good(m, NoPage, counted),
         NEW e \in Envs, NEW va \in VAs, NEW n, n = page_remove(m, e, va)
  PROVE  /\ Good(n, NoPage, counted)
         /\ n.dir = m.dir
         /\ \/ n.pte = [m.pte EXCEPT ![e][va] = NoPte]
            \/ n.pte = m.pte /\ m.pte[e][va].page = NoPage
         /\ n.pte[e][va].page = NoPage
         /\ \A p \in Pages : DataPage(m, p) => DataPage(n, p)
<1> USE PageAssumption
<1>1. CASE m.pte[e][va].page = NoPage
  BY <1>1, Zenon DEF page_remove
<1>2. CASE m.pte[e][va].page # NoPage
  <2> DEFINE y == <<"pte", <<e, va>>>>
             p == m.pte[e][va].page
             r == (m.ref[p] - 1) % RefLimit
  <2>1. m \in Memory /\ p \in Pages
    BY <1>2, SMTT(60) DEF Good, Memory, PTE
  <2>2. /\ n.free = IF r = 0 THEN m.free \cup {p} ELSE m.free
        /\ n.ref = [m.ref EXCEPT ![p] = (@ - 1) % RefLimit]
        /\ n.dir = m.dir /\ n.pde = m.pde
        /\ n.pte = [m.pte EXCEPT ![e] = [m.pte[e] EXCEPT ![va] = NoPte]]
        /\ n = [free |-> n.free, ref |-> n.ref, dir |-> n.dir,
                pde |-> n.pde, pte |-> n.pte]
    BY <1>2, <2>1, ZenonT(60) DEF page_remove, page_decref, page_free, Memory
  <2> HIDE DEF p
  <2>3. n \in Memory
    <3>1. n.ref \in [Pages -> 0 .. RefLimit - 1]
      BY <2>1, <2>2, RefType DEF Memory
    <3>2. n.free \in SUBSET Pages /\ n.pte \in [Envs -> [VAs -> PTE]]
      BY <2>1, <2>2 DEF Memory, PTE, NoPte
    <3>3. QED BY <2>1, <2>2, <3>1, <3>2, ZenonT(60) DEF Memory
  <2>4. /\ y \in Places /\ Target(m, y) = p /\ Target(n, y) = NoPage
        /\ n.pte[e][va].page = NoPage
    <3>1. y \in Places /\ y[1] = "pte" /\ y[2][1] = e /\ y[2][2] = va
      BY Zenon DEF Places
    <3>2. Target(m, y) = p
      BY <3>1, Zenon DEF Target, p
    <3>3. n.pte[e][va] = NoPte
      BY <2>1, <2>2 DEF Memory
    <3>4. QED BY <3>1, <3>2, <3>3 DEF Target, NoPte
  <2>5. \A z \in Places \ {y} : Target(n, z) = Target(m, z)
    BY <2>1, <2>2 DEF Places, Target, Memory
  <2>6. /\ Refs(n, p) = Refs(m, p) - 1
        /\ \A q \in Pages \ {p} : Refs(n, q) = Refs(m, q)
        /\ OnePlace(n)
    BY <2>1, <2>4, <2>5, ClearPlace DEF Good
  <2>7. /\ m.ref[p] \in 1 .. RefLimit - 1
        /\ m.ref[p] = Refs(m, p) + (IF p = counted THEN 1 ELSE 0)
    <3>1. Refs(m, p) \in Nat /\ Refs(m, p) # 0
      BY <2>4, PointersFinite
    <3>2. QED BY <2>1, <3>1 DEF Good, Memory
  <2>8. /\ n.ref[p] = m.ref[p] - 1 /\ r = m.ref[p] - 1
        /\ \A q \in Pages \ {p} : n.ref[q] = m.ref[q]
    <3>1. m.ref[p] - 1 \in Nat /\ m.ref[p] - 1 < RefLimit
      BY <2>7
    <3>2. r = m.ref[p] - 1
      BY <3>1, Modulo, Zenon
    <3>3. m.ref \in [Pages -> 0 .. RefLimit - 1]
      BY <2>1, Zenon DEF Memory
    <3>4. QED BY <2>1, <2>2, <3>2, <3>3, Zenon
  <2>9. \A q \in Pages : n.ref[q] = Refs(n, q) + (IF q = counted THEN 1 ELSE 0)
    <3>1. Refs(m, p) \in Nat
      BY PointersFinite, Zenon
    <3>2. QED BY <2>6, <2>7, <2>8, <3>1 DEF Good
  <2>10. \A q \in Pages : q \in n.free <=> n.ref[q] = 0 /\ q # NoPage
    BY <2>1, <2>2, <2>7, <2>8 DEF Good
  <2>11. \A q \in Pages : DataPage(m, q) => DataPage(n, q)
    BY <2>4, <2>5, Zenon DEF DataPage
  <2>12. QED BY <2>2, <2>3, <2>4, <2>6, <2>9, <2>10, <2>11, Zenon DEF Good
<1>3. QED BY <1>1, <1>2, Zenon

LEMMA SetPteGood ==
  ASSUME NEW m, NEW p \in Pages, Good(m, NoPage, p), DataPage(m, p),
         NEW e \in Envs, NEW va \in VAs, m.pte[e][va].page = NoPage,
         NEW w \in BOOLEAN, NEW n, n = set_pte(m, e, va, p, w)
  PROVE  /\ Good(n, NoPage, NoPage)
         /\ n.dir = m.dir
         /\ n.pte = [m.pte EXCEPT ![e][va] = [page |-> p, w |-> w]]
<1> USE PageAssumption
<1> DEFINE y == <<"pte", <<e, va>>>>
<1>1. m \in Memory
  BY Zenon DEF Good
<1>2. /\ n.free = m.free /\ n.ref = m.ref
      /\ n.dir = m.dir /\ n.pde = m.pde
      /\ n.pte = [m.pte EXCEPT ![e] = [m.pte[e] EXCEPT ![va] = [page |-> p, w |-> w]]]
      /\ n = [free |-> n.free, ref |-> n.ref, dir |-> n.dir,
              pde |-> n.pde, pte |-> n.pte]
  BY <1>1, ZenonT(60) DEF set_pte, Memory
<1>3. n \in Memory
  <2>1. n.pte \in [Envs -> [VAs -> PTE]]
    BY <1>1, <1>2 DEF Memory, PTE
  <2>2. QED BY <1>1, <1>2, <2>1, ZenonT(60) DEF Memory
<1>4. y \in Places /\ Target(m, y) = NoPage /\ Target(n, y) = p
  BY <1>1, <1>2 DEF Places, Target, Memory
<1>5. \A z \in Places \ {y} : Target(n, z) = Target(m, z)
  BY <1>1, <1>2 DEF Places, Target, Memory
<1>6. /\ Refs(n, p) = Refs(m, p) + 1
      /\ \A q \in Pages \ {p} : Refs(n, q) = Refs(m, q)
  BY <1>4, <1>5, EnterPlace
<1>7. \A q \in Pages : n.ref[q] = Refs(n, q) + (IF q = NoPage THEN 1 ELSE 0)
  BY <1>2, <1>6, PointersFinite DEF Good
<1>8. OnePlace(n)
  BY <1>4, <1>5 DEF OnePlace, DataPage, Good
<1>9. QED BY <1>2, <1>3, <1>7, <1>8, Zenon DEF Good

LEMMA InsertGood ==
  ASSUME NEW m, NEW p \in Pages, p \notin m.free, DataPage(m, p),
         m.ref[p] + 1 < RefLimit,
         NEW taken \in {p, NoPage}, Good(m, taken, NoPage),
         NEW e \in Envs, NEW va \in VAs, NEW w \in BOOLEAN,
         NEW n \in page_insert(m, e, p, va, w)
  PROVE  /\ Good(n, NoPage, NoPage)
         /\ n.dir = m.dir
         /\ n.pte[e][va] = [page |-> p, w |-> w]
         /\ \A x \in Envs, v \in VAs : x # e \/ v # va => n.pte[x][v] = m.pte[x][v]
<1> USE PageAssumption
<1>1. PICK n1 \in pgdir_walk(m, e, va) :
        n = set_pte(page_remove(page_incref(n1, p), e, va), e, va, p, w)
  BY Zenon DEF page_insert
<1> DEFINE n2 == page_incref(n1, p)
           n3 == page_remove(n2, e, va)
<1>2. /\ Good(n1, taken, NoPage) /\ p \notin n1.free /\ DataPage(n1, p)
      /\ n1.dir = m.dir /\ n1.pte = m.pte /\ n1.ref[p] + 1 < RefLimit
  BY WalkGood, Zenon
<1>3. /\ Good(n2, NoPage, p) /\ DataPage(n2, p)
      /\ n2.dir = m.dir /\ n2.pte = m.pte
  BY <1>2, IncrefGood
<1> HIDE DEF n2
<1>4. /\ Good(n3, NoPage, p) /\ DataPage(n3, p) /\ n3.pte[e][va].page = NoPage
      /\ n3.dir = m.dir
      /\ n3.pte = m.pte \/ n3.pte = [m.pte EXCEPT ![e][va] = NoPte]
  BY <1>3, RemoveGood, SMTT(60)
<1> HIDE DEF n3
<1>5. n = set_pte(n3, e, va, p, w)
  BY <1>1, Zenon DEF n2, n3
<1>6. /\ Good(n, NoPage, NoPage) /\ n.dir = m.dir
      /\ n.pte = [n3.pte EXCEPT ![e][va] = [page |-> p, w |-> w]]
  BY <1>4, <1>5, SetPteGood
<1>7. m.pte \in [Envs -> [VAs -> PTE]] /\ n3.pte \in [Envs -> [VAs -> PTE]]
  BY <1>4, Zenon DEF Good, Memory
<1>8. QED BY <1>4, <1>6, <1>7

(* The places of the address space of e.                                   *)
Own(e) == {y \in Places : IF y[1] = "dir" THEN y[2] = e ELSE y[2][1] = e}

Tagged(t, e, S) == {<<t, <<e, s>>>> : s \in S}

LEMMA TaggedCount ==
  ASSUME NEW t, NEW e, NEW S, IsFiniteSet(S)
  PROVE  /\ IsFiniteSet(Tagged(t, e, S))
         /\ Cardinality(Tagged(t, e, S)) = Cardinality(S)
<1> DEFINE T == {<<t, <<e, s>>>> : s \in S}
<1> DEFINE f == [s \in S |-> <<t, <<e, s>>>>]
<1>1. f \in Bijection(S, T)
  <2>1. f \in [S -> T]
    BY Zenon
  <2>2. \A a, b \in S : f[a] = f[b] => a = b
    BY Zenon
  <2>3. \A y \in T : \E s \in S : f[s] = y
    BY Zenon
  <2> HIDE DEF f
  <2>4. DOMAIN f = S
    BY <2>1, Zenon
  <2>5. IsInjective(f)
    BY <2>2, <2>4, Zenon DEF IsInjective
  <2>6. QED BY <2>1, <2>3, <2>5, Zenon DEF Bijection, Injection, Surjection
<1>2. ExistsBijection(S, T)
  BY <1>1, Zenon DEF ExistsBijection
<1>3. QED BY <1>2, FS_Bijection, Zenon DEF Tagged

LEMMA HeldIs ==
  ASSUME NEW m, NEW p, NEW e \in Envs
  PROVE  Held(m, e, p) = Cardinality(Pointers(m, p) \cap Own(e))
<1> DEFINE D == {d \in Dirs : m.pde[e][d] = p}
           V == {va \in VAs : m.pte[e][va].page = p}
           a == IF m.dir[e] = p THEN {<<"dir", e>>} ELSE {}
           b == Tagged("pde", e, D)
           c == Tagged("pte", e, V)
<1>1. IsFiniteSet(D) /\ IsFiniteSet(V)
  BY FiniteAssumption, FS_Subset, Zenon
<1>2. /\ IsFiniteSet(b) /\ Cardinality(b) = Cardinality(D)
      /\ IsFiniteSet(c) /\ Cardinality(c) = Cardinality(V)
  BY <1>1, TaggedCount, Zenon
<1>3. IsFiniteSet(a) /\ Cardinality(a) = IF m.dir[e] = p THEN 1 ELSE 0
  BY FS_Singleton, FS_EmptySet, ZenonT(60)
<1>4. a \cap b = {} /\ (a \cup b) \cap c = {}
  BY DEF Tagged
<1>5. Pointers(m, p) \cap Own(e) = (a \cup b) \cup c
  <2>1. ASSUME NEW y \in Pointers(m, p) \cap Own(e) PROVE y \in (a \cup b) \cup c
    BY <2>1 DEF Pointers, Own, Tagged
  <2>2. ASSUME NEW y \in (a \cup b) \cup c PROVE y \in Pointers(m, p) \cap Own(e)
    BY <2>2 DEF Pointers, Own, Places, Tagged
  <2>3. QED BY <2>1, <2>2, Zenon
<1>6. Held(m, e, p) = Cardinality(a) + Cardinality(b) + Cardinality(c)
  BY <1>2, <1>3, Zenon DEF Held
<1> HIDE DEF a, b, c
<1>7. Cardinality(a) \in Nat /\ Cardinality(b) \in Nat /\ Cardinality(c) \in Nat
  BY <1>2, <1>3, FS_CardinalityType, Zenon
<1>8. Cardinality({}) = 0
  BY FS_EmptySet, Zenon
<1>9. /\ IsFiniteSet(a \cup b)
      /\ Cardinality(a \cup b) = Cardinality(a) + Cardinality(b) - Cardinality({})
  BY <1>2, <1>3, <1>4, FS_Union
<1>10. Cardinality(Pointers(m, p) \cap Own(e))
         = Cardinality(a \cup b) + Cardinality(c) - Cardinality({})
  BY <1>2, <1>4, <1>5, <1>9, FS_Union
<1> HIDE DEF D, V
<1>11. QED BY <1>6, <1>7, <1>8, <1>9, <1>10

LEMMA FreeGood ==
  ASSUME NEW m, Good(m, NoPage, NoPage), NEW e \in Envs, NEW n, n = env_free(m, e)
  PROVE  /\ Good(n, NoPage, NoPage)
         /\ n.dir = [m.dir EXCEPT ![e] = NoPage]
         /\ n.pte = [m.pte EXCEPT ![e] = NoMappings]
<1> USE PageAssumption
<1>1. m \in Memory
  BY Zenon DEF Good
<1>2. /\ n.free = m.free \cup {p \in Pages : m.ref[p] \in 1 .. Held(m, e, p)}
      /\ n.ref = [p \in Pages |-> (m.ref[p] - Held(m, e, p)) % RefLimit]
      /\ n.dir = [m.dir EXCEPT ![e] = NoPage]
      /\ n.pde = [m.pde EXCEPT ![e] = NoTables]
      /\ n.pte = [m.pte EXCEPT ![e] = NoMappings]
      /\ n = [free |-> n.free, ref |-> n.ref, dir |-> n.dir,
              pde |-> n.pde, pte |-> n.pte]
  BY <1>1, ZenonT(60) DEF env_free, Memory
<1>3. /\ \A y \in Own(e) : Target(n, y) = NoPage
      /\ \A y \in Places \ Own(e) : Target(n, y) = Target(m, y)
  BY <1>1, <1>2 DEF Places, Own, Target, Memory, NoTables, NoMappings, NoPte
<1>4. ASSUME NEW p \in Pages
      PROVE  /\ Held(m, e, p) \in Nat /\ Held(m, e, p) <= m.ref[p]
             /\ Refs(n, p) = m.ref[p] - Held(m, e, p)
             /\ m.ref[p] \in Nat /\ m.ref[p] < RefLimit
  <2>1. Pointers(n, p) = Pointers(m, p) \ Own(e)
    BY <1>3, PointersAre, Zenon DEF Own
  <2>2. IsFiniteSet(Pointers(m, p)) /\ Refs(m, p) \in Nat
    BY PointersFinite, Zenon
  <2>3. Refs(n, p) = Refs(m, p) - Cardinality(Pointers(m, p) \cap Own(e))
    BY <2>1, <2>2, FS_Difference, ZenonT(60) DEF Refs
  <2>4. Refs(n, p) = Refs(m, p) - Held(m, e, p)
    BY <2>3, HeldIs, Zenon
  <2>5. m.ref[p] = Refs(m, p) + (IF p = NoPage THEN 1 ELSE 0)
    BY Zenon DEF Good
  <2>6. m.ref[p] = Refs(m, p)
    BY <2>2, <2>5
  <2>7. Held(m, e, p) \in Nat /\ Held(m, e, p) <= Refs(m, p)
    <3>1. /\ IsFiniteSet(Pointers(m, p) \cap Own(e))
          /\ Cardinality(Pointers(m, p) \cap Own(e)) <= Refs(m, p)
      BY <2>2, FS_Intersection, Zenon DEF Refs
    <3>2. QED BY <3>1, HeldIs, FS_CardinalityType
  <2>8. m.ref[p] \in 0 .. RefLimit - 1
    BY <1>1, Zenon DEF Memory
  <2>9. QED BY <2>4, <2>6, <2>7, <2>8
<1>5. ASSUME NEW p \in Pages
      PROVE  n.ref[p] = m.ref[p] - Held(m, e, p) /\ n.ref[p] = Refs(n, p)
  <2>1. m.ref[p] - Held(m, e, p) \in Nat /\ m.ref[p] - Held(m, e, p) < RefLimit
    BY <1>4
  <2>2. n.ref[p] = m.ref[p] - Held(m, e, p)
    BY <1>2, <2>1, Modulo, Zenon
  <2>3. QED BY <1>4, <2>2, Zenon
<1>6. n \in Memory
  <2>1. n.ref \in [Pages -> 0 .. RefLimit - 1]
    BY <1>2, <1>4, <1>5
  <2>2. n.free \in SUBSET Pages /\ n.dir \in [Envs -> Pages \cup {NoPage}]
    BY <1>1, <1>2 DEF Memory
  <2>3. /\ n.pde \in [Envs -> [Dirs -> Pages \cup {NoPage}]]
        /\ n.pte \in [Envs -> [VAs -> PTE]]
    BY <1>1, <1>2 DEF Memory, NoTables, NoMappings, NoPte, PTE
  <2>4. QED BY <1>2, <2>1, <2>2, <2>3, Zenon DEF Memory
<1>7. \A p \in Pages : p \in n.free <=> n.ref[p] = 0 /\ p # NoPage
  <2>1. ASSUME NEW p \in Pages PROVE p \in n.free <=> n.ref[p] = 0
    <3>1. p \in m.free <=> m.ref[p] = 0
      BY Zenon DEF Good
    <3>2. QED BY <1>2, <1>4, <1>5, <3>1
  <2>2. QED BY <2>1, Zenon
<1>8. OnePlace(n)
  BY <1>3, Zenon DEF OnePlace, Good
<1>9. \A p \in Pages : n.ref[p] = Refs(n, p) + (IF p = NoPage THEN 1 ELSE 0)
  BY <1>5, PointersFinite
<1>10. QED BY <1>2, <1>6, <1>7, <1>8, <1>9, Zenon DEF Good
-----------------------------------------------------------------------------
(* The memory before and after a system call about the address space of e. *)

KeepsReadOnly(m, n) ==
  \A p \in Pages : Mapped(m, p) /\ ~ Writable(m, p) => ~ Writable(n, p)

MemStep(m, n, e) ==
  /\ Good(n, NoPage, NoPage)
  /\ KeepsReadOnly(m, n)
  /\ \A x \in Envs \ {e} : n.pte[x] = m.pte[x] /\ n.dir[x] = m.dir[x]

LEMMA FreeNotMapped ==
  ASSUME NEW m, NEW taken, Good(m, taken, NoPage), NEW p \in m.free
  PROVE  p \in Pages /\ \A y \in Places : Target(m, y) # p
<1>1. p \in Pages /\ m.ref[p] = 0
  BY Zenon DEF Good, Memory
<1>2. m.ref[p] = Refs(m, p) + (IF p = NoPage THEN 1 ELSE 0)
  BY <1>1, Zenon DEF Good
<1>3. Refs(m, p) = 0
  BY <1>1, <1>2, PageAssumption, PointersFinite
<1>4. QED BY <1>1, <1>3, PointersFinite, Zenon

(* A page that is mapped is no table: that would be a second pointer.      *)
LEMMA MappedIsData ==
  ASSUME NEW m, Good(m, NoPage, NoPage), NEW e \in Envs, NEW va \in VAs,
         NEW p, p = m.pte[e][va].page, p # NoPage
  PROVE  p \in Pages /\ p \notin m.free /\ DataPage(m, p)
<1> DEFINE y == <<"pte", <<e, va>>>>
<1>1. p \in Pages
  BY DEF Good, Memory, PTE
<1>2. y \in Places /\ Target(m, y) = p /\ y[1] = "pte"
  BY Zenon DEF Places, Target
<1>3. p \notin m.free
  BY <1>2, FreeNotMapped, Zenon
<1>4. DataPage(m, p)
  BY <1>1, <1>2, Zenon DEF DataPage, OnePlace, Good
<1>5. QED BY <1>1, <1>3, <1>4, Zenon

LEMMA MapStep ==
  ASSUME NEW m, Good(m, NoPage, NoPage), \A q \in Pages : m.ref[q] + 1 < RefLimit,
         NEW s \in Envs, NEW sva \in VAs, NEW w \in BOOLEAN,
         m.pte[s][sva].page # NoPage, w => m.pte[s][sva].w,
         NEW e \in Envs, NEW va \in VAs,
         NEW n \in page_insert(m, e, m.pte[s][sva].page, va, w)
  PROVE  MemStep(m, n, e) /\ n.dir = m.dir
<1> DEFINE p == m.pte[s][sva].page
<1>1. p \in Pages /\ p \notin m.free /\ DataPage(m, p)
  BY MappedIsData, Zenon
<1>2. /\ Good(n, NoPage, NoPage) /\ n.dir = m.dir
      /\ n.pte[e][va] = [page |-> p, w |-> w]
      /\ \A x \in Envs, v \in VAs : x # e \/ v # va => n.pte[x][v] = m.pte[x][v]
  BY <1>1, InsertGood
<1>3. m.pte \in [Envs -> [VAs -> PTE]] /\ n.pte \in [Envs -> [VAs -> PTE]]
  BY <1>2, Zenon DEF Good, Memory
<1>4. \A x \in Envs \ {e} : n.pte[x] = m.pte[x]
  BY <1>2, <1>3
<1>5. w => m.pte[s][sva] = [page |-> p, w |-> TRUE]
  BY <1>3, ZenonT(60) DEF PTE
<1>6. ASSUME NEW q \in Pages, Writable(n, q) PROVE Writable(m, q)
  <2>1. PICK x \in Envs, v \in VAs : n.pte[x][v] = [page |-> q, w |-> TRUE]
    BY <1>6, Zenon DEF Writable
  <2>2. CASE x = e /\ v = va
    <3> HIDE DEF p
    <3>1. [page |-> p, w |-> w] = [page |-> q, w |-> TRUE]
      BY <1>2, <2>1, <2>2, Zenon
    <3>2. p = q /\ w = TRUE
      BY <3>1, Zenon
    <3>3. m.pte[s][sva] = [page |-> q, w |-> TRUE]
      BY <1>5, <3>2, Zenon
    <3>4. QED BY <3>3, Zenon DEF Writable
  <2>3. CASE x # e \/ v # va
    <3>1. m.pte[x][v] = [page |-> q, w |-> TRUE]
      BY <1>2, <2>1, <2>3, Zenon
    <3>2. QED BY <3>1, Zenon DEF Writable
  <2>4. QED BY <2>2, <2>3, Zenon
<1>7. QED BY <1>2, <1>4, <1>6, Zenon DEF MemStep, KeepsReadOnly

LEMMA AllocStep ==
  ASSUME NEW m, Good(m, NoPage, NoPage), NEW p \in m.free,
         NEW e \in Envs, NEW va \in VAs, NEW w \in BOOLEAN, NEW n,
         NEW k, k = page_alloc(m, p),
         n = page_free(k, p) \/ n \in page_insert(k, e, p, va, w)
  PROVE  MemStep(m, n, e) /\ n.dir = m.dir
<1> USE PageAssumption
<1>1. m \in Memory /\ p \in Pages /\ \A y \in Places : Target(m, y) # p
  BY FreeNotMapped, ZenonT(60) DEF Good
<1>2. /\ k.free = m.free \ {p} /\ k.ref = m.ref /\ k.dir = m.dir
      /\ k.pde = m.pde /\ k.pte = m.pte /\ k \in Memory
  <2>1. /\ k.free = m.free \ {p} /\ k.ref = m.ref /\ k.dir = m.dir
        /\ k.pde = m.pde /\ k.pte = m.pte
        /\ k = [free |-> k.free, ref |-> k.ref, dir |-> k.dir,
                pde |-> k.pde, pte |-> k.pte]
    BY <1>1, ZenonT(60) DEF page_alloc, Memory
  <2>2. m.free \ {p} \in SUBSET Pages
    BY <1>1, Zenon DEF Memory
  <2>3. QED BY <1>1, <2>1, <2>2, ZenonT(60) DEF Memory
<1>3. page_free(k, p) = m
  <2>1. (m.free \ {p}) \cup {p} = m.free
    BY Zenon
  <2>2. page_free(k, p) = [m EXCEPT !.free = (m.free \ {p}) \cup {p}]
    BY <1>1, ZenonT(60) DEF page_free, page_alloc, Memory
  <2>3. QED BY <1>1, <2>1, <2>2, Zenon DEF Memory
<1>4. \A y \in Places : Target(k, y) = Target(m, y)
  BY <1>2, Zenon DEF Target
<1>5. (\A q : Refs(k, q) = Refs(m, q)) /\ OnePlace(k)
  BY <1>4, SamePlaces, Zenon DEF Good
<1>6. m.ref[p] = 0
  BY Zenon DEF Good, Memory
<1>7. Good(k, p, NoPage)
  BY <1>1, <1>2, <1>5, <1>6, Zenon DEF Good
<1>8. CASE n = page_free(k, p)
  BY <1>3, <1>8, Zenon DEF MemStep, KeepsReadOnly
<1>9. CASE n \in page_insert(k, e, p, va, w)
  <2>1. DataPage(k, p) /\ p \notin k.free /\ k.ref[p] = 0
    BY <1>1, <1>2, <1>4, <1>6, Zenon DEF DataPage
  <2>2. /\ Good(n, NoPage, NoPage) /\ n.dir = m.dir
        /\ n.pte[e][va] = [page |-> p, w |-> w]
        /\ \A x \in Envs, v \in VAs : x # e \/ v # va => n.pte[x][v] = m.pte[x][v]
    BY <1>1, <1>2, <1>7, <1>9, <2>1, InsertGood
  <2>3. m.pte \in [Envs -> [VAs -> PTE]] /\ n.pte \in [Envs -> [VAs -> PTE]]
    BY <2>2, Zenon DEF Good, Memory
  <2>4. \A x \in Envs \ {e} : n.pte[x] = m.pte[x]
    BY <2>2, <2>3
  <2>5. ~ Mapped(m, p)
    <3>1. ASSUME NEW x \in Envs, NEW v \in VAs PROVE m.pte[x][v].page # p
      <4>1. <<"pte", <<x, v>>>> \in Places
        BY Zenon DEF Places
      <4>2. Target(m, <<"pte", <<x, v>>>>) = m.pte[x][v].page
        BY Zenon DEF Target
      <4>3. QED BY <1>1, <4>1, <4>2, Zenon
    <3>2. QED BY <3>1, Zenon DEF Mapped
  <2>6. ASSUME NEW q \in Pages, Writable(n, q), Mapped(m, q) PROVE Writable(m, q)
    <3>1. PICK x \in Envs, v \in VAs : n.pte[x][v] = [page |-> q, w |-> TRUE]
      BY <2>6, Zenon DEF Writable
    <3>2. x # e \/ v # va
      BY <2>2, <2>5, <2>6, <3>1
    <3>3. QED BY <2>2, <3>1, <3>2 DEF Writable
  <2>7. QED BY <2>2, <2>4, <2>6, Zenon DEF MemStep, KeepsReadOnly
<1>10. QED BY <1>8, <1>9, Zenon

(* A step that only takes mappings away.                                   *)
LEMMA FewerMappings ==
  ASSUME NEW m, NEW n,
         \A x \in Envs, v \in VAs : n.pte[x][v] = m.pte[x][v] \/ n.pte[x][v] = NoPte
  PROVE  KeepsReadOnly(m, n)
<1>1. ASSUME NEW q \in Pages, Writable(n, q) PROVE Writable(m, q)
  BY <1>1, PageAssumption DEF Writable, NoPte
<1>2. QED BY <1>1, Zenon DEF KeepsReadOnly

LEMMA RemoveStep ==
  ASSUME NEW m, Good(m, NoPage, NoPage), NEW e \in Envs, NEW va \in VAs,
         NEW n, n = page_remove(m, e, va)
  PROVE  MemStep(m, n, e) /\ n.dir = m.dir
<1>1. /\ Good(n, NoPage, NoPage) /\ n.dir = m.dir
      /\ n.pte = m.pte \/ n.pte = [m.pte EXCEPT ![e][va] = NoPte]
  BY RemoveGood
<1>2. m.pte \in [Envs -> [VAs -> PTE]]
  BY Zenon DEF Good, Memory
<1>3. \A x \in Envs, v \in VAs : n.pte[x][v] = m.pte[x][v] \/ n.pte[x][v] = NoPte
  BY <1>1, <1>2
<1>4. \A x \in Envs \ {e} : n.pte[x] = m.pte[x]
  BY <1>1, <1>2, Zenon
<1>5. QED BY <1>1, <1>3, <1>4, FewerMappings DEF MemStep

LEMMA FreeStep ==
  ASSUME NEW m, Good(m, NoPage, NoPage), NEW e \in Envs,
         NEW n, n = env_free(m, e)
  PROVE  MemStep(m, n, e) /\ n.dir[e] = NoPage
<1>1. /\ Good(n, NoPage, NoPage)
      /\ n.dir = [m.dir EXCEPT ![e] = NoPage]
      /\ n.pte = [m.pte EXCEPT ![e] = NoMappings]
  BY FreeGood, Zenon
<1>2. m.pte \in [Envs -> [VAs -> PTE]] /\ m.dir \in [Envs -> Pages \cup {NoPage}]
  BY Zenon DEF Good, Memory
<1>3. \A x \in Envs, v \in VAs : n.pte[x][v] = m.pte[x][v] \/ n.pte[x][v] = NoPte
  BY <1>1, <1>2 DEF NoMappings
<1>4. QED BY <1>1, <1>2, <1>3, FewerMappings DEF MemStep

LEMMA SetupStep ==
  ASSUME NEW m, Good(m, NoPage, NoPage), NEW e \in Envs,
         m.dir[e] = NoPage, NEW p \in m.free, NEW n, n = env_setup_vm(m, e, p)
  PROVE  MemStep(m, n, e) /\ n.pte = m.pte
<1>1. /\ Good(n, NoPage, NoPage)
      /\ n.dir = [m.dir EXCEPT ![e] = p] /\ n.pte = m.pte
  BY SetupGood
<1>2. m.dir \in [Envs -> Pages \cup {NoPage}]
  BY Zenon DEF Good, Memory
<1>3. KeepsReadOnly(m, n)
  BY <1>1, ZenonT(60) DEF KeepsReadOnly, Writable
<1>4. QED BY <1>1, <1>2, <1>3, Zenon DEF MemStep
-----------------------------------------------------------------------------
(* The system.                                                             *)

(* Who runs is ready, and runs on one CPU only.                            *)
Running ==
  \A c \in CPUs :
    curenv[c] # NoEnv =>
      phase[curenv[c]] = "ready" /\ \A d \in CPUs \ {c} : curenv[d] # curenv[c]

(* A free slot of envs[] has no page directory.                            *)
FreeHasNoDir == \A e \in Envs : phase[e] = "free" => mem.dir[e] = NoPage

IInv == TypeOK /\ Good(mem, NoPage, NoPage) /\ FreeHasNoDir /\ Running

LEMMA EmptyGood == Good(EmptyMemory, NoPage, NoPage)
<1> USE PageAssumption
<1>1. EmptyMemory \in Memory
  <2>1. [p \in Pages |-> 0] \in [Pages -> 0 .. RefLimit - 1]
    OBVIOUS
  <2>2. QED BY <2>1, Zenon DEF EmptyMemory, Memory, NoTables, NoMappings, NoPte, PTE
<1>2. \A y \in Places : Target(EmptyMemory, y) = NoPage
  BY Zenon DEF Places, Target, EmptyMemory, NoTables, NoMappings, NoPte
<1>3. \A p \in Pages : Refs(EmptyMemory, p) = 0
  BY <1>2, PointersFinite, Zenon
<1>4. OnePlace(EmptyMemory)
  BY <1>2, Zenon DEF OnePlace
<1>5. EmptyMemory.free = Pages /\ \A p \in Pages : EmptyMemory.ref[p] = 0
  BY Zenon DEF EmptyMemory
<1>6. QED BY <1>1, <1>3, <1>4, <1>5 DEF Good

LEMMA InitInv == ASSUME Init PROVE IInv
<1> USE PageAssumption, EnvAssumption, AddressAssumption
<1>1. PICK va \in VAs : mem \in env_create(Root, va)
  BY Zenon DEF Init
<1>2. PICK pd \in Pages :
        mem \in UNION {page_insert(page_alloc(env_setup_vm(EmptyMemory, Root, pd), p),
                                   Root, p, va, TRUE) :
                         p \in env_setup_vm(EmptyMemory, Root, pd).free}
  BY <1>1, ZenonT(60) DEF env_create
<1> DEFINE m == env_setup_vm(EmptyMemory, Root, pd)
<1>3. PICK p \in m.free : mem \in page_insert(page_alloc(m, p), Root, p, va, TRUE)
  BY <1>2, ZenonT(60)
<1>4. /\ EmptyMemory.free = Pages
      /\ EmptyMemory.dir = [e \in Envs |-> NoPage]
  BY Zenon DEF EmptyMemory
<1>5. Good(m, NoPage, NoPage) /\ m.dir = [[e \in Envs |-> NoPage] EXCEPT ![Root] = pd]
  <2>1. EmptyMemory.dir[Root] = NoPage
    BY <1>4, Zenon
  <2>2. QED BY <1>4, <2>1, EmptyGood, SetupGood
<1> HIDE DEF m
<1>6. MemStep(m, mem, Root) /\ mem.dir = m.dir
  <2>1. PICK k : k = page_alloc(m, p)
    BY Zenon
  <2>2. PICK w \in BOOLEAN : w = TRUE
    BY ZenonT(60)
  <2>3. mem \in page_insert(k, Root, p, va, w)
    BY <1>3, <2>1, <2>2, ZenonT(60)
  <2>4. QED BY <1>3, <1>5, <2>1, <2>3, AllocStep
<1>7. Good(mem, NoPage, NoPage) /\ mem \in Memory
  BY <1>6, Zenon DEF MemStep, Good
<1>8. TypeOK
  BY <1>7, Zenon DEF Init, TypeOK, NoMappings, NoPte, PTE
<1>9. Running
  BY Zenon DEF Init, Running
<1>10. FreeHasNoDir
  BY <1>5, <1>6, Zenon DEF Init, FreeHasNoDir
<1>11. QED BY <1>7, <1>8, <1>9, <1>10, Zenon DEF IInv

(* What the calls do to the memory.                                        *)
LEMMA UnmapCall ==
  ASSUME Good(mem, NoPage, NoPage), NEW c, NEW e \in Envs, NEW va \in VAs,
         sys_page_unmap(c, e, va)
  PROVE  MemStep(mem, mem', e) /\ mem'.dir = mem.dir
BY RemoveStep, Zenon DEF sys_page_unmap

LEMMA AllocCall ==
  ASSUME Good(mem, NoPage, NoPage), NEW c, NEW e \in Envs, NEW va \in VAs,
         NEW w \in BOOLEAN, sys_page_alloc(c, e, va, w)
  PROVE  MemStep(mem, mem', e) /\ mem'.dir = mem.dir
<1>1. PICK p \in mem.free : \E k :
        /\ k = page_alloc(mem, p)
        /\ mem' = page_free(k, p) \/ mem' \in page_insert(k, e, p, va, w)
  BY Zenon DEF sys_page_alloc
<1>2. PICK k :
        /\ k = page_alloc(mem, p)
        /\ mem' = page_free(k, p) \/ mem' \in page_insert(k, e, p, va, w)
  BY <1>1, Zenon
<1>3. QED BY <1>2, AllocStep

LEMMA MapCall ==
  ASSUME RefsFit, Good(mem, NoPage, NoPage), NEW c, NEW e \in Envs, NEW va \in VAs,
         NEW dst \in Envs, NEW dstva \in VAs, NEW w \in BOOLEAN,
         sys_page_map(c, e, va, dst, dstva, w)
  PROVE  MemStep(mem, mem', dst) /\ mem'.dir = mem.dir
<1>1. /\ mem.pte[e][va].page # NoPage
      /\ w => mem.pte[e][va].w
      /\ mem' \in page_insert(mem, dst, mem.pte[e][va].page, dstva, w)
  BY Zenon DEF sys_page_map
<1>2. \A q \in Pages : mem.ref[q] + 1 < RefLimit
  BY Zenon DEF RefsFit
<1>3. QED BY <1>1, <1>2, MapStep

LEMMA ExoforkCall ==
  ASSUME Good(mem, NoPage, NoPage), FreeHasNoDir, NEW c, NEW e \in Envs,
         sys_exofork(c, e)
  PROVE  MemStep(mem, mem', e) /\ mem'.pte = mem.pte
<1>1. PICK p \in mem.free : mem' = env_setup_vm(mem, e, p)
  BY Zenon DEF sys_exofork
<1>2. mem.dir[e] = NoPage
  BY Zenon DEF sys_exofork, FreeHasNoDir
<1>3. QED BY <1>1, <1>2, SetupStep, Zenon

LEMMA DestroyCall ==
  ASSUME Good(mem, NoPage, NoPage), NEW c, NEW e \in Envs, env_destroy(c, e)
  PROVE  MemStep(mem, mem', e) /\ mem'.dir[e] = NoPage
BY FreeStep, Zenon DEF env_destroy

LEMMA SendMem ==
  ASSUME RefsFit, IInv, NEW c \in CPUs, curenv[c] # NoEnv, NEW e \in Envs,
         NEW srcva \in VAs \cup {NoVA}, NEW w \in BOOLEAN,
         mem' \in ipc_transfer(mem, curenv[c], srcva, e, w)
  PROVE  mem' = mem \/ (MemStep(mem, mem', e) /\ mem'.dir = mem.dir)
<1> USE DEF IInv, TypeOK
<1>1. CASE srcva = NoVA \/ env_ipc_dstva[e] = NoVA
  BY <1>1, Zenon DEF ipc_transfer
<1>2. CASE srcva # NoVA /\ env_ipc_dstva[e] # NoVA
  <2>1. srcva \in VAs /\ env_ipc_dstva[e] \in VAs /\ curenv[c] \in Envs
    BY <1>2, Zenon
  <2>2. /\ mem.pte[curenv[c]][srcva].page # NoPage
        /\ w => mem.pte[curenv[c]][srcva].w
        /\ mem' \in page_insert(mem, e, mem.pte[curenv[c]][srcva].page,
                                env_ipc_dstva[e], w)
    BY <1>2, Zenon DEF ipc_transfer
  <2>3. \A q \in Pages : mem.ref[q] + 1 < RefLimit
    BY Zenon DEF RefsFit
  <2>4. QED BY <2>1, <2>2, <2>3, MapStep
<1>3. QED BY <1>1, <1>2, Zenon

(* What every step does to the memory.                                     *)
LEMMA NextMem ==
  ASSUME RefsFit, IInv, Next
  PROVE  /\ mem' = mem \/ \E e \in Envs : MemStep(mem, mem', e)
         /\ FreeHasNoDir'
<1>0. /\ Good(mem, NoPage, NoPage) /\ FreeHasNoDir
      /\ phase \in [Envs -> {"free", "embryo", "ready", "recv"}]
  BY Zenon DEF IInv, TypeOK
<1>1. PICK c \in CPUs : Step(c) \/ PageCall(c, Envs)
  BY Zenon DEF Next
<1>2. ASSUME mem' = mem, \A e \in Envs : phase'[e] = "free" => phase[e] = "free"
      PROVE  FreeHasNoDir'
  BY <1>0, <1>2, Zenon DEF FreeHasNoDir
<1>3. ASSUME NEW e \in Envs, MemStep(mem, mem', e), mem'.dir = mem.dir,
             \A x \in Envs : phase'[x] = "free" => phase[x] = "free"
      PROVE  FreeHasNoDir'
  BY <1>0, <1>3, Zenon DEF FreeHasNoDir
<1>4. CASE sys_yield(c) \/ \E va \in VAs : Access(c, va)
  BY <1>2, <1>4, Zenon DEF sys_yield, Access, procs
<1>5. CASE \E dstva \in VAs \cup {NoVA} : sys_ipc_recv(c, dstva)
  BY <1>0, <1>2, <1>5, Zenon DEF sys_ipc_recv
<1>6. ASSUME NEW e \in Envs, env_run(c, e) \/ sys_env_set_status(c, e)
      PROVE  mem' = mem /\ FreeHasNoDir'
  BY <1>0, <1>2, <1>6, Zenon DEF env_run, sys_env_set_status, procs
<1>7. ASSUME NEW e \in Envs, sys_exofork(c, e)
      PROVE  MemStep(mem, mem', e) /\ FreeHasNoDir'
  <2>1. MemStep(mem, mem', e)
    BY <1>0, <1>7, ExoforkCall, Zenon
  <2>2. \A x \in Envs : phase'[x] = "free" => x # e /\ phase[x] = "free"
    BY <1>0, <1>7, Zenon DEF sys_exofork
  <2>3. QED BY <1>0, <2>1, <2>2, Zenon DEF MemStep, FreeHasNoDir
<1>8. ASSUME NEW e \in Envs, env_destroy(c, e)
      PROVE  MemStep(mem, mem', e) /\ FreeHasNoDir'
  <2>1. MemStep(mem, mem', e) /\ mem'.dir[e] = NoPage
    BY <1>0, <1>8, DestroyCall, Zenon
  <2>2. \A x \in Envs \ {e} : phase'[x] = phase[x]
    BY <1>0, <1>8, Zenon DEF env_destroy
  <2>3. QED BY <1>0, <2>1, <2>2, Zenon DEF MemStep, FreeHasNoDir
<1>9. ASSUME NEW e \in Envs, NEW srcva \in VAs \cup {NoVA}, NEW w \in BOOLEAN,
             sys_ipc_try_send(c, e, srcva, w)
      PROVE  (mem' = mem \/ MemStep(mem, mem', e)) /\ FreeHasNoDir'
  <2>1. \A x \in Envs : phase'[x] = "free" => phase[x] = "free"
    BY <1>0, <1>9, Zenon DEF sys_ipc_try_send
  <2>2. mem' = mem \/ (MemStep(mem, mem', e) /\ mem'.dir = mem.dir)
    BY <1>9, SendMem, ZenonT(60) DEF sys_ipc_try_send
  <2>3. QED BY <1>2, <1>3, <2>1, <2>2, Zenon
<1>10. CASE PageCall(c, Envs)
  <2>1. PICK e \in Envs, va \in VAs :
          \/ sys_page_unmap(c, e, va)
          \/ \E w \in BOOLEAN : sys_page_alloc(c, e, va, w)
          \/ \E dst \in Envs, dstva \in VAs, w \in BOOLEAN :
               sys_page_map(c, e, va, dst, dstva, w)
    BY <1>10, Zenon DEF PageCall
  <2>2. phase' = phase
    BY <2>1, Zenon DEF sys_page_unmap, sys_page_alloc, sys_page_map, procs
  <2>3. ASSUME sys_page_unmap(c, e, va)
        PROVE  MemStep(mem, mem', e) /\ mem'.dir = mem.dir
    BY <1>0, <2>3, UnmapCall, Zenon
  <2>4. ASSUME NEW w \in BOOLEAN, sys_page_alloc(c, e, va, w)
        PROVE  MemStep(mem, mem', e) /\ mem'.dir = mem.dir
    BY <1>0, <2>4, AllocCall, Zenon
  <2>5. ASSUME NEW dst \in Envs, NEW dstva \in VAs, NEW w \in BOOLEAN,
               sys_page_map(c, e, va, dst, dstva, w)
        PROVE  MemStep(mem, mem', dst) /\ mem'.dir = mem.dir
    BY <1>0, <2>5, MapCall, Zenon
  <2>6. QED BY <1>3, <2>1, <2>2, <2>3, <2>4, <2>5, Zenon
<1>11. CASE Step(c)
  BY <1>4, <1>5, <1>6, <1>7, <1>8, <1>9, <1>11, Zenon DEF Step
<1>12. QED BY <1>1, <1>10, <1>11, Zenon

LEMMA NextType ==
  ASSUME TypeOK, Next, mem' \in Memory
  PROVE  TypeOK'
<1> USE EnvAssumption, AddressAssumption DEF TypeOK
<1>1. PICK c \in CPUs : Step(c) \/ PageCall(c, Envs)
  BY Zenon DEF Next
<1>2. NoMappings \in [VAs -> PTE]
  BY Zenon DEF NoMappings, NoPte, PTE
<1>3. CASE sys_yield(c)
  BY <1>3, Zenon DEF sys_yield, procs
<1>4. ASSUME NEW va \in VAs, Access(c, va) PROVE TypeOK'
  <2>1. mem.pte[curenv[c]][va] \in PTE
    BY <1>4 DEF Access, Memory
  <2>2. QED BY <1>4, <2>1, Zenon DEF Access, procs
<1>5. ASSUME NEW dstva \in VAs \cup {NoVA}, sys_ipc_recv(c, dstva) PROVE TypeOK'
  BY <1>5, Zenon DEF sys_ipc_recv
<1>6. ASSUME NEW e \in Envs, env_run(c, e) PROVE TypeOK'
  BY <1>2, <1>6, Zenon DEF env_run, Flush, procs
<1>7. ASSUME NEW e \in Envs, sys_exofork(c, e) PROVE TypeOK'
  BY <1>2, <1>7, Zenon DEF sys_exofork, Return, Flush
<1>8. ASSUME NEW e \in Envs, sys_env_set_status(c, e) PROVE TypeOK'
  BY <1>2, <1>8, Zenon DEF sys_env_set_status, Return, Flush
<1>9. ASSUME NEW e \in Envs, env_destroy(c, e) PROVE TypeOK'
  BY <1>2, <1>9, Zenon DEF env_destroy, Flush
<1>10. ASSUME NEW e \in Envs, NEW srcva, NEW w, sys_ipc_try_send(c, e, srcva, w)
       PROVE  TypeOK'
  BY <1>2, <1>10, Zenon DEF sys_ipc_try_send, Return, Flush
<1>11. CASE PageCall(c, Envs)
  <2>1. UNCHANGED procs /\ Return(c)
    BY <1>11, Zenon DEF PageCall, sys_page_unmap, sys_page_alloc, sys_page_map
  <2>2. QED BY <1>2, <2>1, Zenon DEF Return, Flush, procs
<1>12. QED BY <1>1, <1>3, <1>4, <1>5, <1>6, <1>7, <1>8, <1>9, <1>10, <1>11, Zenon DEF Step

LEMMA NextRunning ==
  ASSUME TypeOK, Running, Next
  PROVE  Running'
<1> USE EnvAssumption DEF TypeOK, Running
<1>1. PICK c \in CPUs : Step(c) \/ PageCall(c, Envs)
  BY Zenon DEF Next
<1>2. CASE sys_yield(c) \/ \E va \in VAs : Access(c, va)
  BY <1>2, Zenon DEF sys_yield, Access, procs
<1>3. ASSUME NEW dstva, sys_ipc_recv(c, dstva) PROVE Running'
  BY <1>3, Zenon DEF sys_ipc_recv
<1>4. ASSUME NEW e \in Envs, env_run(c, e) PROVE Running'
  BY <1>4, Zenon DEF env_run, procs
<1>5. ASSUME NEW e \in Envs, sys_exofork(c, e) \/ sys_env_set_status(c, e)
      PROVE  Running'
  BY <1>5 DEF sys_exofork, sys_env_set_status, Return
<1>6. ASSUME NEW e \in Envs, env_destroy(c, e) PROVE Running'
  BY <1>6, Zenon DEF env_destroy, MayManage
<1>7. ASSUME NEW e \in Envs, NEW srcva, NEW w, sys_ipc_try_send(c, e, srcva, w)
      PROVE  Running'
  BY <1>7, Zenon DEF sys_ipc_try_send, Return
<1>8. CASE PageCall(c, Envs)
  BY <1>8 DEF PageCall, sys_page_unmap, sys_page_alloc, sys_page_map, Return, procs
<1>9. QED BY <1>1, <1>2, <1>3, <1>4, <1>5, <1>6, <1>7, <1>8, Zenon DEF Step

(* Every step of arbitrary programs keeps the invariant, and makes no page *)
(* writable that is mapped and that nobody could write.                    *)
LEMMA NextInv ==
  ASSUME RefsFit, IInv, [Next]_vars
  PROVE  IInv' /\ ReadOnlyStep
<1>1. CASE Next
  <2>1. /\ mem' = mem \/ \E e \in Envs : MemStep(mem, mem', e)
        /\ FreeHasNoDir'
    BY <1>1, NextMem, Zenon
  <2>2. Good(mem, NoPage, NoPage)' /\ KeepsReadOnly(mem, mem')
    BY <2>1, Zenon DEF MemStep, KeepsReadOnly, IInv
  <2>3. TypeOK'
    BY <1>1, <2>2, NextType, Zenon DEF Good, IInv
  <2>4. Running'
    BY <1>1, NextRunning, Zenon DEF IInv
  <2>5. QED BY <2>1, <2>2, <2>3, <2>4, Zenon DEF IInv, KeepsReadOnly, ReadOnlyStep
<1>2. CASE UNCHANGED vars
  <2>1. mem' = mem /\ IInv'
    BY <1>2, Zenon DEF vars, IInv, TypeOK, FreeHasNoDir, Running
  <2>2. QED BY <2>1, Zenon DEF ReadOnlyStep
<1>3. QED BY <1>1, <1>2, Zenon

(* LibNext is Next with fewer page calls.                                  *)
LEMMA LibStepIsStep == ASSUME LibNext PROVE Next
BY Zenon DEF LibNext, Next, PageCall

LEMMA SpecInv == Spec /\ []RefsFit => []IInv
<1>1. Init => IInv
  BY InitInv, Zenon
<1>2. IInv /\ RefsFit /\ [Next]_vars => IInv'
  BY NextInv, Zenon
<1>3. QED BY <1>1, <1>2, PTL DEF Spec

(* The facts about the memory that the invariant was made for.             *)
LEMMA GoodMemory ==
  ASSUME IInv
  PROVE  RefExact /\ FreeExact /\ TablesPrivate
<1> USE PageAssumption
<1>1. ASSUME NEW p \in Pages
      PROVE  mem.ref[p] = Refs(mem, p) /\ (p \in mem.free <=> Refs(mem, p) = 0)
  <2>1. mem.ref[p] = Refs(mem, p) + (IF p = NoPage THEN 1 ELSE 0)
    BY Zenon DEF IInv, Good
  <2>2. mem.ref[p] = Refs(mem, p)
    BY <2>1, PointersFinite
  <2>3. QED BY <2>2, Zenon DEF IInv, Good
<1>2. ASSUME NEW p \in Pages
      PROVE  Refs(mem, p) = 0 <=> Pointers(mem, p) = {}
  BY PointersFinite, FS_EmptySet, Zenon DEF Refs
<1>3. ASSUME NEW p \in Pages, NEW e \in Envs, IsTable(mem, e, p)
      PROVE  Refs(mem, p) = 1
  <2>1. PICK y \in Places : y[1] # "pte" /\ Target(mem, y) = p
    <3>1. CASE mem.dir[e] = p
      <4>1. <<"dir", e>> \in Places /\ Target(mem, <<"dir", e>>) = p
        BY <3>1, Zenon DEF Places, Target
      <4>2. QED BY <4>1, Zenon
    <3>2. ASSUME NEW d \in Dirs, mem.pde[e][d] = p
          PROVE  \E y \in Places : y[1] # "pte" /\ Target(mem, y) = p
      <4>1. /\ <<"pde", <<e, d>>>> \in Places
            /\ Target(mem, <<"pde", <<e, d>>>>) = p
        BY <3>2, Zenon DEF Places, Target
      <4>2. QED BY <4>1, Zenon
    <3>3. QED BY <1>3, <3>1, <3>2, Zenon DEF IsTable
  <2>2. OnePlace(mem)
    BY Zenon DEF IInv, Good
  <2>3. Pointers(mem, p) = {y}
    BY <2>1, <2>2, PointersAre, Zenon DEF OnePlace
  <2>4. QED BY <2>3, FS_Singleton, Zenon DEF Refs
<1>4. QED BY <1>1, <1>2, <1>3, Zenon DEF RefExact, FreeExact, TablesPrivate, Refs

(* For any number of pages, environments, virtual pages and CPUs, pp_ref   *)
(* is the number of pointers to the page in every run in which no page's   *)
(* count comes to the last value of pp_ref: page_insert, page_remove,      *)
(* page_decref, env_setup_vm and env_free never lose or invent a           *)
(* reference, whatever programs do.                                        *)
THEOREM RefCountsExact == Spec /\ []RefsFit => []RefExact
<1>1. IInv => RefExact
  BY GoodMemory, Zenon
<1>2. QED BY <1>1, SpecInv, PTL

(* A page is on page_free_list exactly when nothing points to it, while    *)
(* no count comes to its limit.                                            *)
THEOREM FreeListExact == Spec /\ []RefsFit => []FreeExact
<1>1. IInv => FreeExact
  BY GoodMemory, Zenon
<1>2. QED BY <1>1, SpecInv, PTL

(* No page directory or page table is shared, or mapped as data, while no  *)
(* count comes to its limit.                                               *)
THEOREM TablesArePrivate == Spec /\ []RefsFit => []TablesPrivate
<1>1. IInv => TablesPrivate
  BY GoodMemory, Zenon
<1>2. QED BY <1>1, SpecInv, PTL

(* No chain of page_insert calls makes a page writable that was mapped and *)
(* that nobody could write: the checks of sys_page_map and                 *)
(* sys_ipc_try_send suffice, while no count comes to its limit (a page     *)
(* whose count wraps is handed out again while it is mapped).              *)
THEOREM ReadOnlyIsKept == Spec /\ []RefsFit => ReadOnlyStays
<1>1. IInv /\ RefsFit /\ [Next]_vars => [ReadOnlyStep]_vars
  BY NextInv, Zenon
<1>2. QED BY <1>1, SpecInv, PTL DEF Spec, ReadOnlyStays
-----------------------------------------------------------------------------
(* The TLBs.                                                               *)

(* A step of CPU c on the address space of e keeps every TLB coherent when *)
(* no other CPU runs e and c flushes.                                      *)
LEMMA FlushedCoherent ==
  ASSUME IInv, TlbCoherent, NEW c \in CPUs, NEW e \in Envs,
         \A x \in Envs \ {e} : mem'.pte[x] = mem.pte[x],
         \A d \in CPUs \ {c} : curenv[d] # e /\ curenv'[d] = curenv[d],
         Flush(c)
  PROVE  TlbCoherent'
<1>1. ASSUME NEW d \in CPUs, NEW va \in VAs, curenv'[d] # NoEnv, tlb'[d][va] # NoPte
      PROVE  tlb'[d][va] = mem'.pte[curenv'[d]][va]
  <2>1. d # c
    BY <1>1, Zenon DEF Flush, NoMappings, IInv, TypeOK
  <2>2. tlb'[d] = tlb[d] /\ curenv'[d] = curenv[d] /\ curenv[d] \in Envs \ {e}
    BY <1>1, <2>1, Zenon DEF Flush, IInv, TypeOK
  <2>3. QED BY <1>1, <2>2 DEF TlbCoherent
<1>2. QED BY <1>1, Zenon DEF TlbCoherent

(* c stops running its environment.                                        *)
LEMMA StoppedCoherent ==
  ASSUME IInv, TlbCoherent, NEW c \in CPUs,
         curenv' = [curenv EXCEPT ![c] = NoEnv], UNCHANGED <<mem, tlb>>
  PROVE  TlbCoherent'
BY Zenon DEF TlbCoherent, IInv, TypeOK

(* A call ends: what it changed was the caller's, or not running.          *)
LEMMA ReturnCoherent ==
  ASSUME IInv, TlbCoherent, NEW c \in CPUs, curenv[c] # NoEnv, NEW e \in Envs,
         e = curenv[c] \/ phase[e] # "ready",
         \A x \in Envs \ {e} : mem'.pte[x] = mem.pte[x], Return(c)
  PROVE  TlbCoherent'
<1>1. \A d \in CPUs \ {c} : curenv[d] # e /\ curenv'[d] = curenv[d]
  BY EnvAssumption, Zenon DEF IInv, Running, Return
<1>2. QED BY <1>1, FlushedCoherent, Zenon DEF Return

LEMMA LibCoherent ==
  ASSUME RefsFit, IInv, TlbCoherent, [LibNext]_vars
  PROVE  TlbCoherent'
<1>0. Good(mem, NoPage, NoPage) /\ FreeHasNoDir
  BY Zenon DEF IInv
<1>1. CASE UNCHANGED vars
  BY <1>1, Zenon DEF vars, TlbCoherent
<1>2. ASSUME NEW c \in CPUs, Step(c) PROVE TlbCoherent'
  <2>1. CASE sys_yield(c)
    BY <2>1, StoppedCoherent, Zenon DEF sys_yield
  <2>2. ASSUME NEW va \in VAs, Access(c, va) PROVE TlbCoherent'
    BY <2>2 DEF Access, TlbCoherent, IInv, TypeOK
  <2>3. ASSUME NEW dstva, sys_ipc_recv(c, dstva) PROVE TlbCoherent'
    BY <2>3, StoppedCoherent, Zenon DEF sys_ipc_recv
  <2>4. ASSUME NEW e \in Envs, env_run(c, e) PROVE TlbCoherent'
    <3>1. /\ mem' = mem /\ Flush(c) /\ curenv' = [curenv EXCEPT ![c] = e]
          /\ \A d \in CPUs : curenv[d] # e
      BY <2>4, Zenon DEF env_run
    <3>2. \A d \in CPUs \ {c} : curenv'[d] = curenv[d]
      BY <3>1, Zenon DEF IInv, TypeOK
    <3>3. QED BY <3>1, <3>2, FlushedCoherent, Zenon
  <2>5. ASSUME NEW e \in Envs, sys_exofork(c, e) PROVE TlbCoherent'
    <3>1. mem'.pte = mem.pte
      BY <1>0, <2>5, ExoforkCall, Zenon
    <3>2. curenv[c] # NoEnv /\ phase[e] # "ready" /\ Return(c)
      BY <2>5, Zenon DEF sys_exofork
    <3>3. QED BY <3>1, <3>2, ReturnCoherent, Zenon
  <2>6. ASSUME NEW e \in Envs, sys_env_set_status(c, e) PROVE TlbCoherent'
    <3>1. curenv[c] # NoEnv /\ phase[e] # "ready" /\ Return(c) /\ mem' = mem
      BY <2>6, Zenon DEF sys_env_set_status, MayManage
    <3>2. QED BY <3>1, ReturnCoherent, Zenon
  <2>7. ASSUME NEW e \in Envs, env_destroy(c, e) PROVE TlbCoherent'
    <3>1. MemStep(mem, mem', e)
      BY <1>0, <2>7, DestroyCall, Zenon
    <3>2. \A x \in Envs \ {e} : mem'.pte[x] = mem.pte[x]
      BY <3>1, Zenon DEF MemStep
    <3>3. /\ Flush(c) /\ \A d \in CPUs \ {c} : curenv[d] # e
          /\ curenv' = [curenv EXCEPT ![c] = IF e = @ THEN NoEnv ELSE @]
      BY <2>7, Zenon DEF env_destroy
    <3>4. \A d \in CPUs \ {c} : curenv'[d] = curenv[d]
      BY <3>3, Zenon DEF IInv, TypeOK
    <3>5. QED BY <3>2, <3>3, <3>4, FlushedCoherent, Zenon
  <2>8. ASSUME NEW e \in Envs, NEW srcva \in VAs \cup {NoVA}, NEW w \in BOOLEAN,
               sys_ipc_try_send(c, e, srcva, w)
        PROVE  TlbCoherent'
    <3>1. /\ curenv[c] # NoEnv /\ phase[e] # "ready" /\ Return(c)
          /\ mem' \in ipc_transfer(mem, curenv[c], srcva, e, w)
      BY <2>8, Zenon DEF sys_ipc_try_send
    <3>2. mem' = mem \/ MemStep(mem, mem', e)
      BY <3>1, SendMem, Zenon
    <3>3. \A x \in Envs \ {e} : mem'.pte[x] = mem.pte[x]
      BY <3>2, Zenon DEF MemStep
    <3>4. QED BY <3>1, <3>3, ReturnCoherent, Zenon
  <2>9. QED BY <1>2, <2>1, <2>2, <2>3, <2>4, <2>5, <2>6, <2>7, <2>8, Zenon DEF Step
<1>3. ASSUME NEW c \in CPUs,
             PageCall(c, {e \in Envs : e = curenv[c] \/ phase[e] = "embryo"})
      PROVE  TlbCoherent'
  <2> DEFINE E == {e \in Envs : e = curenv[c] \/ phase[e] = "embryo"}
  <2>1. ASSUME NEW e \in E, MemStep(mem, mem', e), MayManage(c, e), Return(c)
        PROVE  TlbCoherent'
    <3>1. \A x \in Envs \ {e} : mem'.pte[x] = mem.pte[x]
      BY <2>1, Zenon DEF MemStep
    <3>2. curenv[c] # NoEnv /\ e \in Envs /\ (e = curenv[c] \/ phase[e] # "ready")
      BY <2>1, Zenon DEF MayManage
    <3>3. QED BY <2>1, <3>1, <3>2, ReturnCoherent, Zenon
  <2>2. PICK e \in E, va \in VAs :
          \/ sys_page_unmap(c, e, va)
          \/ \E w \in BOOLEAN : sys_page_alloc(c, e, va, w)
          \/ \E dst \in E, dstva \in VAs, w \in BOOLEAN :
               sys_page_map(c, e, va, dst, dstva, w)
    BY <1>3, Zenon DEF PageCall
  <2>3. \A x \in E : x \in Envs
    BY Zenon
  <2> HIDE DEF E
  <2>4. CASE sys_page_unmap(c, e, va)
    <3>1. MemStep(mem, mem', e)
      BY <1>0, <2>3, <2>4, UnmapCall, Zenon
    <3>2. MayManage(c, e) /\ Return(c)
      BY <2>4, Zenon DEF sys_page_unmap
    <3>3. QED BY <2>1, <3>1, <3>2, Zenon
  <2>5. ASSUME NEW w \in BOOLEAN, sys_page_alloc(c, e, va, w) PROVE TlbCoherent'
    <3>1. MemStep(mem, mem', e)
      BY <1>0, <2>3, <2>5, AllocCall, Zenon
    <3>2. MayManage(c, e) /\ Return(c)
      BY <2>5, Zenon DEF sys_page_alloc
    <3>3. QED BY <2>1, <3>1, <3>2, Zenon
  <2>6. ASSUME NEW dst \in E, NEW dstva \in VAs, NEW w \in BOOLEAN,
               sys_page_map(c, e, va, dst, dstva, w)
        PROVE  TlbCoherent'
    <3>1. MemStep(mem, mem', dst)
      BY <1>0, <2>3, <2>6, MapCall, Zenon
    <3>2. MayManage(c, dst) /\ Return(c)
      BY <2>6, Zenon DEF sys_page_map
    <3>3. QED BY <2>1, <3>1, <3>2, Zenon
  <2>7. QED BY <2>2, <2>4, <2>5, <2>6, Zenon
<1>4. QED BY <1>1, <1>2, <1>3, Zenon DEF LibNext

(* With programs that change only their own address space and that of      *)
(* children they have not started, no CPU ever uses a stale translation:   *)
(* the kernel needs no TLB shootdown for them, on any number of CPUs, as   *)
(* long as no count comes to its limit.                                    *)
THEOREM TlbIsCoherent == LibSpec /\ []RefsFit => []TlbCoherent
<1>1. Init => IInv /\ TlbCoherent
  BY InitInv, Zenon DEF Init, TlbCoherent
<1>2. IInv /\ RefsFit /\ [LibNext]_vars => IInv'
  BY NextInv, LibStepIsStep, Zenon
<1>3. IInv /\ RefsFit /\ TlbCoherent /\ [LibNext]_vars => TlbCoherent'
  BY LibCoherent, Zenon
<1>4. QED BY <1>1, <1>2, <1>3, PTL DEF LibSpec
=============================================================================
