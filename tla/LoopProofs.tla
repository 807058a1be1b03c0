----------------------------- MODULE LoopProofs -----------------------------
(***************************************************************************)
(* Proofs about two loops over data of any size.                           *)
(*                                                                         *)
(* debuginfo_eip finds the function an address is in, for every table of   *)
(* stabs and every address.  The search is the loop of stab_binsearch; the *)
(* invariant says what it knows of the stabs outside l .. r, those of      *)
(* other types between them notwithstanding.                               *)
(*                                                                         *)
(* A child that spawn starts is complete, for every program the linker     *)
(* makes, every list of arguments and every size of a page.  The invariant *)
(* says which pages of the image are in place when the loop is at offset i *)
(* of a segment, and what the stack page holds.                            *)
(***************************************************************************)
EXTENDS StabSearch, Spawn, WellFoundedInduction, TLAPS

(* The stabs after r are too late, and the first of them says why.         *)
Late(T, r, R) ==
  /\ \A i \in r + 1 .. R : stabs[i].n_type = T => stabs[i].n_value > eip
  /\ r < R => stabs[r + 1].n_type = T

Early(T, i) == stabs[i].n_type = T /\ stabs[i].n_value <= eip

(* The loop in the region L .. R.                                          *)
Looping(T, L, R) ==
  /\ search.region_right = search.r
  /\ L <= search.region_left /\ search.region_left <= search.l /\ search.region_left <= R
  /\ L <= search.r /\ search.r <= R
  /\ search.addr \in {eip, eip + 1}
  /\ search.addr = eip + 1 =>
       \E i \in 0 .. LastStab : stabs[i].n_type = T /\ stabs[i].n_value = eip
  /\ \A i \in search.region_left + 1 .. search.l - 1 : stabs[i].n_type # T
  /\ \/ Early(T, search.region_left)
     \/ search.region_left = L /\ \A i \in L .. search.l - 1 : stabs[i].n_type # T
  /\ Late(T, search.r, R)
  /\ search.any_matches \/ (search.region_left = L /\ search.r = R)

(* Its result: the last stab that is not late, L if there is none but late *)
(* ones, and an empty region if there is none at all.                      *)
Result(T, L, R) ==
  \/ /\ search.region_left = L /\ search.region_right = L - 1
     /\ \A i \in L .. R : stabs[i].n_type # T
  \/ /\ L <= search.region_left /\ search.region_left <= search.region_right
     /\ search.region_right <= R /\ Late(T, search.region_right, R)
     /\ \A i \in search.region_left + 1 .. search.region_right : stabs[i].n_type # T
     /\ Early(T, search.region_left) \/ search.region_left = L

SearchType ==
  [type : {"SO", "FUN"}, l : Int, r : Int, region_left : Int, region_right : Int,
   any_matches : BOOLEAN, addr : Int, done : BOOLEAN]

Looks(T, L, R) ==
  /\ T \in {"SO", "FUN"} /\ search \in SearchType /\ search.type = T
  /\ L \in Nat /\ R \in Nat /\ L <= R /\ R <= LastStab /\ stabs[L].n_type # T
  /\ IF search.done THEN Result(T, L, R) ELSE Looping(T, L, R)

(* The file is the one of the address.                                     *)
InFile == stabs[found.lfile].n_type = "SO" /\ stabs[found.lfile].n_value <= eip

StabInv ==
  /\ eip \in Nat /\ (info.stage # "idle" => stabs \in Tables)
  /\ found = [lfile |-> found.lfile, rfile |-> found.rfile, lfun |-> found.lfun, rfun |-> found.rfun]
  /\ info = [stage |-> info.stage, fn |-> info.fn, fn_addr |-> info.fn_addr, line |-> info.line,
             file |-> info.file, narg |-> info.narg]
  /\ info.stage \in {"idle", "file", "function", "line", "done", "error"}
  /\ info.stage = "file" => Looks("SO", 0, LastStab)
  /\ info.stage = "function" => Looks("FUN", found.lfile, found.rfile) /\ InFile
  /\ info.stage \in {"file", "function"} => info.fn_addr = eip
  /\ FunctionRight
-----------------------------------------------------------------------------
(* Sets of numbers.                                                        *)

LEMMA Least ==
  ASSUME NEW S, S \subseteq Nat, S # {}
  PROVE  \E x \in S : \A y \in S : x <= y
<1>1. PICK R : R = OpToRel(<, Nat)
  BY Zenon
<1>2. IsWellFoundedOn(R, Nat)
  BY <1>1, NatLessThanWellFounded, Zenon
<1>3. PICK x \in S : \A y \in S : ~ (<<y, x>> \in R)
  BY <1>2, WFMin, Zenon
<1>4. \A y \in S : y < x => <<y, x>> \in R
  BY <1>1, Zenon DEF OpToRel
<1>5. \A y \in S : ~ (y < x)
  BY <1>3, <1>4, Zenon
<1>6. \A y \in S : x <= y
  BY <1>5
<1>7. QED BY <1>6, Zenon

LEMMA MaxIs ==
  ASSUME NEW a \in Int, NEW b \in Int, NEW S, S \subseteq a .. b, S # {}
  PROVE  Max(S) \in S /\ \A y \in S : y <= Max(S)
<1>1. PICK U : U = {b - y : y \in S}
  BY Zenon
<1>2. U \subseteq Nat /\ U # {}
  <2>1. \A y \in S : b - y \in Nat
    OBVIOUS
  <2>2. QED BY <1>1, <2>1, Zenon
<1>3. PICK u \in U : \A w \in U : u <= w
  BY <1>2, Least, Zenon
<1>4. PICK x \in S : u = b - x
  BY <1>1, Zenon
<1>5. \A y \in S : x >= y
  <2> TAKE y \in S
  <2>1. u <= b - y
    BY <1>1, <1>3, Zenon
  <2>2. QED BY <1>4, <2>1
<1>6. Max(S) \in S /\ \A y \in S : Max(S) >= y
  BY <1>5, Zenon DEF Max
<1>7. QED BY <1>6, Zenon

(* A number that is the largest or the smallest of a set is Max or Min.    *)
LEMMA MaxEq ==
  ASSUME NEW S, S \subseteq Int, NEW x \in S, \A y \in S : y <= x
  PROVE  Max(S) = x
<1>1. \A y \in S : x >= y
  BY Zenon
<1>2. Max(S) \in S /\ \A y \in S : Max(S) >= y
  BY <1>1, Zenon DEF Max
<1>3. PICK m \in S : m = Max(S) /\ m >= x /\ x >= m
  BY <1>1, <1>2, Zenon
<1>4. QED BY <1>3

LEMMA MinEq ==
  ASSUME NEW S, S \subseteq Int, NEW x \in S, \A y \in S : x <= y
  PROVE  Min(S) = x
<1>1. Min(S) \in S /\ \A y \in S : Min(S) =< y
  BY Zenon DEF Min
<1>2. PICK m \in S : m = Min(S) /\ m <= x /\ x <= m
  BY <1>1, Zenon
<1>3. QED BY <1>2
-----------------------------------------------------------------------------
LEMMA Ordered ==
  ASSUME stabs \in Tables
  PROVE  /\ LastStab \in Nat
         /\ \A i \in 0 .. LastStab : stabs[i].n_value \in Nat
         /\ stabs[0].n_type = "UNDF"
         /\ \A i, j \in 0 .. LastStab :
              i < j /\ stabs[i].n_type = stabs[j].n_type /\ stabs[i].n_type \in {"SO", "FUN"}
                => stabs[i].n_value <= stabs[j].n_value
         /\ \A i, j \in 0 .. LastStab :
              stabs[i].n_type = stabs[j].n_type /\ stabs[i].n_type \in {"SO", "FUN"}
                => stabs[j].n_value # stabs[i].n_value + 1
<1>1. stabs \in [0 .. LastStab -> [n_type : {"UNDF", "SO", "SOL", "FUN", "SLINE", "PSYM"},
                                   n_value : Nat]]
  BY StabTableAssumption, Zenon
<1>2. DOMAIN stabs = 0 .. LastStab
  BY <1>1, Zenon
<1>3. \A i \in 0 .. LastStab : stabs[i].n_value \in Nat
  BY <1>1, Zenon
<1>4. QED BY <1>2, <1>3, StabTableAssumption, SortedAssumption, SpacedAssumption, Zenon

(* The search goes on with these values.                                   *)
GoesOn(T, l, r, lo, addr, any) ==
  /\ search' \in SearchType /\ search'.type = T /\ ~ search'.done
  /\ search'.l = l /\ search'.r = r /\ search'.region_left = lo /\ search'.region_right = r
  /\ search'.addr = addr /\ search'.any_matches = any

LEMMA GoesOnLooks ==
  ASSUME NEW T, NEW L, NEW R, Looks(T, L, R), UNCHANGED <<stabs, eip>>,
         NEW l, NEW r, NEW lo, NEW addr, NEW any, GoesOn(T, l, r, lo, addr, any),
         L <= lo, lo <= l, lo <= R, L <= r, r <= R, addr \in {eip, eip + 1},
         addr = eip + 1 => \E i \in 0 .. LastStab : stabs[i].n_type = T /\ stabs[i].n_value = eip,
         \A i \in lo + 1 .. l - 1 : stabs[i].n_type # T,
         Early(T, lo) \/ (lo = L /\ \A i \in L .. l - 1 : stabs[i].n_type # T),
         Late(T, r, R), any \/ (lo = L /\ r = R)
  PROVE  Looks(T, L, R)'
<1>1. Late(T, r, R)' /\ Early(T, lo)' = Early(T, lo)
  BY Zenon DEF Late, Early
<1>2. Looping(T, L, R)'
  BY <1>1, ZenonT(30) DEF Looping, GoesOn
<1>3. QED BY <1>2, Zenon DEF Looks, GoesOn

LEMMA Retyped ==
  ASSUME search \in SearchType
  PROVE  /\ \A m, l \in Int :
              [search EXCEPT !.region_left = m, !.l = l, !.any_matches = TRUE] \in SearchType
         /\ \A m, r \in Int :
              [search EXCEPT !.region_right = m, !.r = r, !.any_matches = TRUE] \in SearchType
         /\ \A m, a \in Int :
              [search EXCEPT !.region_left = m, !.l = m, !.addr = a, !.any_matches = TRUE] \in SearchType
<1>1. ASSUME NEW m \in Int, NEW l \in Int
      PROVE  [search EXCEPT !.region_left = m, !.l = l, !.any_matches = TRUE] \in SearchType
  BY Zenon DEF SearchType
<1>2. ASSUME NEW m \in Int, NEW r \in Int
      PROVE  [search EXCEPT !.region_right = m, !.r = r, !.any_matches = TRUE] \in SearchType
  BY Zenon DEF SearchType
<1>3. ASSUME NEW m \in Int, NEW a \in Int
      PROVE  [search EXCEPT !.region_left = m, !.l = m, !.addr = a, !.any_matches = TRUE] \in SearchType
  BY Zenon DEF SearchType
<1>4. QED BY <1>1, <1>2, <1>3, Zenon

LEMMA HalveLooks ==
  ASSUME stabs \in Tables, eip \in Nat, NEW T, NEW L, NEW R, Looks(T, L, R), halve
  PROVE  Looks(T, L, R)'
<1>0. /\ ~ search.done /\ search.l <= search.r /\ UNCHANGED <<stabs, eip>>
      /\ search' = IF Matches(search.l, true_m) = {}
                   THEN [search EXCEPT !.l = true_m + 1]
                   ELSE compare(Max(Matches(search.l, true_m)))
  BY Zenon DEF halve
<1>1. /\ T \in {"SO", "FUN"} /\ search \in SearchType /\ search.type = T /\ L \in Nat /\ R \in Nat
      /\ R <= LastStab /\ stabs[L].n_type # T /\ Looping(T, L, R)
  BY <1>0, Zenon DEF Looks
<1>2. PICK l \in Int, r \in Int, lo \in Int, addr \in Int, t \in {true_m} :
        /\ l = search.l /\ r = search.r /\ r = search.region_right /\ lo = search.region_left
        /\ addr = search.addr /\ t = true_m
  <2>1. /\ search.l \in Int /\ search.r \in Int /\ search.region_left \in Int /\ search.addr \in Int
        /\ search.region_right = search.r
    BY <1>1, Zenon DEF SearchType, Looping
  <2>2. QED BY <2>1, Zenon
<1>3. t \in Int /\ l <= t /\ t <= r
  <2>1. l <= r /\ t = (l + r) \div 2
    BY <1>0, <1>2, Zenon DEF true_m
  <2>2. QED BY <2>1
<1>4. /\ L <= lo /\ lo <= l /\ lo <= R /\ L <= r /\ r <= R /\ addr \in {eip, eip + 1}
      /\ addr = eip + 1 => \E i \in 0 .. LastStab : stabs[i].n_type = T /\ stabs[i].n_value = eip
      /\ \A i \in lo + 1 .. l - 1 : stabs[i].n_type # T
      /\ Early(T, lo) \/ (lo = L /\ \A i \in L .. l - 1 : stabs[i].n_type # T)
      /\ Late(T, r, R) /\ search.any_matches \in BOOLEAN
      /\ search.any_matches \/ (lo = L /\ r = R)
  BY <1>1, <1>2, ZenonT(30) DEF Looping, SearchType
<1>5. PICK S : S = Matches(l, t)
  BY Zenon
<1>6. \A i : i \in S <=> i \in l .. t /\ stabs[i].n_type = T
  BY <1>1, <1>5, Zenon DEF Matches
<1>7. CASE S = {}
  <2>1. search' = [search EXCEPT !.l = t + 1]
    BY <1>0, <1>2, <1>5, <1>7, Zenon
  <2>2. GoesOn(T, t + 1, r, lo, addr, search.any_matches)
    <3>1. search' \in SearchType
      BY <1>1, <1>3, <2>1 DEF SearchType
    <3>2. QED BY <1>0, <1>1, <1>2, <2>1, <3>1, Zenon DEF GoesOn, SearchType
  <2>3. /\ lo <= t + 1 /\ \A i \in lo + 1 .. (t + 1) - 1 : stabs[i].n_type # T
        /\ (\A i \in L .. l - 1 : stabs[i].n_type # T) => \A i \in L .. (t + 1) - 1 : stabs[i].n_type # T
    BY <1>1, <1>3, <1>4, <1>6, <1>7
  <2>4. QED BY <1>0, <1>4, <2>2, <2>3, GoesOnLooks, Zenon
<1>8. CASE S # {}
  <2>1. PICK m \in Int : m = Max(S) /\ m \in l .. t /\ stabs[m].n_type = T /\ \A i \in S : i <= m
    BY <1>3, <1>6, <1>8, MaxIs
  <2>0. m - 1 \in Int /\ t + 1 \in Int /\ addr + 1 \in Int
    BY <1>3
  <2>2. search' = compare(m)
    BY <1>0, <1>2, <1>5, <1>8, <2>1, Zenon
  <2>3. m \in 0 .. LastStab /\ m \in L .. R /\ stabs[m].n_value \in Nat /\ LastStab \in Nat
    BY <1>1, <1>3, <1>4, <2>1, Ordered
  <2>4. \A i \in m + 1 .. t : stabs[i].n_type # T
    BY <1>3, <1>6, <2>1
  <2>5. CASE stabs[m].n_value < search.addr
    <3>1. search' = [search EXCEPT !.region_left = m, !.l = t + 1, !.any_matches = TRUE]
      BY <1>2, <2>2, <2>5, Zenon DEF compare
    <3>2. GoesOn(T, t + 1, r, m, addr, TRUE)
      <4>1. search' \in SearchType
        BY <1>1, <2>0, <3>1, Retyped, Zenon
      <4>2. QED BY <1>0, <1>1, <1>2, <3>1, <4>1, Zenon DEF GoesOn, SearchType
    <3>3. Early(T, m)
      <4>1. stabs[m].n_value <= eip
        BY <1>2, <1>4, <2>3, <2>5
      <4>2. QED BY <2>1, <4>1, Zenon DEF Early
    <3>4. L <= m /\ m <= t + 1 /\ m <= R /\ \A i \in m + 1 .. (t + 1) - 1 : stabs[i].n_type # T
      BY <1>1, <1>3, <2>1, <2>3, <2>4
    <3>5. QED BY <1>0, <1>4, <3>2, <3>3, <3>4, GoesOnLooks, Zenon
  <2>6. CASE stabs[m].n_value > search.addr /\ ~ (stabs[m].n_value < search.addr)
    <3>1. search' = [search EXCEPT !.region_right = m - 1, !.r = m - 1, !.any_matches = TRUE]
      BY <1>2, <2>2, <2>6, Zenon DEF compare
    <3>2. GoesOn(T, l, m - 1, lo, addr, TRUE)
      <4>1. search' \in SearchType
        BY <1>1, <2>0, <3>1, Retyped, Zenon
      <4>2. QED BY <1>0, <1>1, <1>2, <3>1, <4>1, Zenon DEF GoesOn, SearchType
    <3>3. L <= m - 1 /\ m - 1 <= R
      BY <1>1, <2>1, <2>3
    <3>4. Late(T, m - 1, R)
      <4>1. stabs[m].n_value > eip
        BY <1>2, <1>4, <2>3, <2>6
      <4>2. \A i \in m .. R : stabs[i].n_type = T => stabs[i].n_value > eip
        BY <1>1, <2>1, <2>3, <4>1, Ordered
      <4>3. (m - 1) + 1 = m
        OBVIOUS
      <4>4. QED BY <2>1, <4>2, <4>3, Zenon DEF Late
    <3>5. QED BY <1>0, <1>4, <3>2, <3>3, <3>4, GoesOnLooks, Zenon
  <2>7. CASE ~ (stabs[m].n_value > search.addr) /\ ~ (stabs[m].n_value < search.addr)
    <3>1. search' = [search EXCEPT !.region_left = m, !.l = m, !.addr = addr + 1, !.any_matches = TRUE]
      BY <1>2, <2>2, <2>7, Zenon DEF compare
    <3>2. GoesOn(T, m, r, m, addr + 1, TRUE)
      <4>1. search' \in SearchType
        BY <1>1, <2>0, <3>1, Retyped, Zenon
      <4>2. QED BY <1>0, <1>1, <1>2, <3>1, <4>1, Zenon DEF GoesOn, SearchType
    <3>3. addr = eip /\ stabs[m].n_value = eip
      <4>1. stabs[m].n_value = addr
        BY <1>2, <2>3, <2>7
      <4>2. ASSUME addr = eip + 1 PROVE FALSE
        <5>1. PICK i \in 0 .. LastStab : stabs[i].n_type = T /\ stabs[i].n_value = eip
          BY <1>4, <4>2, Zenon
        <5>2. stabs[m].n_value # stabs[i].n_value + 1
          BY <1>1, <2>1, <2>3, <5>1, Ordered, SMT
        <5>3. QED BY <4>1, <4>2, <5>1, <5>2, Zenon
      <4>3. QED BY <1>4, <4>1, <4>2, Zenon
    <3>4. /\ addr + 1 \in {eip, eip + 1} /\ L <= m /\ m <= m /\ m <= R
          /\ \A i \in m + 1 .. m - 1 : stabs[i].n_type # T
      BY <2>3, <3>3
    <3>5. Early(T, m)
      BY <2>1, <3>3 DEF Early
    <3>6. QED BY <1>0, <1>4, <2>1, <2>3, <3>2, <3>3, <3>4, <3>5, GoesOnLooks, Zenon
  <2>8. QED BY <2>5, <2>6, <2>7, Zenon
<1>9. QED BY <1>7, <1>8, Zenon

(* The search ends with these values.                                      *)
EndsWith(T, lo, hi) ==
  /\ search' \in SearchType /\ search'.type = T /\ search'.done
  /\ search'.region_left = lo /\ search'.region_right = hi

LEMMA EndsWithLooks ==
  ASSUME NEW T, NEW L, NEW R, Looks(T, L, R), UNCHANGED <<stabs, eip>>,
         NEW lo, NEW hi, EndsWith(T, lo, hi),
         \/ lo = L /\ hi = L - 1 /\ \A i \in L .. R : stabs[i].n_type # T
         \/ /\ L <= lo /\ lo <= hi /\ hi <= R /\ Late(T, hi, R)
            /\ \A i \in lo + 1 .. hi : stabs[i].n_type # T
            /\ Early(T, lo) \/ lo = L
  PROVE  Looks(T, L, R)'
<1>1. Late(T, hi, R)' = Late(T, hi, R) /\ Early(T, lo)' = Early(T, lo)
  BY Zenon DEF Late, Early
<1>2. Result(T, L, R)'
  BY <1>1, ZenonT(30) DEF Result, EndsWith
<1>3. QED BY <1>2, Zenon DEF Looks, EndsWith

LEMMA FinishLooks ==
  ASSUME stabs \in Tables, eip \in Nat, NEW T, NEW L, NEW R, Looks(T, L, R), finish
  PROVE  Looks(T, L, R)'
<1>0. ~ search.done /\ search.l > search.r /\ UNCHANGED <<stabs, eip>>
  BY Zenon DEF finish
<1>1. /\ search \in SearchType /\ search.type = T /\ L \in Nat /\ R \in Nat
      /\ R <= LastStab /\ stabs[L].n_type # T /\ Looping(T, L, R)
  BY <1>0, Zenon DEF Looks
<1>2. PICK l \in Int, r \in Int, lo \in Int :
        l = search.l /\ r = search.r /\ r = search.region_right /\ lo = search.region_left
  <2>1. /\ search.l \in Int /\ search.r \in Int /\ search.region_left \in Int
        /\ search.region_right = search.r
    BY <1>1, Zenon DEF SearchType, Looping
  <2>2. QED BY <2>1, Zenon
<1>3. /\ L <= lo /\ lo <= l /\ lo <= R /\ L <= r /\ r <= R /\ l > r
      /\ \A i \in lo + 1 .. l - 1 : stabs[i].n_type # T
      /\ Early(T, lo) \/ (lo = L /\ \A i \in L .. l - 1 : stabs[i].n_type # T)
      /\ Late(T, r, R) /\ search.any_matches \in BOOLEAN
      /\ search.any_matches \/ (lo = L /\ r = R)
  BY <1>0, <1>1, <1>2, ZenonT(30) DEF Looping, SearchType
<1>4. search' = [search EXCEPT
          !.done = TRUE,
          !.region_right = IF search.any_matches THEN r ELSE lo - 1,
          !.region_left = IF search.any_matches /\ r >= lo
                          THEN Max(Matches(lo + 1, r) \cup {lo})
                          ELSE IF search.any_matches THEN r ELSE lo]
  BY <1>2, Zenon DEF finish
<1>5. CASE search.any_matches
  <2>1. lo <= r
    <3>1. CASE Early(T, lo)
      <4>1. stabs[lo].n_type = T /\ ~ (stabs[lo].n_value > eip)
        <5>1. lo \in 0 .. LastStab
          BY <1>1, <1>3, Ordered
        <5>2. QED BY <3>1, <5>1, Ordered DEF Early
      <4>2. lo \notin r + 1 .. R
        BY <1>3, <4>1, Zenon DEF Late
      <4>3. QED BY <1>1, <1>3, <4>2
    <3>2. CASE lo = L
      BY <1>3, <3>2, Zenon
    <3>3. QED BY <1>3, <3>1, <3>2, Zenon
  <2>2. \A i \in lo + 1 .. r : stabs[i].n_type # T
    BY <1>3, <2>1
  <2>3. Max(Matches(lo + 1, r) \cup {lo}) = lo
    <3>1. Matches(lo + 1, r) \cup {lo} = {lo}
      BY <1>1, <2>2, Zenon DEF Matches
    <3>2. Max({lo}) = lo
      BY MaxEq
    <3>3. QED BY <3>1, <3>2, Zenon
  <2>4. search' = [search EXCEPT !.done = TRUE, !.region_right = r, !.region_left = lo]
    <3>1. r >= lo
      BY <2>1, Zenon
    <3>2. QED BY <1>4, <1>5, <2>3, <3>1, Zenon
  <2>5. EndsWith(T, lo, r)
    <3>1. search' \in SearchType
      BY <1>1, <2>4, Zenon DEF SearchType
    <3>2. QED BY <1>1, <2>4, <3>1, Zenon DEF EndsWith, SearchType
  <2>6. QED BY <1>0, <1>3, <2>1, <2>2, <2>5, EndsWithLooks, Zenon
<1>6. CASE ~ search.any_matches
  <2>1. lo = L /\ r = R
    BY <1>3, <1>6, Zenon
  <2>2. \A i \in L .. l - 1 : stabs[i].n_type # T
    BY <1>1, <1>3, <2>1, Zenon DEF Early
  <2>3. \A i \in L .. R : stabs[i].n_type # T
    BY <1>1, <1>3, <2>1, <2>2
  <2>4. search' = [search EXCEPT !.done = TRUE, !.region_right = L - 1, !.region_left = L]
    BY <1>4, <1>6, <2>1, Zenon
  <2>5. EndsWith(T, L, L - 1)
    <3>0. L \in Int /\ L - 1 \in Int
      BY <1>1
    <3>1. search' \in SearchType
      BY <1>1, <2>4, <3>0, Zenon DEF SearchType
    <3>2. QED BY <1>1, <2>4, <3>1, Zenon DEF EndsWith, SearchType
  <2>6. QED BY <1>0, <2>3, <2>5, EndsWithLooks, Zenon
<1>7. QED BY <1>3, <1>5, <1>6, Zenon

(* A search begins with nothing known.                                     *)
LEMMA CallLooks ==
  ASSUME NEW T \in {"SO", "FUN"}, NEW L \in Nat, NEW R \in Nat, L <= R, R <= LastStab,
         eip' \in Nat, stabs'[L].n_type # T, search' = Call(T, L, R, eip')
  PROVE  Looks(T, L, R)'
<1>1. /\ search' \in SearchType /\ search'.type = T /\ ~ search'.done
      /\ search'.l = L /\ search'.r = R /\ search'.region_left = L /\ search'.region_right = R
      /\ search'.addr = eip' /\ ~ search'.any_matches
  <2>1. search' \in SearchType
    BY DEF Call, SearchType
  <2>2. QED BY <2>1, Zenon DEF Call
<1>2. /\ \A i \in L + 1 .. L - 1 : FALSE
      /\ \A i \in L .. L - 1 : FALSE
      /\ \A i \in R + 1 .. R : FALSE
      /\ ~ (R < R) /\ L <= L /\ R <= R
  BY SMT
<1>6. eip' # eip' + 1
  <2>1. \A a \in Nat : a # a + 1
    OBVIOUS
  <2>2. QED BY <2>1, Zenon
<1>3. Late(T, R, R)'
  BY <1>2, Zenon DEF Late
<1>4. Looping(T, L, R)'
  BY <1>1, <1>2, <1>3, <1>6, Zenon DEF Looping
<1>5. QED BY <1>1, <1>4, Zenon DEF Looks-----------------------------------------------------------------------------
(* The steps of debuginfo_eip.                                             *)

LEMMA BeginInv ==
  ASSUME NEW t \in Tables, NEW addr \in Addresses, debuginfo_eip(t, addr), StabInv
  PROVE  StabInv'
<1>1. /\ stabs' = t /\ eip' = addr /\ found' = found /\ addr \in Nat
  BY AddressAssumption, Zenon DEF debuginfo_eip
<1>2. addr <= addr
  BY <1>1
<1>3. CASE /\ search' = Call("SO", 0, LastStab, addr)
           /\ info' = [NoInfo EXCEPT !.stage = "file", !.fn_addr = addr]
  <2>1. info' = [stage |-> "file", fn |-> -1, fn_addr |-> addr, line |-> -1, file |-> -1, narg |-> 0]
    BY <1>3, Zenon DEF NoInfo
  <2>2. Looks("SO", 0, LastStab)'
    <3>1. stabs'[0].n_type # "SO"
      BY <1>1, SortedAssumption, Zenon
    <3>2. 0 \in Nat /\ LastStab \in Nat /\ 0 <= LastStab /\ LastStab <= LastStab
      BY StabTableAssumption
    <3>3. QED BY <1>1, <1>3, <3>1, <3>2, CallLooks, Zenon
  <2>3. QED BY <1>1, <1>2, <2>1, <2>2, Zenon DEF StabInv, FunctionRight
<1>4. CASE info' = [NoInfo EXCEPT !.stage = "error", !.fn_addr = addr]
  <2>1. info' = [stage |-> "error", fn |-> -1, fn_addr |-> addr, line |-> -1, file |-> -1, narg |-> 0]
    BY <1>4, Zenon DEF NoInfo
  <2>2. QED BY <1>1, <2>1, Zenon DEF StabInv, FunctionRight
<1>5. QED BY <1>3, <1>4, Zenon DEF debuginfo_eip

LEMMA SearchingInv ==
  ASSUME StabInv, halve \/ finish
  PROVE  StabInv'
<1>1. UNCHANGED <<stabs, eip, found, info>>
  BY Zenon DEF halve, finish
<1>2. FunctionRight' = FunctionRight /\ InFile' = InFile
  BY <1>1, Zenon DEF FunctionRight, InFile, Before, FirstAfter
<1>3. ASSUME NEW T, NEW L, NEW R, Looks(T, L, R), stabs \in Tables, eip \in Nat
      PROVE  Looks(T, L, R)'
  BY <1>3, HalveLooks, FinishLooks, Zenon
<1>4. info.stage = "file" => Looks("SO", 0, LastStab)'
  BY <1>3, Zenon DEF StabInv
<1>5. PICK lo, hi : lo = found.lfile /\ hi = found.rfile
  BY Zenon
<1>6. info.stage = "function" => Looks("FUN", lo, hi)'
  BY <1>3, <1>5, Zenon DEF StabInv
<1>7. found'.lfile = lo /\ found'.rfile = hi
  BY <1>1, <1>5, Zenon
<1>8. QED BY <1>1, <1>2, <1>4, <1>6, <1>7, Zenon DEF StabInv

LEMMA FileFoundInv ==
  ASSUME StabInv, file_found
  PROVE  StabInv'
<1>1. /\ search.done /\ info.stage = "file" /\ stabs' = stabs /\ eip' = eip
      /\ stabs \in Tables /\ eip \in Nat /\ Looks("SO", 0, LastStab) /\ info.fn_addr = eip
  BY Zenon DEF file_found, Finished, StabInv
<1>2. CASE search.region_left = 0
  <2>1. info' = [info EXCEPT !.stage = "error"] /\ found' = found
    BY <1>2, Zenon DEF file_found
  <2>2. info'.stage = "error" /\ info' = [stage |-> info'.stage, fn |-> info'.fn, fn_addr |-> info'.fn_addr,
                line |-> info'.line, file |-> info'.file, narg |-> info'.narg]
    BY <2>1, Zenon DEF StabInv
  <2>3. QED BY <1>1, <2>1, <2>2, Zenon DEF StabInv, FunctionRight
<1>3. CASE search.region_left # 0
  <2>1. PICK lo \in Int, hi \in Int : lo = search.region_left /\ hi = search.region_right
    <3>1. search.region_left \in Int /\ search.region_right \in Int
      BY <1>1, Zenon DEF Looks, SearchType
    <3>2. QED BY <3>1, Zenon
  <2>2. /\ info' = [info EXCEPT !.stage = "function"]
        /\ found' = [found EXCEPT !.lfile = lo, !.rfile = hi]
        /\ search' = Call("FUN", lo, hi, eip)
    BY <1>3, <2>1, Zenon DEF file_found
  <2>3. 0 <= lo /\ lo <= hi /\ hi <= LastStab /\ Early("SO", lo)
    BY <1>1, <1>3, <2>1, Zenon DEF Looks, Result
  <2>4. lo \in Nat /\ hi \in Nat
    BY <2>1, <2>3
  <2>5. Looks("FUN", lo, hi)'
    BY <1>1, <2>2, <2>3, <2>4, CallLooks, Zenon DEF Early
  <2>6. /\ info'.stage = "function" /\ info'.fn_addr = eip
        /\ info' = [stage |-> info'.stage, fn |-> info'.fn, fn_addr |-> info'.fn_addr,
                line |-> info'.line, file |-> info'.file, narg |-> info'.narg]
    BY <1>1, <2>2, Zenon DEF StabInv
  <2>7. /\ found'.lfile = lo /\ found'.rfile = hi
        /\ found' = [lfile |-> found'.lfile, rfile |-> found'.rfile, lfun |-> found'.lfun, rfun |-> found'.rfun]
    BY <2>2, Zenon DEF StabInv
  <2>8. eip <= eip
    BY <1>1
  <2>9. InFile'
    BY <1>1, <2>3, <2>7, Zenon DEF InFile, Early
  <2>10. FunctionRight'
    BY <1>1, <2>6, <2>8, Zenon DEF FunctionRight
  <2>11. QED BY <1>1, <2>5, <2>6, <2>7, <2>9, <2>10, Zenon DEF StabInv
<1>4. QED BY <1>2, <1>3, Zenon

(* A search for a function in L .. R that finds lo .. hi.                  *)
Finds(L, R, lo, hi) ==
  /\ R <= LastStab /\ stabs[L].n_type # "FUN"
  /\ L <= lo /\ lo <= hi /\ hi <= R /\ Late("FUN", hi, R)
  /\ \A i \in lo + 1 .. hi : stabs[i].n_type # "FUN"
  /\ Early("FUN", lo) \/ lo = L

(* A function is found when it is the last one that starts early enough.   *)
LEMMA FunctionIs ==
  ASSUME stabs \in Tables, eip \in Nat, NEW L \in Nat, NEW R \in Nat,
         NEW lo \in Int, NEW hi \in Int, Finds(L, R, lo, hi), Before("FUN", L, R, eip) # {}
  PROVE  /\ lo = Max(Before("FUN", L, R, eip))
         /\ hi = Min(FirstAfter("FUN", lo + 1, R) \cup {R + 1}) - 1
<1>0. /\ R <= LastStab /\ stabs[L].n_type # "FUN"
      /\ L <= lo /\ lo <= hi /\ hi <= R /\ Late("FUN", hi, R)
      /\ \A i \in lo + 1 .. hi : stabs[i].n_type # "FUN"
      /\ Early("FUN", lo) \/ lo = L
  BY Zenon DEF Finds
<1>1. PICK S : S = Before("FUN", L, R, eip)
  BY Zenon
<1>2. \A i : i \in S <=> i \in L .. R /\ stabs[i].n_type = "FUN" /\ stabs[i].n_value <= eip
  BY <1>1, Zenon DEF Before
<1>3. \A i \in L .. R : stabs[i].n_value \in Nat
  BY <1>0, Ordered
<1>4. \A i \in S : i <= lo
  <2> TAKE s \in S
  <2>1. s \in L .. R /\ stabs[s].n_type = "FUN" /\ stabs[s].n_value <= eip
    BY <1>2, Zenon
  <2>2. ~ (stabs[s].n_value > eip)
    BY <1>3, <2>1
  <2>3. s \notin hi + 1 .. R /\ s \notin lo + 1 .. hi
    BY <1>0, <2>1, <2>2, Zenon DEF Late
  <2>4. QED BY <1>0, <2>1, <2>3
<1>5. lo \in S
  <2>1. Early("FUN", lo)
    <3>1. PICK s \in S : s \in L .. R /\ stabs[s].n_type = "FUN" /\ s <= lo
      BY <1>1, <1>2, <1>4, Zenon
    <3>2. lo # L
      BY <1>0, <3>1
    <3>3. QED BY <1>0, <3>2, Zenon
  <2>2. lo \in L .. R
    BY <1>0
  <2>3. QED BY <1>2, <2>1, <2>2, Zenon DEF Early
<1>6. Max(S) = lo
  <2>1. S \subseteq Int
    BY <1>2
  <2>2. QED BY <1>4, <1>5, <2>1, MaxEq, Zenon
<1>7. PICK U : U = FirstAfter("FUN", lo + 1, R) \cup {R + 1}
  BY Zenon
<1>8. \A i : i \in U <=> i = R + 1 \/ (i \in lo + 1 .. R /\ stabs[i].n_type = "FUN")
  BY <1>7, Zenon DEF FirstAfter
<1>9. U \subseteq Int /\ \A i \in U : hi + 1 <= i
  BY <1>0, <1>8
<1>10. hi + 1 \in U
  <2>1. CASE hi < R
    <3>1. stabs[hi + 1].n_type = "FUN"
      BY <1>0, <2>1, Zenon DEF Late
    <3>2. hi + 1 \in lo + 1 .. R
      BY <1>0, <2>1
    <3>3. QED BY <1>8, <3>1, <3>2, Zenon
  <2>2. CASE hi = R
    BY <1>8, <2>2, Zenon
  <2>3. QED BY <1>0, <2>1, <2>2
<1>11. Min(U) = hi + 1
  BY <1>9, <1>10, MinEq, Zenon
<1>12. hi = Min(U) - 1
  BY <1>11
<1>13. QED BY <1>1, <1>6, <1>7, <1>12, Zenon

LEMMA FunctionFoundInv ==
  ASSUME StabInv, function_found
  PROVE  StabInv'
<1>1. /\ search.done /\ info.stage = "function" /\ stabs' = stabs /\ eip' = eip
      /\ stabs \in Tables /\ eip \in Nat /\ Looks("FUN", found.lfile, found.rfile) /\ InFile
      /\ info.fn_addr = eip
  BY Zenon DEF function_found, Finished, StabInv
<1>2. PICK lo \in Int, hi \in Int : lo = search.region_left /\ hi = search.region_right
  <2>1. search.region_left \in Int /\ search.region_right \in Int
    BY <1>1, Zenon DEF Looks, SearchType
  <2>2. QED BY <2>1, Zenon
<1>3. PICK L \in Nat, R \in Nat :
        /\ L = found.lfile /\ R = found.rfile /\ L <= R /\ R <= LastStab /\ stabs[L].n_type # "FUN"
        /\ Result("FUN", L, R)
  BY <1>1, Zenon DEF Looks
<1>4. found' = [found EXCEPT !.lfun = lo, !.rfun = hi]
  BY <1>2, Zenon DEF function_found
<1>5. /\ found'.lfile = L /\ found'.rfile = R /\ found'.rfun = hi
      /\ found' = [lfile |-> found'.lfile, rfile |-> found'.rfile, lfun |-> found'.lfun, rfun |-> found'.rfun]
  BY <1>3, <1>4, Zenon DEF StabInv
<1>6. Before("FUN", L, R, eip)' = Before("FUN", L, R, eip)
  BY <1>1, Zenon DEF Before
<1>7. CASE lo <= hi
  <2>1. info' = [info EXCEPT !.stage = "line", !.fn = lo, !.fn_addr = stabs[lo].n_value]
    BY <1>2, <1>7, Zenon DEF function_found
  <2>2. /\ info'.stage = "line" /\ info'.fn = lo /\ info'.fn_addr = stabs[lo].n_value
        /\ info' = [stage |-> info'.stage, fn |-> info'.fn, fn_addr |-> info'.fn_addr,
                line |-> info'.line, file |-> info'.file, narg |-> info'.narg]
    BY <2>1, Zenon DEF StabInv
  <2>3. /\ L <= lo /\ hi <= R /\ Late("FUN", hi, R)
        /\ \A i \in lo + 1 .. hi : stabs[i].n_type # "FUN"
        /\ Early("FUN", lo) \/ lo = L
    <3>1. ~ (lo = L /\ hi = L - 1)
      BY <1>7
    <3>2. QED BY <1>2, <1>3, <3>1, Zenon DEF Result
  <2>4. stabs[lo].n_value <= eip
    BY <1>1, <1>3, <2>3, Zenon DEF Early, InFile
  <2>5. Before("FUN", L, R, eip) # {} =>
          /\ lo = Max(Before("FUN", L, R, eip))
          /\ hi = Min(FirstAfter("FUN", lo + 1, R) \cup {R + 1}) - 1
    <3>1. Finds(L, R, lo, hi)
      BY <1>3, <1>7, <2>3, Zenon DEF Finds
    <3>2. QED BY <1>1, <3>1, FunctionIs, Zenon
  <2>6. FirstAfter("FUN", lo + 1, R)' = FirstAfter("FUN", lo + 1, R)
    BY <1>1, Zenon DEF FirstAfter
  <2>7. FunctionRight'
    BY <1>1, <1>5, <1>6, <2>2, <2>4, <2>5, <2>6, Zenon DEF FunctionRight
  <2>8. QED BY <1>1, <1>5, <2>2, <2>7, Zenon DEF StabInv
<1>8. CASE ~ (lo <= hi)
  <2>1. info' = [info EXCEPT !.stage = "line"]
    BY <1>2, <1>8, Zenon DEF function_found
  <2>2. /\ info'.stage = "line" /\ info'.fn_addr = eip
        /\ info' = [stage |-> info'.stage, fn |-> info'.fn, fn_addr |-> info'.fn_addr,
                line |-> info'.line, file |-> info'.file, narg |-> info'.narg]
    BY <1>1, <2>1, Zenon DEF StabInv
  <2>3. \A i \in L .. R : stabs[i].n_type # "FUN"
    BY <1>2, <1>3, <1>8, Zenon DEF Result
  <2>4. Before("FUN", L, R, eip) = {} /\ eip <= eip
    <3>1. Before("FUN", L, R, eip) = {}
      BY <2>3, Zenon DEF Before
    <3>2. QED BY <1>1, <3>1
  <2>5. FunctionRight'
    BY <1>1, <1>5, <1>6, <2>2, <2>4, Zenon DEF FunctionRight
  <2>6. QED BY <1>1, <1>5, <2>2, <2>5, Zenon DEF StabInv
<1>9. QED BY <1>7, <1>8, Zenon

LEMMA LineFoundInv ==
  ASSUME StabInv, line_found
  PROVE  StabInv'
<1>1. info.stage = "line" /\ UNCHANGED <<stabs, eip, found>>
  BY Zenon DEF line_found, Finished
<1>2. PICK line, file, narg :
        info' = [info EXCEPT !.stage = "done", !.line = line, !.file = file, !.narg = narg]
  BY Zenon DEF line_found
<1>3. /\ info'.stage = "done" /\ info'.fn = info.fn /\ info'.fn_addr = info.fn_addr
      /\ info' = [stage |-> info'.stage, fn |-> info'.fn, fn_addr |-> info'.fn_addr,
                line |-> info'.line, file |-> info'.file, narg |-> info'.narg]
  BY <1>2, Zenon DEF StabInv
<1>4. FunctionRight'
  BY <1>1, <1>3, Zenon DEF StabInv, FunctionRight, Before, FirstAfter
<1>5. QED BY <1>1, <1>3, <1>4, Zenon DEF StabInv
-----------------------------------------------------------------------------
(* What debuginfo_eip knows at every step, for every table whose SO and    *)
(* FUN stabs are sorted (kdebug.c:25) and in which no two stabs of one of  *)
(* these types are one byte apart.                                         *)
THEOREM StabInvariance == StabSpec => []StabInv
<1>1. StabInit => StabInv
  <2> SUFFICES ASSUME StabInit PROVE StabInv
    BY Zenon
  <2>1. info = [stage |-> "idle", fn |-> -1, fn_addr |-> 0, line |-> -1, file |-> -1, narg |-> 0]
    BY Zenon DEF StabInit, NoInfo
  <2>2. eip = 0 /\ 0 <= 0 /\ 0 \in Nat
    BY DEF StabInit
  <2>3. found = [lfile |-> 0, rfile |-> 0, lfun |-> 0, rfun |-> 0]
    BY Zenon DEF StabInit
  <2>4. QED BY <2>1, <2>2, <2>3, Zenon DEF StabInv, FunctionRight
<1>2. StabInv /\ [StabNext]_stabVars => StabInv'
  <2> SUFFICES ASSUME StabInv, [StabNext]_stabVars PROVE StabInv'
    BY Zenon
  <2>1. CASE UNCHANGED stabVars
    BY <2>1, Zenon DEF stabVars, StabInv, Looks, Looping, Result, Late, Early, InFile, FunctionRight,
                       Before, FirstAfter
  <2>2. CASE StabNext
    BY <2>2, BeginInv, SearchingInv, FileFoundInv, FunctionFoundInv, LineFoundInv, Zenon DEF StabNext
  <2>3. QED BY <2>1, <2>2, Zenon
<1>3. QED BY <1>1, <1>2, PTL DEF StabSpec

(* debuginfo_eip reports the last function of the file that starts at or   *)
(* before the address, and never one that starts after it (kdebug.c:39),   *)
(* for the same tables.                                                    *)
THEOREM FunctionIsRight == StabSpec => []FunctionRight
<1>1. StabInv => FunctionRight
  BY Zenon DEF StabInv
<1>2. QED BY <1>1, StabInvariance, PTL
-----------------------------------------------------------------------------
(* What init_stack leaves in the stack page: at A - 8 argc and argv, at A  *)
(* the pointers to the strings and a null pointer, and the strings.        *)
StackHas(page, args, A) ==
  /\ A \in Nat /\ A >= 8 /\ A % 4 = 0 /\ A + 4 * (Len(args) + 1) <= PgBytes
  /\ \A b \in 0 .. 3 : page[A - 8 + b] = Word(Len(args), b)
  /\ \A b \in 0 .. 3 : page[A - 4 + b] = Word(UTEMP2USTACK(A), b)
  /\ \A n \in 1 .. Len(args) : \E s \in Nat :
       /\ \A b \in 0 .. 3 : page[A + 4 * (n - 1) + b] = Word(UTEMP2USTACK(s), b)
       /\ s + args[n] < PgBytes
       /\ \A k \in 1 .. args[n] + 1 : page[s + k - 1] = Character(n, IF k > args[n] THEN 0 ELSE k)
  /\ page[A + 4 * Len(args)] = Word(0, 0)
-----------------------------------------------------------------------------
(* Pages and addresses.                                                    *)

LEMMA TimesLess ==
  ASSUME NEW P \in Nat, P > 0, NEW p \in Int, NEW q \in Int
  PROVE  /\ p < q <=> p * P < q * P
         /\ p <= q <=> p * P <= q * P
         /\ (p + 1) * P = p * P + P
         /\ p * P \in Int
<1>1. \A d \in Nat : d > 0 => d * P > 0
  OBVIOUS
<1>2. (q - p) * P = q * P - p * P /\ (p - q) * P = p * P - q * P
  OBVIOUS
<1>3. p < q => p * P < q * P
  BY <1>1, <1>2
<1>4. q < p => q * P < p * P
  BY <1>1, <1>2
<1>5. (p + 1) * P = p * P + P /\ p * P \in Int /\ q * P \in Int
  OBVIOUS
<1>6. QED BY <1>3, <1>4, <1>5

LEMMA DivMod ==
  ASSUME NEW P \in Nat, P > 0, NEW a \in Int
  PROVE  /\ a \div P \in Int /\ a % P \in 0 .. P - 1
         /\ a = (a \div P) * P + (a % P)
OBVIOUS

LEMMA PageOf ==
  ASSUME NEW P \in Nat, P > 0, NEW q \in Int, NEW r \in 0 .. P - 1
  PROVE  (q * P + r) \div P = q /\ (q * P + r) % P = r
<1>1. PICK a \in Int : a = q * P + r
  OBVIOUS
<1>2. PICK d \in Int, m \in 0 .. P - 1 : d = a \div P /\ m = a % P /\ a = d * P + m
  BY DivMod, Zenon
<1>3. d * P \in Int /\ q * P \in Int
  OBVIOUS
<1>4. ~ (d < q)
  <2>1. d < q => (d + 1) * P <= q * P
    BY TimesLess
  <2>2. (d + 1) * P = d * P + P
    BY TimesLess, Zenon
  <2>3. QED BY <1>1, <1>2, <1>3, <2>1, <2>2
<1>5. ~ (q < d)
  <2>1. q < d => (q + 1) * P <= d * P
    BY TimesLess
  <2>2. (q + 1) * P = q * P + P
    BY TimesLess, Zenon
  <2>3. QED BY <1>1, <1>2, <1>3, <2>1, <2>2
<1>6. d = q
  BY <1>4, <1>5
<1>7. m = r
  BY <1>1, <1>2, <1>3, <1>6
<1>8. QED BY <1>1, <1>2, <1>6, <1>7, Zenon
-----------------------------------------------------------------------------
(* The lengths of the strings.                                             *)

(* f has the lengths of the first n strings.                               *)
Upto(args, n, f) ==
  \A k \in 0 .. n : f[k] = IF k = 0 THEN 0 ELSE f[k - 1] + args[k] + 1

LEMMA UptoUnique ==
  ASSUME NEW args, NEW n \in Nat, NEW f, NEW g, Upto(args, n, f), Upto(args, n, g)
  PROVE  \A k \in 0 .. n : f[k] = g[k]
<1> DEFINE Bad == {k \in 0 .. n : f[k] # g[k]}
<1>1. SUFFICES ASSUME Bad # {} PROVE FALSE
  BY Zenon
<1>2. Bad \subseteq Nat
  OBVIOUS
<1>3. PICK x \in Bad : \A y \in Bad : x <= y
  BY <1>1, <1>2, Least, Zenon
<1>4. x \in 0 .. n /\ f[x] # g[x]
  BY <1>3, Zenon
<1>5. CASE x = 0
  BY <1>4, <1>5, Zenon DEF Upto
<1>6. CASE x # 0
  <2>1. x - 1 \in 0 .. n /\ ~ (x <= x - 1)
    BY <1>4, <1>6
  <2>2. f[x - 1] = g[x - 1]
    BY <1>3, <2>1, Zenon
  <2>3. QED BY <1>4, <1>6, <2>2, Zenon DEF Upto
<1>7. QED BY <1>5, <1>6, Zenon

LEMMA UptoExists ==
  ASSUME NEW args
  PROVE  \A n \in Nat : \E f : Upto(args, n, f)
<1> DEFINE Bad == {n \in Nat : ~ \E f : Upto(args, n, f)}
<1>1. SUFFICES ASSUME Bad # {} PROVE FALSE
  BY Zenon
<1>2. Bad \subseteq Nat
  BY Zenon
<1>3. PICK x \in Bad : \A y \in Bad : x <= y
  BY <1>1, <1>2, Least, Zenon
<1>4. x \in Nat /\ ~ \E f : Upto(args, x, f)
  BY <1>3, Zenon
<1>5. CASE x = 0
  <2>1. PICK f : f = [k \in 0 .. 0 |-> 0]
    BY Zenon
  <2>2. Upto(args, 0, f)
    <3>1. \A k \in 0 .. 0 : k = 0
      OBVIOUS
    <3>2. QED BY <2>1, <3>1, Zenon DEF Upto
  <2>3. QED BY <1>4, <1>5, <2>2, Zenon
<1>6. CASE x # 0
  <2>1. x - 1 \in Nat /\ ~ (x <= x - 1)
    BY <1>4, <1>6
  <2>2. PICK g : Upto(args, x - 1, g)
    BY <1>3, <2>1, Zenon
  <2>3. PICK f : f = [k \in 0 .. x |-> IF k = x THEN g[x - 1] + args[x] + 1 ELSE g[k]]
    BY Zenon
  <2>4. x \in 0 .. x /\ x - 1 \in 0 .. x /\ x - 1 # x
    BY <2>1, <1>4
  <2>5. f[x] = f[x - 1] + args[x] + 1
    BY <2>3, <2>4, Zenon
  <2>6. ASSUME NEW k \in 0 .. x, k # x
        PROVE  f[k] = IF k = 0 THEN 0 ELSE f[k - 1] + args[k] + 1
    <3>1. k \in 0 .. x - 1 /\ (k # 0 => k - 1 \in 0 .. x /\ k - 1 # x)
      BY <1>4, <2>6
    <3>2. g[k] = IF k = 0 THEN 0 ELSE g[k - 1] + args[k] + 1
      BY <2>2, <3>1, Zenon DEF Upto
    <3>3. f[k] = g[k] /\ (k # 0 => f[k - 1] = g[k - 1])
      BY <2>3, <2>6, <3>1, Zenon
    <3>4. QED BY <3>2, <3>3, Zenon
  <2>7. Upto(args, x, f)
    BY <1>6, <2>5, <2>6, Zenon DEF Upto
  <2>8. QED BY <1>4, <2>7, Zenon
<1>7. QED BY <1>5, <1>6, Zenon

(* The recursion defines a function.                                       *)
LEMMA LengthsIs ==
  ASSUME NEW args
  PROVE  Lengths(args) = [n \in Nat |-> IF n = 0 THEN 0 ELSE Lengths(args)[n - 1] + args[n] + 1]
<1> DEFINE Some(n) == CHOOSE f : Upto(args, n, f)
<1>1. \A n \in Nat : Upto(args, n, Some(n))
  BY UptoExists, Zenon
<1> HIDE DEF Some
<1>2. PICK h : h = [n \in Nat |-> Some(n)[n]]
  BY Zenon
<1>3. ASSUME NEW n \in Nat
      PROVE  h[n] = IF n = 0 THEN 0 ELSE h[n - 1] + args[n] + 1
  <2>1. h[n] = Some(n)[n]
    BY <1>2, Zenon
  <2>2. n \in 0 .. n
    OBVIOUS
  <2>3. Some(n)[n] = IF n = 0 THEN 0 ELSE Some(n)[n - 1] + args[n] + 1
    BY <1>1, <2>2, Zenon DEF Upto
  <2>4. ASSUME n # 0 PROVE Some(n)[n - 1] = h[n - 1]
    <3>1. n - 1 \in Nat /\ n - 1 \in 0 .. n - 1 /\ \A k \in 0 .. n - 1 : k \in 0 .. n
      BY <2>4
    <3>2. Upto(args, n - 1, Some(n))
      BY <1>1, <3>1, Zenon DEF Upto
    <3>3. Upto(args, n - 1, Some(n - 1))
      BY <1>1, <3>1, Zenon
    <3>4. Some(n)[n - 1] = Some(n - 1)[n - 1]
      <4>1. PICK f, g : f = Some(n) /\ g = Some(n - 1)
        BY Zenon
      <4>2. Upto(args, n - 1, f) /\ Upto(args, n - 1, g)
        BY <3>2, <3>3, <4>1, Zenon
      <4>3. \A k \in 0 .. n - 1 : f[k] = g[k]
        BY <3>1, <4>2, UptoUnique
      <4>4. QED BY <3>1, <4>1, <4>3, Zenon
    <3>5. QED BY <1>2, <3>1, <3>4, Zenon
  <2>5. QED BY <2>1, <2>3, <2>4, Zenon
<1>4. h = [n \in Nat |-> IF n = 0 THEN 0 ELSE h[n - 1] + args[n] + 1]
  BY <1>2, <1>3, Zenon
<1>5. QED BY <1>4, Zenon DEF Lengths

LEMMA LengthsStep ==
  ASSUME NEW args, NEW n \in Nat
  PROVE  Lengths(args)[n] = IF n = 0 THEN 0 ELSE Lengths(args)[n - 1] + args[n] + 1
<1>1. PICK h : h = Lengths(args) /\ h = [k \in Nat |-> IF k = 0 THEN 0 ELSE h[k - 1] + args[k] + 1]
  BY LengthsIs, Zenon
<1>2. h[n] = IF n = 0 THEN 0 ELSE h[n - 1] + args[n] + 1
  BY <1>1, Zenon
<1>3. QED BY <1>1, <1>2, Zenon

(* Each string comes after the ones before it.                             *)
LEMMA LengthsGrow ==
  ASSUME NEW args \in Seq(Nat)
  PROVE  /\ \A n \in 0 .. Len(args) : Lengths(args)[n] \in Nat
         /\ \A m, n \in 0 .. Len(args) : m <= n => Lengths(args)[m] <= Lengths(args)[n]
<1>1. PICK N \in Nat, L \in {Lengths(args)} : N = Len(args)
  OBVIOUS
<1>2. \A n \in 1 .. N : args[n] \in Nat
  BY <1>1
<1>3. L[0] = 0 /\ \A n \in 1 .. N : L[n] = L[n - 1] + args[n] + 1
  <2>1. \A n \in 1 .. N : n \in Nat /\ n # 0
    OBVIOUS
  <2>2. 0 \in Nat
    BY Zenon
  <2>3. QED BY <1>1, <2>1, <2>2, LengthsStep, Zenon
<1>4. \A n \in 0 .. N : L[n] \in Nat
  <2> DEFINE Bad == {n \in 0 .. N : L[n] \notin Nat}
  <2>1. SUFFICES ASSUME Bad # {} PROVE FALSE
    BY Zenon
  <2>2. Bad \subseteq Nat
    OBVIOUS
  <2>3. PICK x \in Bad : \A y \in Bad : x <= y
    BY <2>1, <2>2, Least, Zenon
  <2>4. x \in 0 .. N /\ L[x] \notin Nat
    BY <2>3, Zenon
  <2>5. x \in 1 .. N
    BY <1>3, <2>4
  <2>6. x - 1 \in 0 .. N /\ ~ (x <= x - 1)
    BY <2>5
  <2>7. L[x - 1] \in Nat
    BY <2>3, <2>6, Zenon
  <2>8. QED BY <1>2, <1>3, <2>4, <2>5, <2>7
<1>5. ASSUME NEW m \in 0 .. N, NEW n \in 0 .. N, m <= n PROVE L[m] <= L[n]
  <2> DEFINE Bad == {k \in m .. N : ~ (L[m] <= L[k])}
  <2>1. SUFFICES ASSUME Bad # {} PROVE FALSE
    <3>1. n \in m .. N
      BY <1>5
    <3>2. QED BY <2>1, <3>1, Zenon
  <2>2. Bad \subseteq Nat
    OBVIOUS
  <2>3. PICK x \in Bad : \A y \in Bad : x <= y
    BY <2>1, <2>2, Least, Zenon
  <2>4. x \in m .. N /\ ~ (L[m] <= L[x])
    BY <2>3, Zenon
  <2>5. x # m
    BY <1>4, <2>4
  <2>6. x \in 1 .. N /\ x - 1 \in m .. N /\ ~ (x <= x - 1) /\ x - 1 \in 0 .. N
    BY <2>4, <2>5
  <2>7. L[m] <= L[x - 1]
    BY <2>3, <2>6, Zenon
  <2>8. L[x] = L[x - 1] + args[x] + 1 /\ args[x] \in Nat /\ L[x - 1] \in Nat /\ L[m] \in Nat
    BY <1>2, <1>3, <1>4, <2>6, Zenon
  <2>9. QED BY <2>4, <2>7, <2>8
<1>6. QED BY <1>1, <1>4, <1>5, Zenon
-----------------------------------------------------------------------------
(* init_stack.                                                             *)

LEMMA ByteOfWord ==
  ASSUME NEW w \in Int, w % 4 = 0, NEW b \in 0 .. 3
  PROVE  (w + b) % 4 = b /\ (w + b) - b = w
OBVIOUS

LEMMA WordsOfPage ==
  ASSUME NEW x \in Int, NEW y \in Int, x % 4 = 0, y % 4 = 0
  PROVE  (x + y) % 4 = 0
OBVIOUS

LEMMA StackBuilt ==
  ASSUME sp.args \in Seq(Nat), StackFits,
         NEW page, page = [o \in CellOffsets |-> StackCell(o)]
  PROVE  StackHas(page, sp.args, argv_store)
<1>1. PICK args \in Seq(Nat), N \in Nat : args = sp.args /\ N = Len(args)
  OBVIOUS
<1>2. PICK L : L = Lengths(args)
  BY Zenon
<1>3. /\ \A n \in 0 .. N : L[n] \in Nat
      /\ \A m, n \in 0 .. N : m <= n => L[m] <= L[n]
  BY <1>1, <1>2, LengthsGrow, Zenon
<1>4. \A n \in 1 .. N : L[n] = L[n - 1] + args[n] + 1 /\ args[n] \in Nat
  <2>1. \A n \in 1 .. N : n \in Nat /\ n # 0 /\ args[n] \in Nat
    BY <1>1
  <2>2. QED BY <1>2, <2>1, LengthsStep, Zenon
<1>5. PICK P \in Nat : P = PgBytes /\ P > 0
  BY PageAssumption, Zenon
<1>6. PICK T \in Nat : T = L[N] /\ T = string_size
  <2>1. N \in 0 .. N
    OBVIOUS
  <2>2. QED BY <1>1, <1>2, <1>3, <2>1, Zenon DEF string_size, argc
<1>7. PICK A \in Int : A = argv_store /\ A = ((P - T) \div 4) * 4 - 4 * (N + 1)
  <2>1. argv_store = ((P - T) \div 4) * 4 - 4 * (N + 1)
    BY <1>1, <1>5, <1>6, Zenon DEF argv_store, argc
  <2>2. ((P - T) \div 4) * 4 - 4 * (N + 1) \in Int
    OBVIOUS
  <2>3. QED BY <2>1, <2>2, Zenon
<1>8. A >= 8 /\ A % 4 = 0 /\ A + 4 * (N + 1) <= P - T
  <2>1. A - 8 >= 0
    BY <1>7, Zenon DEF StackFits
  <2>2. QED BY <1>7, <2>1
<1>9. \A n \in 1 .. N : string_store(n) = P - T + L[n - 1]
  BY <1>1, <1>2, <1>5, <1>6, Zenon DEF string_store
<1>10. \A o \in 0 .. P - 1 :
         page[o] = IF o \in A - 8 .. A + 4 * N + 3 THEN Word(StackWord(o - (o % 4)), o % 4)
                   ELSE IF o >= P - T
                   THEN Character(ArgAt(o), IF o - string_store(ArgAt(o)) + 1 > args[ArgAt(o)] THEN 0
                                            ELSE o - string_store(ArgAt(o)) + 1)
                   ELSE Zero
  BY <1>1, <1>5, <1>6, <1>7, Zenon DEF CellOffsets, StackCell, argc
<1>11. \A w : StackWord(w) = IF w = A - 8 THEN N
                             ELSE IF w = A - 4 THEN UTEMP2USTACK(A)
                             ELSE IF w = A + 4 * N THEN 0
                             ELSE UTEMP2USTACK(string_store((w - A) \div 4 + 1))
  BY <1>1, <1>7, Zenon DEF StackWord, argc
<1>12. ASSUME NEW w \in Int, w % 4 = 0, A - 8 <= w, w <= A + 4 * N, NEW b \in 0 .. 3
       PROVE  page[w + b] = Word(StackWord(w), b)
  <2>1. /\ w + b \in 0 .. P - 1 /\ w + b \in A - 8 .. A + 4 * N + 3
    BY <1>8, <1>12
  <2>3. (w + b) % 4 = b /\ (w + b) - b = w
    BY <1>12, ByteOfWord, Zenon
  <2>2. QED BY <1>10, <2>1, <2>3, Zenon
<1>13. \A b \in 0 .. 3 : page[A - 8 + b] = Word(N, b)
  <2>1. A - 8 \in Int /\ (A - 8) % 4 = 0 /\ A - 8 <= A - 8 /\ A - 8 <= A + 4 * N
    BY <1>8
  <2>2. QED BY <1>11, <1>12, <2>1, Zenon
<1>14. \A b \in 0 .. 3 : page[A - 4 + b] = Word(UTEMP2USTACK(A), b)
  <2>1. A - 4 \in Int /\ (A - 4) % 4 = 0 /\ A - 8 <= A - 4 /\ A - 4 <= A + 4 * N /\ A - 4 # A - 8
    BY <1>8
  <2>2. QED BY <1>11, <1>12, <2>1, Zenon
<1>15. page[A + 4 * N] = Word(0, 0)
  <2>1. /\ A + 4 * N \in Int /\ (A + 4 * N) % 4 = 0 /\ A - 8 <= A + 4 * N /\ A + 4 * N <= A + 4 * N
        /\ A + 4 * N # A - 8 /\ A + 4 * N # A - 4 /\ 0 \in 0 .. 3 /\ A + 4 * N + 0 = A + 4 * N
    BY <1>8
  <2>2. QED BY <1>11, <1>12, <2>1, Zenon
<1>16. ASSUME NEW n \in 1 .. N
       PROVE  \E s \in Nat :
                /\ \A b \in 0 .. 3 : page[A + 4 * (n - 1) + b] = Word(UTEMP2USTACK(s), b)
                /\ s + args[n] < P
                /\ \A k \in 1 .. args[n] + 1 : page[s + k - 1] = Character(n, IF k > args[n] THEN 0 ELSE k)
  <2>1. n - 1 \in 0 .. N /\ n \in 0 .. N /\ N \in 0 .. N /\ n <= N
    OBVIOUS
  <2>2. /\ L[n] = L[n - 1] + args[n] + 1 /\ args[n] \in Nat /\ L[n] <= T
        /\ L[n - 1] \in Nat /\ L[n] \in Nat
    BY <1>3, <1>4, <1>6, <2>1, Zenon
  <2>10. PICK x \in Nat, c \in Nat : x = L[n - 1] /\ c = args[n] /\ x + c + 1 <= T /\ L[n] = x + c + 1
    <3>1. L[n - 1] + args[n] + 1 <= T
      BY <2>2, Zenon
    <3>2. QED BY <2>2, <3>1, Zenon
  <2>3. PICK s \in Nat : s = P - T + x /\ s = string_store(n)
    <3>1. P - T + x \in Nat
      BY <1>8
    <3>2. QED BY <1>9, <2>10, <3>1, Zenon
  <2>11. s = P - T + x /\ x + c + 1 <= T
    BY <2>3, <2>10, Zenon
  <2>4. \A b \in 0 .. 3 : page[A + 4 * (n - 1) + b] = Word(UTEMP2USTACK(s), b)
    <3>1. PICK w \in Int : w = A + 4 * (n - 1)
      OBVIOUS
    <3>2. /\ w % 4 = 0 /\ A - 8 <= w /\ w <= A + 4 * N /\ w # A - 8 /\ w # A - 4 /\ w # A + 4 * N
          /\ (w - A) \div 4 + 1 = n
      BY <1>8, <3>1
    <3>3. StackWord(w) = UTEMP2USTACK(s)
      BY <1>11, <2>3, <3>2, Zenon
    <3>4. QED BY <1>12, <3>1, <3>2, <3>3, Zenon
  <2>5. s + args[n] < P
    <3>1. s + c < P
      BY <2>11
    <3>2. QED BY <2>10, <3>1, Zenon
  <2>6. ASSUME NEW k \in 1 .. args[n] + 1
        PROVE  page[s + k - 1] = Character(n, IF k > args[n] THEN 0 ELSE k)
    <3>0. k \in 1 .. c + 1
      BY <2>6, <2>10, Zenon
    <3>1. PICK o \in Int : o = s + k - 1
      BY <3>0
    <3>2. /\ o \in 0 .. P - 1 /\ o \notin A - 8 .. A + 4 * N + 3 /\ o >= P - T
          /\ o \in s .. s + c /\ o - s + 1 = k
      BY <1>8, <2>11, <3>0, <3>1
    <3>3. \A a \in 1 .. N : o \in string_store(a) .. string_store(a) + args[a] => a = n
      <4> SUFFICES ASSUME NEW a \in 1 .. N, o \in string_store(a) .. string_store(a) + args[a], a # n
                   PROVE  FALSE
        BY Zenon
      <4>1. a - 1 \in 0 .. N /\ a \in 0 .. N
        OBVIOUS
      <4>2. /\ string_store(a) = P - T + L[a - 1] /\ L[a] = L[a - 1] + args[a] + 1 /\ args[a] \in Nat
            /\ L[a - 1] \in Nat /\ L[a] \in Nat
        BY <1>3, <1>4, <1>9, <4>1, Zenon
      <4>6. PICK y \in Nat, d \in Nat :
              y = L[a - 1] /\ L[a] = y + d + 1 /\ o \in P - T + y .. P - T + y + d
        BY <4>2, Zenon
      <4>3. CASE a < n
        <5>1. a <= n - 1
          BY <4>3
        <5>2. L[a] <= L[n - 1]
          BY <1>3, <2>1, <4>1, <5>1, Zenon
        <5>3. y + d + 1 <= x
          BY <2>10, <4>6, <5>2, Zenon
        <5>4. o \in P - T + x .. P - T + x + c /\ o \in P - T + y .. P - T + y + d
          BY <2>11, <3>2, <4>6, Zenon
        <5>5. QED BY <5>3, <5>4
      <4>4. CASE n < a
        <5>1. n <= a - 1
          BY <4>4
        <5>2. L[n] <= L[a - 1]
          BY <1>3, <2>1, <4>1, <5>1, Zenon
        <5>3. x + c + 1 <= y
          BY <2>10, <4>6, <5>2, Zenon
        <5>4. o \in P - T + x .. P - T + x + c /\ o \in P - T + y .. P - T + y + d
          BY <2>11, <3>2, <4>6, Zenon
        <5>5. QED BY <5>3, <5>4
      <4>5. QED BY <4>3, <4>4
    <3>4. ArgAt(o) = n
      BY <1>1, <2>3, <2>10, <3>2, <3>3, Zenon DEF ArgAt, argc
    <3>5. page[o] = Character(n, IF o - s + 1 > args[n] THEN 0 ELSE o - s + 1)
      BY <1>10, <2>3, <3>2, <3>4, Zenon
    <3>6. QED BY <3>1, <3>2, <3>5, Zenon
  <2>7. QED BY <2>4, <2>5, <2>6, Zenon
<1>17. A \in Nat /\ A + 4 * (N + 1) <= P
  BY <1>8
<1>18. StackHas(page, args, A)
  BY <1>1, <1>5, <1>8, <1>13, <1>14, <1>15, <1>16, <1>17, Zenon DEF StackHas
<1>19. QED BY <1>1, <1>7, <1>18, Zenon

(* The stack of a child that starts, as umain finds it.                    *)
StackComplete ==
  /\ sp.esp \div PgBytes = StackPage /\ sp.esp % 4 = 0
  /\ IsWord(sp.esp) /\ WordAt(sp.esp) = Len(sp.args)
  /\ IsWord(sp.esp + 4)
  /\ LET argv == WordAt(sp.esp + 4)
     IN  /\ \A n \in 1 .. Len(sp.args) :
              IsWord(argv + 4 * (n - 1)) /\ StringAt(WordAt(argv + 4 * (n - 1)), n)
         /\ Cell(argv + 4 * Len(sp.args)) = Word(0, 0)

LEMMA StackRead ==
  ASSUME sp.args \in Seq(Nat), NEW A \in Nat, sp.esp = UTEMP2USTACK(A - 8),
         StackHas(childMem[StackPage].data, sp.args, A)
  PROVE  StackComplete
<1>1. PICK args \in Seq(Nat), N \in Nat : args = sp.args /\ N = Len(args)
  OBVIOUS
<1>2. PICK page : page = childMem[StackPage].data
  BY Zenon
<1>3. PICK P \in Nat : P = PgBytes /\ P > 0 /\ P % 4 = 0
  BY PageAssumption, Zenon
<1>4. /\ A >= 8 /\ A % 4 = 0 /\ A + 4 * (N + 1) <= P
      /\ \A b \in 0 .. 3 : page[A - 8 + b] = Word(N, b)
      /\ \A b \in 0 .. 3 : page[A - 4 + b] = Word(UTEMP2USTACK(A), b)
      /\ \A n \in 1 .. N : \E s \in Nat :
           /\ \A b \in 0 .. 3 : page[A + 4 * (n - 1) + b] = Word(UTEMP2USTACK(s), b)
           /\ s + args[n] < P
           /\ \A k \in 1 .. args[n] + 1 : page[s + k - 1] = Character(n, IF k > args[n] THEN 0 ELSE k)
      /\ page[A + 4 * N] = Word(0, 0)
  <2>1. StackHas(page, args, A)
    BY <1>1, <1>2, Zenon
  <2>2. QED BY <1>1, <1>3, <2>1, Zenon DEF StackHas
<1>5. PICK S \in Int : \A o \in Int : UTEMP2USTACK(o) = S + o
  <2>1. StackPage * P \in Int
    BY PageAssumption
  <2>2. QED BY <1>3, <2>1, Zenon DEF UTEMP2USTACK
<1>6. ASSUME NEW o \in 0 .. P - 1
      PROVE  Cell(S + o) = page[o] /\ (S + o) \div P = StackPage
  <2>1. S + o = StackPage * P + o
    <3>1. UTEMP2USTACK(o) = StackPage * P + o /\ o \in Int
      BY <1>3, <1>6 DEF UTEMP2USTACK
    <3>2. QED BY <1>5, <3>1, Zenon
  <2>2. (S + o) \div P = StackPage /\ (S + o) % P = o
    <3>1. StackPage \in Int
      BY PageAssumption
    <3>2. (StackPage * P + o) \div P = StackPage /\ (StackPage * P + o) % P = o
      BY <1>3, <3>1, PageOf, Zenon
    <3>3. QED BY <2>1, <3>2, Zenon
  <2>3. QED BY <1>2, <1>3, <2>2, Zenon DEF Cell
<1>7. S % 4 = 0
  <2>1. PICK m \in Nat : P = 4 * m
    <3>1. P = 4 * (P \div 4) /\ P \div 4 \in Nat
      BY <1>3
    <3>2. QED BY <3>1, Zenon
  <2>2. PICK t \in Nat : t = StackPage * m
    BY PageAssumption
  <2>3. UTEMP2USTACK(0) = StackPage * P + 0 /\ 0 \in Int
    BY <1>3 DEF UTEMP2USTACK
  <2>4. S + 0 = StackPage * P + 0
    BY <1>5, <2>3, Zenon
  <2>5. StackPage * P = 4 * t
    BY <2>1, <2>2, PageAssumption
  <2>6. S = 4 * t
    BY <2>4, <2>5
  <2>7. QED BY <2>6
(* A word at an offset of the page.                                        *)
<1>8. ASSUME NEW w \in Int, 0 <= w, w + 3 < P, NEW v, \A b \in 0 .. 3 : page[w + b] = Word(v, b)
      PROVE  IsWord(S + w) /\ WordAt(S + w) = v
  <2>1. \A b \in 0 .. 3 : Cell((S + w) + b) = Word(v, b)
    <3>1. \A b \in 0 .. 3 : w + b \in 0 .. P - 1 /\ (S + w) + b = S + (w + b)
      BY <1>8
    <3>2. QED BY <1>6, <1>8, <3>1, Zenon
  <2>2. 0 \in 0 .. 3 /\ (S + w) + 0 = S + w
    BY <1>8
  <2>3. Cell(S + w) = Word(v, 0)
    BY <2>1, <2>2, Zenon
  <2>4. WordAt(S + w) = v
    BY <2>3 DEF WordAt, Word
  <2>5. QED BY <2>1, <2>4, Zenon DEF IsWord
<1>9. PICK e \in Int : e = A - 8 /\ 0 <= e /\ e + 3 < P /\ e \in 0 .. P - 1 /\ sp.esp = S + e
  <2>1. A - 8 \in Int /\ 0 <= A - 8 /\ (A - 8) + 3 < P /\ A - 8 \in 0 .. P - 1
    BY <1>4
  <2>2. QED BY <1>5, <2>1, Zenon
<1>10. sp.esp \div PgBytes = StackPage /\ sp.esp % 4 = 0
  <2>0. e % 4 = 0
    BY <1>4, <1>9
  <2>1. (S + e) % 4 = 0
    BY <1>7, <2>0, WordsOfPage, Zenon
  <2>2. QED BY <1>3, <1>6, <1>9, <2>1, Zenon
<1>11. IsWord(sp.esp) /\ WordAt(sp.esp) = N
  <2>1. \A b \in 0 .. 3 : page[e + b] = Word(N, b)
    BY <1>4, <1>9, Zenon
  <2>2. QED BY <1>8, <1>9, <2>1, Zenon
<1>12. IsWord(sp.esp + 4) /\ WordAt(sp.esp + 4) = S + A
  <2>1. A - 4 \in Int /\ 0 <= A - 4 /\ (A - 4) + 3 < P /\ (S + e) + 4 = S + (A - 4) /\ A \in Int
    BY <1>4, <1>9
  <2>2. IsWord(S + (A - 4)) /\ WordAt(S + (A - 4)) = UTEMP2USTACK(A)
    BY <1>4, <1>8, <2>1, Zenon
  <2>3. QED BY <1>5, <1>9, <2>1, <2>2, Zenon
<1>13. ASSUME NEW n \in 1 .. N
       PROVE  /\ IsWord((S + A) + 4 * (n - 1))
              /\ StringAt(WordAt((S + A) + 4 * (n - 1)), n)
  <2>1. PICK s \in Nat :
           /\ \A b \in 0 .. 3 : page[A + 4 * (n - 1) + b] = Word(UTEMP2USTACK(s), b)
           /\ s + args[n] < P
           /\ \A k \in 1 .. args[n] + 1 : page[s + k - 1] = Character(n, IF k > args[n] THEN 0 ELSE k)
    BY <1>4, Zenon
  <2>2. PICK w \in Int : w = A + 4 * (n - 1) /\ 0 <= w /\ w + 3 < P /\ (S + A) + 4 * (n - 1) = S + w
    <3>1. LET w == A + 4 * (n - 1) IN w \in Int /\ 0 <= w /\ w + 3 < P /\ (S + A) + 4 * (n - 1) = S + w
      BY <1>4
    <3>2. QED BY <3>1, Zenon
  <2>3. IsWord(S + w) /\ WordAt(S + w) = UTEMP2USTACK(s)
    BY <1>8, <2>1, <2>2, Zenon
  <2>4. UTEMP2USTACK(s) = S + s
    <3>1. s \in Int
      OBVIOUS
    <3>2. QED BY <1>5, <3>1, Zenon
  <2>5. PICK c \in Nat : c = args[n]
    BY <1>1
  <2>6. ASSUME NEW k \in 1 .. c + 1
        PROVE  Cell((S + s) + k - 1) = Character(n, IF k > c THEN 0 ELSE k)
    <3>1. s + c < P
      BY <2>1, <2>5, Zenon
    <3>2. s + k - 1 \in 0 .. P - 1 /\ (S + s) + k - 1 = S + (s + k - 1)
      BY <2>6, <3>1
    <3>3. QED BY <1>6, <2>1, <2>5, <2>6, <3>2, Zenon
  <2>7. StringAt(S + s, n)
    BY <1>1, <2>5, <2>6, Zenon DEF StringAt
  <2>8. QED BY <2>2, <2>3, <2>4, <2>7, Zenon
<1>14. Cell((S + A) + 4 * N) = Word(0, 0)
  <2>1. A + 4 * N \in 0 .. P - 1 /\ (S + A) + 4 * N = S + (A + 4 * N)
    BY <1>4
  <2>2. QED BY <1>4, <1>6, <2>1, Zenon
<1>15. QED BY <1>1, <1>10, <1>11, <1>12, <1>13, <1>14, Zenon DEF StackComplete
-----------------------------------------------------------------------------
(* map_segment.                                                            *)

LEMMA DivLess ==
  ASSUME NEW P \in Nat, P > 0, NEW a \in Int, NEW p \in Int
  PROVE  /\ p <= a \div P <=> p * P <= a
         /\ a \div P <= p <=> a < (p + 1) * P
<1>1. PICK d \in Int, m \in 0 .. P - 1 : d = a \div P /\ a = d * P + m
  BY DivMod, Zenon
<1>2. /\ p <= d <=> p * P <= d * P
      /\ p < d + 1 <=> p * P < (d + 1) * P
      /\ d < p + 1 <=> d * P < (p + 1) * P
      /\ d + 1 <= p + 1 <=> (d + 1) * P <= (p + 1) * P
      /\ (d + 1) * P = d * P + P /\ d * P \in Int /\ p * P \in Int /\ (p + 1) * P \in Int
  BY TimesLess
<1>3. p <= d <=> p * P <= a
  BY <1>1, <1>2
<1>4. d <= p <=> a < (p + 1) * P
  BY <1>1, <1>2
<1>5. QED BY <1>1, <1>3, <1>4, Zenon

SegmentType == [load : BOOLEAN, va : Nat, memsz : Nat, filesz : Nat, off : Nat, w : BOOLEAN]

(* Where a segment starts once it is moved to a page boundary.             *)
Base(g) == g.va - (g.va % PgBytes)
NextPage(g, i) == (Base(g) + i) \div PgBytes
PageImage(g, p) == [o \in CellOffsets |-> ImageByte(g, p * PgBytes + o)]

(* The pages of the j'th segment that are in place when the loop is at     *)
(* offset i of the one numbered seg.                                       *)
Filled(prog, seg, i, j) ==
  {p \in PagesOf(prog[j]) : j < seg \/ (j = seg /\ p * PgBytes < Base(prog[j]) + i)}

LEMMA PagesOfIs ==
  ASSUME NEW g \in SegmentType
  PROVE  \A p : p \in PagesOf(g) <=>
                  p \in Int /\ g.va < (p + 1) * PgBytes /\ p * PgBytes <= g.va + g.memsz - 1
<1>1. PICK P \in Nat, v \in Nat, m \in Nat : P = PgBytes /\ P > 0 /\ v = g.va /\ m = g.memsz
  BY PageAssumption, Zenon DEF SegmentType
<1>2. v + m - 1 \in Int /\ v \in Int
  OBVIOUS
<1>3. \A p \in Int : p <= (v + m - 1) \div P <=> p * P <= v + m - 1
  BY <1>1, <1>2, DivLess, Zenon
<1>4. \A p \in Int : v \div P <= p <=> v < (p + 1) * P
  BY <1>1, <1>2, DivLess, Zenon
<1>5. \A p : p \in (v \div P) .. ((v + m - 1) \div P) <=>
               p \in Int /\ v \div P <= p /\ p <= (v + m - 1) \div P
  BY <1>1
<1>6. \A p : p \in PagesOf(g) <=> p \in (v \div P) .. ((v + m - 1) \div P)
  BY <1>1, Zenon DEF PagesOf
<1>7. QED BY <1>1, <1>3, <1>4, <1>5, <1>6, Zenon

(* The loop's next page is the one after those in place.                   *)
LEMMA NextPageIs ==
  ASSUME NEW g \in SegmentType, NEW k \in Nat, NEW i \in Nat, i = k * PgBytes
  PROVE  /\ NextPage(g, i) \in Int /\ NextPage(g, i) * PgBytes = Base(g) + i
         /\ Base(g) \in Nat /\ Base(g) <= g.va /\ g.va < Base(g) + PgBytes
         /\ g.va % PgBytes \in Nat /\ Base(g) + (g.va % PgBytes) = g.va
<1>1. PICK P \in Nat, v \in Nat : P = PgBytes /\ P > 0 /\ v = g.va
  BY PageAssumption, Zenon DEF SegmentType
<1>2. PICK d \in Int, m \in 0 .. P - 1 : d = v \div P /\ m = v % P /\ v = d * P + m
  <2>1. v \in Int
    OBVIOUS
  <2>2. QED BY <1>1, <2>1, DivMod, Zenon
<1>3. PICK D \in Int, I \in Int : D = d * P /\ I = k * P
  OBVIOUS
<1>4. Base(g) = D
  <2>1. Base(g) = v - m
    BY <1>1, <1>2, Zenon DEF Base
  <2>2. v = D + m
    BY <1>2, <1>3, Zenon
  <2>3. QED BY <2>1, <2>2
<1>5. (d + k) * P = D + I
  BY <1>3
<1>6. NextPage(g, i) = d + k
  <2>1. 0 \in 0 .. P - 1 /\ d + k \in Int
    BY <1>1
  <2>2. ((d + k) * P + 0) \div P = d + k
    BY <1>1, <2>1, PageOf, Zenon
  <2>3. (D + I) + 0 = D + I
    OBVIOUS
  <2>4. (D + I) \div P = d + k
    BY <1>5, <2>2, <2>3, Zenon
  <2>5. QED BY <1>1, <1>3, <1>4, <2>4, Zenon DEF NextPage
<1>7. d >= 0
  <2>1. d < 0 => d + 1 <= 0
    OBVIOUS
  <2>2. d + 1 <= 0 => (d + 1) * P <= 0 * P
    BY <1>1, TimesLess
  <2>3. (d + 1) * P = D + P /\ 0 * P = 0
    BY <1>3
  <2>4. v = D + m
    BY <1>2, <1>3, Zenon
  <2>5. QED BY <2>1, <2>2, <2>3, <2>4
<1>8. D \in Nat
  BY <1>3, <1>7
<1>9. v = D + m
  BY <1>2, <1>3, Zenon
<1>10. D <= v /\ v < D + P /\ D + m = v /\ m \in Nat /\ d + k \in Int
  BY <1>9
<1>11. QED BY <1>1, <1>2, <1>3, <1>4, <1>5, <1>6, <1>8, <1>10, Zenon

LEMMA FilledMore ==
  ASSUME NEW prog, NEW seg \in Nat, NEW k \in Nat, NEW i \in Nat, i = k * PgBytes,
         prog[seg] \in SegmentType, i < prog[seg].memsz + (prog[seg].va % PgBytes),
         NEW q, q = NextPage(prog[seg], i)
  PROVE  /\ q \in PagesOf(prog[seg])
         /\ Filled(prog, seg, i + PgBytes, seg) = Filled(prog, seg, i, seg) \cup {q}
         /\ \A j : j # seg => Filled(prog, seg, i + PgBytes, j) = Filled(prog, seg, i, j)
<1>1. PICK P \in Nat, g \in SegmentType : P = PgBytes /\ P > 0 /\ g = prog[seg]
  BY PageAssumption, Zenon
<1>2. PICK v \in Nat, m \in Nat, x \in Nat, B \in Nat :
        v = g.va /\ m = g.memsz /\ x = g.va % P /\ B = Base(g) /\ B + x = v /\ B <= v /\ v < B + P
  <2>1. g.va \in Nat /\ g.memsz \in Nat
    BY Zenon DEF SegmentType
  <2>2. QED BY <1>1, <2>1, NextPageIs, Zenon
<1>3. q \in Int /\ q * P = B + i
  BY <1>1, <1>2, NextPageIs, Zenon
<1>4. i < m + x
  BY <1>1, <1>2, Zenon
<1>5. \A p : p \in PagesOf(g) <=> p \in Int /\ v < (p + 1) * P /\ p * P <= v + m - 1
  BY <1>1, <1>2, PagesOfIs, Zenon
<1>6. q \in PagesOf(g)
  <2>1. (q + 1) * P = q * P + P
    BY <1>3
  <2>2. v < (q + 1) * P /\ q * P <= v + m - 1
    BY <1>2, <1>3, <1>4, <2>1
  <2>3. QED BY <1>3, <1>5, <2>2, Zenon
<1>7. \A p \in Int : p * P < B + (i + P) <=> p * P < B + i \/ p = q
  <2> TAKE p \in Int
  <2>1. /\ p < q + 1 <=> p * P < (q + 1) * P
        /\ p < q <=> p * P < q * P
        /\ (q + 1) * P = q * P + P
    <3>1. q + 1 \in Int
      BY <1>3
    <3>2. p < q + 1 <=> p * P < (q + 1) * P
      BY <1>1, <3>1, TimesLess, Zenon
    <3>3. p < q <=> p * P < q * P
      BY <1>1, <1>3, TimesLess
    <3>4. (q + 1) * P = q * P + P
      BY <1>3
    <3>5. QED BY <3>2, <3>3, <3>4, Zenon
  <2>2. p * P \in Int
    OBVIOUS
  <2>3. QED BY <1>3, <2>1, <2>2
<1>8. \A p : p \in Filled(prog, seg, i + P, seg) <=> p \in Filled(prog, seg, i, seg) \cup {q}
  <2>1. ~ (seg < seg)
    OBVIOUS
  <2>2. \A p : p \in Filled(prog, seg, i + P, seg) <=> p \in PagesOf(g) /\ p * P < B + (i + P)
    BY <1>1, <1>2, <2>1, Zenon DEF Filled
  <2>3. \A p : p \in Filled(prog, seg, i, seg) <=> p \in PagesOf(g) /\ p * P < B + i
    BY <1>1, <1>2, <2>1, Zenon DEF Filled
  <2>4. QED BY <1>5, <1>6, <1>7, <2>2, <2>3, Zenon
<1>9. \A j : j # seg => Filled(prog, seg, i + P, j) = Filled(prog, seg, i, j)
  BY Zenon DEF Filled
<1>10. Filled(prog, seg, i + P, seg) = Filled(prog, seg, i, seg) \cup {q}
  BY <1>8, Zenon
<1>11. QED BY <1>1, <1>6, <1>9, <1>10, Zenon

(* Nothing of a segment is in place when its loop begins ...               *)
LEMMA FilledNone ==
  ASSUME NEW prog, NEW seg \in Nat, NEW j \in Nat, prog[j] \in SegmentType, j >= seg
  PROVE  Filled(prog, seg, 0, j) = {}
<1>1. PICK P \in Nat, g \in SegmentType : P = PgBytes /\ P > 0 /\ g = prog[j]
  BY PageAssumption, Zenon
<1>2. 0 \in Nat /\ 0 = 0 * PgBytes
  BY PageAssumption
<1>3. PICK v \in Nat, B \in Nat, b \in Int : v = g.va /\ B = Base(g) /\ B <= v /\ b * P = B + 0
  <2>1. g.va \in Nat
    BY Zenon DEF SegmentType
  <2>2. /\ NextPage(g, 0) \in Int /\ NextPage(g, 0) * PgBytes = Base(g) + 0
        /\ Base(g) \in Nat /\ Base(g) <= g.va
    BY <1>2, NextPageIs, Zenon
  <2>3. QED BY <1>1, <2>1, <2>2, Zenon
<1>4. \A p : p \in PagesOf(g) => p \in Int /\ v < (p + 1) * P
  BY <1>1, <1>3, PagesOfIs, Zenon
<1>5. ASSUME NEW p \in PagesOf(g) PROVE ~ (p * P < B + 0)
  <2>1. p \in Int /\ v < (p + 1) * P
    BY <1>4, Zenon
  <2>2. b < p + 1 <=> b * P < (p + 1) * P
    <3>1. p + 1 \in Int
      BY <2>1
    <3>2. QED BY <1>1, <3>1, TimesLess, Zenon
  <2>3. b <= p <=> b * P <= p * P
    BY <1>1, <2>1, TimesLess, Zenon
  <2>4. (p + 1) * P \in Int /\ p * P \in Int /\ b * P \in Int
    BY <2>1
  <2>5. b <= p
    BY <1>3, <2>1, <2>2, <2>4
  <2>6. QED BY <1>3, <2>3, <2>4, <2>5
<1>6. ~ (j < seg)
  OBVIOUS
<1>7. QED BY <1>1, <1>3, <1>5, <1>6, Zenon DEF Filled

(* ... and all of it when it ends.                                         *)
LEMMA FilledNext ==
  ASSUME NEW prog, NEW seg \in Nat, NEW i \in Nat, NEW j \in Nat, prog[j] \in SegmentType,
         j = seg => ~ (i < prog[seg].memsz + (prog[seg].va % PgBytes))
  PROVE  Filled(prog, seg + 1, 0, j) = Filled(prog, seg, i, j)
<1>1. CASE j < seg
  <2>1. j < seg + 1
    BY <1>1
  <2>2. QED BY <1>1, <2>1, Zenon DEF Filled
<1>2. CASE j = seg
  <2>1. PICK P \in Nat, g \in SegmentType : P = PgBytes /\ P > 0 /\ g = prog[j]
    BY PageAssumption, Zenon
  <2>2. 0 \in Nat /\ 0 = 0 * PgBytes
    BY PageAssumption
  <2>3. PICK v \in Nat, m \in Nat, x \in Nat, B \in Nat :
          v = g.va /\ m = g.memsz /\ x = g.va % P /\ B = Base(g) /\ B + x = v
    <3>1. g.va \in Nat /\ g.memsz \in Nat
      BY Zenon DEF SegmentType
    <3>2. Base(g) \in Nat /\ g.va % PgBytes \in Nat /\ Base(g) + (g.va % PgBytes) = g.va
      BY <2>2, NextPageIs, Zenon
    <3>3. QED BY <2>1, <3>1, <3>2, Zenon
  <2>4. ~ (i < m + x)
    BY <1>2, <2>1, <2>3, Zenon
  <2>5. \A p \in PagesOf(g) : p \in Int /\ p * P <= v + m - 1
    BY <2>1, <2>3, PagesOfIs, Zenon
  <2>6. \A p \in PagesOf(g) : p * P < B + i
    <3>1. \A y \in Int : y <= v + m - 1 => y < B + i
      BY <2>3, <2>4
    <3>2. \A p \in Int : p * P \in Int
      OBVIOUS
    <3>3. QED BY <2>5, <3>1, <3>2, Zenon
  <2>7. j < seg + 1
    BY <1>2
  <2>8. QED BY <1>2, <2>1, <2>3, <2>6, <2>7, Zenon DEF Filled
<1>3. CASE j > seg
  <2>1. j >= seg + 1 /\ seg + 1 \in Nat /\ ~ (j < seg) /\ j # seg
    BY <1>3
  <2>2. Filled(prog, seg + 1, 0, j) = {}
    BY <2>1, FilledNone, Zenon
  <2>3. QED BY <2>1, <2>2, Zenon DEF Filled
<1>4. QED BY <1>1, <1>2, <1>3
-----------------------------------------------------------------------------
(* What is in place at each step.                                          *)

Beginning == {"header", "exofork", "stack_alloc", "stack_map"}
Building == {"segments", "readn", "segment_map"}
Ready == {"shared", "started"}
SpType ==
  [at : {"idle", "failed", "panic"} \cup Beginning \cup Building \cup Ready,
   calls : Nat, fd : BOOLEAN, seg : Nat, i : Nat, args : Seq(Nat), esp : Int, left : SUBSET SharedPages]

BeginningInv ==
  sp.at \in Beginning =>
    /\ sp.seg = 1 /\ sp.i = 0 /\ childMem = NoChildMem /\ sp.left = SharedPages /\ unshared = {}
    /\ sp.at # "header" => elf \in Programs
    /\ sp.at = "stack_map" => StackHas(utemp, sp.args, argv_store)

StackInv ==
  sp.at \in Building \cup Ready =>
    \E A \in Nat : sp.esp = UTEMP2USTACK(A - 8) /\ StackHas(childMem[StackPage].data, sp.args, A)

(* The child has the pages of the segments up to where the loop is, the    *)
(* stack page and the shared pages, and nothing else.                      *)
LoadedOf(prog) == {j \in DOMAIN prog : prog[j].load}
AllFilled(prog, seg, i) == UNION {Filled(prog, seg, i, j) : j \in LoadedOf(prog)}
InPlace(mem, prog, seg, i, shared) ==
  /\ DOMAIN mem = AllFilled(prog, seg, i) \cup {StackPage} \cup shared
  /\ \A j \in LoadedOf(prog) : \A p \in Filled(prog, seg, i, j) :
       mem[p] = [data |-> PageImage(prog[j], p), w |-> prog[j].w]
ImageInv ==
  sp.at \in Building \cup Ready =>
    elf \in Programs /\ InPlace(childMem, elf, sp.seg, sp.i, (SharedPages \ sp.left) \ unshared)

(* A page of the segment is being filled.                                  *)
More(prog, seg, i) ==
  seg <= Len(prog) /\ prog[seg].load /\ i < prog[seg].memsz + (prog[seg].va % PgBytes)
LoopInv ==
  sp.at \in Building =>
    /\ sp.left = SharedPages /\ unshared = {} /\ sp.seg >= 1 /\ \E k \in Nat : sp.i = k * PgBytes
    /\ sp.at # "segments" => More(elf, sp.seg, sp.i)
    /\ sp.at = "readn" => utemp = ZeroPage
    /\ sp.at = "segment_map" => utemp = PageImage(elf[sp.seg], NextPage(elf[sp.seg], sp.i))

ReadyInv ==
  /\ sp.at \in Ready => sp.seg > Len(elf) /\ ~ sp.fd /\ unshared \cap sp.left = {}
  /\ sp.at \in Ready \cup {"segments"} => utemp = NoPage
  /\ kid = "runs" => sp.at = "started"
  /\ sp.at = "started" => sp.left = {}

SpawnInv == sp \in SpType /\ BeginningInv /\ StackInv /\ ImageInv /\ LoopInv /\ ReadyInv
-----------------------------------------------------------------------------
LEMMA ProgramIs ==
  ASSUME NEW prog \in Programs
  PROVE  /\ Len(prog) \in Nat /\ DOMAIN prog = 1 .. Len(prog)
         /\ \A j \in DOMAIN prog : prog[j] \in SegmentType
         /\ \A j \in DOMAIN prog : PagesOf(prog[j]) \cap (SharedPages \cup {StackPage}) = {}
         /\ \A i, j \in DOMAIN prog : i # j => PagesOf(prog[i]) \cap PagesOf(prog[j]) = {}
<1>1. prog \in Seq(SegmentType)
  BY ProgramAssumption, Zenon DEF SegmentType
<1>2. Len(prog) \in Nat /\ DOMAIN prog = 1 .. Len(prog) /\ \A j \in DOMAIN prog : prog[j] \in SegmentType
  BY <1>1
<1>3. QED BY <1>2, LinkerAssumption, Zenon

LEMMA SegmentIs ==
  ASSUME elf[sp.seg] \in SegmentType, NEW x, x = elf[sp.seg].va % PgBytes
  PROVE  /\ Segment.va = Base(elf[sp.seg]) /\ Segment.memsz = elf[sp.seg].memsz + x
         /\ Segment.filesz = elf[sp.seg].filesz + x /\ Segment.off = elf[sp.seg].off - x
         /\ PageNow = NextPage(elf[sp.seg], sp.i)
<1>1. PICK g \in SegmentType : g = elf[sp.seg]
  BY Zenon
<1>2. Segment = [g EXCEPT !.va = @ - x, !.memsz = @ + x, !.filesz = @ + x, !.off = @ - x]
  BY <1>1, Zenon DEF Segment, Aligned
<1>3. /\ Segment.va = g.va - x /\ Segment.memsz = g.memsz + x
      /\ Segment.filesz = g.filesz + x /\ Segment.off = g.off - x
  BY <1>2, Zenon DEF SegmentType
<1>4. QED BY <1>1, <1>3, Zenon DEF Base, PageNow, NextPage

(* The bytes of the page that the loop is at.                              *)
LEMMA BytesOfPage ==
  ASSUME NEW g \in SegmentType, NEW k \in Nat, NEW i \in Nat, i = k * PgBytes,
         NEW x, x = g.va % PgBytes, NEW q, q = NextPage(g, i), NEW o \in CellOffsets
  PROVE  ImageByte(g, q * PgBytes + o) =
           IF i + o < g.filesz + x /\ (g.off - x) + i + o < FileBytes
           THEN FileByte((g.off - x) + i + o) ELSE Zero
<1>1. PICK v \in Nat, B \in Nat, y \in Nat :
        v = g.va /\ B = Base(g) /\ y = x /\ B + y = v /\ q * PgBytes = B + i
  <2>1. g.va \in Nat
    BY Zenon DEF SegmentType
  <2>2. /\ NextPage(g, i) * PgBytes = Base(g) + i /\ Base(g) \in Nat
        /\ g.va % PgBytes \in Nat /\ Base(g) + (g.va % PgBytes) = g.va
    BY NextPageIs, Zenon
  <2>3. QED BY <2>1, <2>2, Zenon
<1>2. PICK f \in Nat, h \in Nat : f = g.filesz /\ h = g.off
  BY Zenon DEF SegmentType
<1>3. o \in Nat
  BY PageAssumption DEF CellOffsets
<1>4. PICK a \in Int : a = B + i + o
  BY <1>3
<1>5. /\ a < v + f <=> i + o < f + y
      /\ h + (a - v) = (h - y) + i + o
  BY <1>1, <1>3, <1>4
<1>6. ImageByte(g, a) = IF a < v + f /\ h + (a - v) < FileBytes THEN FileByte(h + (a - v)) ELSE Zero
  BY <1>1, <1>2, Zenon DEF ImageByte
<1>7. q * PgBytes + o = a
  BY <1>1, <1>4, Zenon
<1>8. QED BY <1>1, <1>2, <1>5, <1>6, <1>7, Zenon

LEMMA MapsPage ==
  ASSUME NEW p, NEW data, NEW w, MapInChild(p, data, w)
  PROVE  /\ DOMAIN childMem' = DOMAIN childMem \cup {p}
         /\ childMem'[p] = [data |-> data, w |-> w]
         /\ \A q \in DOMAIN childMem : q # p => childMem'[q] = childMem[q]
BY Zenon DEF MapInChild

(* One more page of a segment.                                             *)
LEMMA PageInPlace ==
  ASSUME NEW prog \in Programs, NEW seg \in Nat, seg >= 1, NEW k \in Nat, NEW i \in Nat, i = k * PgBytes,
         More(prog, seg, i), NEW q, q = NextPage(prog[seg], i),
         InPlace(childMem, prog, seg, i, {}),
         MapInChild(q, PageImage(prog[seg], q), prog[seg].w)
  PROVE  InPlace(childMem', prog, seg, i + PgBytes, {}) /\ childMem'[StackPage] = childMem[StackPage]
<1>1. seg \in DOMAIN prog /\ prog[seg] \in SegmentType /\ seg \in LoadedOf(prog)
  <2>1. seg \in 1 .. Len(prog)
    BY ProgramIs DEF More
  <2>2. QED BY <2>1, ProgramIs, Zenon DEF More, LoadedOf
<1>2. /\ q \in PagesOf(prog[seg])
      /\ Filled(prog, seg, i + PgBytes, seg) = Filled(prog, seg, i, seg) \cup {q}
      /\ \A j : j # seg => Filled(prog, seg, i + PgBytes, j) = Filled(prog, seg, i, j)
  <2>1. i < prog[seg].memsz + (prog[seg].va % PgBytes)
    BY Zenon DEF More
  <2>2. QED BY <1>1, <2>1, FilledMore
<1>4. /\ DOMAIN childMem' = DOMAIN childMem \cup {q}
      /\ childMem'[q] = [data |-> PageImage(prog[seg], q), w |-> prog[seg].w]
      /\ \A p \in DOMAIN childMem : p # q => childMem'[p] = childMem[p]
  BY Zenon DEF MapInChild
<1>3. q # StackPage /\ \A j \in LoadedOf(prog) : j # seg => q \notin PagesOf(prog[j])
  BY <1>1, <1>2, ProgramIs, Zenon DEF LoadedOf
<1>5. PICK U, V : U = AllFilled(prog, seg, i) /\ V = AllFilled(prog, seg, i + PgBytes) /\ V = U \cup {q}
  <2>1. \A p : p \in AllFilled(prog, seg, i) <=> \E j \in LoadedOf(prog) : p \in Filled(prog, seg, i, j)
    BY Zenon DEF AllFilled
  <2>2. \A p : p \in AllFilled(prog, seg, i + PgBytes) <=>
                 \E j \in LoadedOf(prog) : p \in Filled(prog, seg, i + PgBytes, j)
    BY Zenon DEF AllFilled
  <2>3. \A p : p \in AllFilled(prog, seg, i + PgBytes) => p \in AllFilled(prog, seg, i) \cup {q}
    BY <1>2, <2>1, <2>2, Zenon
  <2>4. q \in AllFilled(prog, seg, i + PgBytes)
    BY <1>1, <1>2, <2>2, Zenon
  <2>5. \A p : p \in AllFilled(prog, seg, i) => p \in AllFilled(prog, seg, i + PgBytes)
    BY <1>2, <2>1, <2>2, Zenon
  <2>6. AllFilled(prog, seg, i + PgBytes) = AllFilled(prog, seg, i) \cup {q}
    BY <2>3, <2>4, <2>5, Zenon
  <2>7. QED BY <2>6, Zenon
<1>6. DOMAIN childMem = U \cup {StackPage} \cup {}
  BY <1>5, Zenon DEF InPlace
<1>7. DOMAIN childMem' = V \cup {StackPage} \cup {}
  BY <1>4, <1>5, <1>6, Zenon
<1>8. childMem'[StackPage] = childMem[StackPage]
  BY <1>3, <1>4, <1>6, Zenon
<1>9. ASSUME NEW j \in LoadedOf(prog), NEW p \in Filled(prog, seg, i + PgBytes, j)
      PROVE  childMem'[p] = [data |-> PageImage(prog[j], p), w |-> prog[j].w]
  <2>1. CASE p = q
    <3>1. q \in PagesOf(prog[j])
      BY <1>9, <2>1, Zenon DEF Filled
    <3>2. j = seg
      BY <1>3, <1>9, <3>1, Zenon
    <3>3. QED BY <2>1, <3>2, <1>4, Zenon
  <2>2. CASE p # q
    <3>1. p \in Filled(prog, seg, i, j)
      BY <1>2, <1>9, <2>2, Zenon
    <3>2. p \in U
      BY <1>5, <1>9, <3>1, Zenon DEF AllFilled
    <3>3. childMem'[p] = childMem[p]
      BY <1>4, <1>6, <2>2, <3>2, Zenon
    <3>4. QED BY <1>9, <3>1, <3>3, Zenon DEF InPlace
  <2>3. QED BY <2>1, <2>2, Zenon
<1>10. QED BY <1>5, <1>7, <1>8, <1>9, Zenon DEF InPlace
-----------------------------------------------------------------------------
(* A call that has failed has nothing to keep.                             *)
LEMMA Fails ==
  ASSUME SpawnInv, NEW at \in {"failed", "panic"}, NEW fd \in BOOLEAN, sp.at # "started",
         sp' = [sp EXCEPT !.at = at, !.fd = fd], kid' = kid \/ kid' = "destroyed"
  PROVE  SpawnInv'
<1>1. sp' \in SpType /\ sp'.at = at
  BY Zenon DEF SpawnInv, SpType
<1>2. kid' # "runs"
  BY Zenon DEF SpawnInv, ReadyInv
<1>3. /\ sp'.at \notin Beginning /\ sp'.at \notin Building /\ sp'.at \notin Ready
      /\ sp'.at # "segments" /\ sp'.at # "started"
  BY <1>1, Zenon DEF Beginning, Building, Ready
<1>4. BeginningInv' /\ StackInv' /\ ImageInv' /\ LoopInv' /\ ReadyInv'
  BY <1>2, <1>3, Zenon DEF BeginningInv, StackInv, ImageInv, LoopInv, ReadyInv
<1>5. QED BY <1>1, <1>4, Zenon DEF SpawnInv

LEMMA StepFails ==
  ASSUME SpawnInv, NEW from, SpawnFails(from), from # "started"
  PROVE  SpawnInv'
<1>1. sp' = [sp EXCEPT !.at = "failed"] /\ sp.at = from /\ kid' = kid
  BY Zenon DEF SpawnFails, Step
<1>2. sp.fd \in BOOLEAN /\ sp' = [sp EXCEPT !.at = "failed", !.fd = sp.fd]
  BY <1>1, Zenon DEF SpawnInv, SpType
<1>3. PICK fd \in BOOLEAN : fd = sp.fd
  BY <1>2, Zenon
<1>4. QED BY <1>1, <1>2, <1>3, Fails, Zenon

LEMMA SegmentFailsStep ==
  ASSUME SpawnInv, sp.at # "started", SegmentFails
  PROVE  SpawnInv'
BY Fails, Zenon DEF SegmentFails
-----------------------------------------------------------------------------
LEMMA SpawnStarts ==
  ASSUME SpawnInit
  PROVE  SpawnInv
<1>1. sp \in SpType /\ sp.at = "idle" /\ kid = "none"
  <2>1. <<>> \in Seq(Nat)
    OBVIOUS
  <2>2. QED BY <2>1 DEF SpawnInit, SpType
<1>2. /\ sp.at \notin Beginning /\ sp.at \notin Building /\ sp.at \notin Ready
      /\ sp.at # "segments" /\ sp.at # "started"
  BY <1>1, Zenon DEF Beginning, Building, Ready
<1>3. BeginningInv /\ StackInv /\ ImageInv /\ LoopInv /\ ReadyInv
  BY <1>1, <1>2, Zenon DEF BeginningInv, StackInv, ImageInv, LoopInv, ReadyInv
<1>4. QED BY <1>1, <1>3, Zenon DEF SpawnInv

LEMMA OpenStep ==
  ASSUME SpawnInv, NEW args \in ArgLists, spawn_open(args)
  PROVE  SpawnInv'
<1>1. args \in Seq(Nat)
  BY ProgramAssumption, Zenon
<1>2. sp' \in SpType
  <2>1. /\ sp' = [sp EXCEPT !.at = "header", !.calls = sp.calls + 1, !.fd = TRUE, !.seg = 1, !.i = 0,
                            !.args = args, !.esp = 0, !.left = SharedPages]
        /\ sp \in SpType
    BY Zenon DEF spawn_open, SpawnInv
  <2>2. sp.calls + 1 \in Nat
    BY <2>1 DEF SpType
  <2>3. SharedPages \in SUBSET SharedPages /\ "header" \in Beginning /\ 1 \in Nat /\ 0 \in Nat /\ 0 \in Int
    BY DEF Beginning
  <2>4. QED BY <1>1, <2>1, <2>2, <2>3, Zenon DEF SpType
<1>3. /\ sp'.at = "header" /\ sp'.seg = 1 /\ sp'.i = 0 /\ sp'.left = SharedPages
      /\ childMem' = NoChildMem /\ unshared' = {} /\ kid' = "none"
  BY Zenon DEF SpawnInv, SpType, spawn_open
<1>4. sp'.at \notin Building /\ sp'.at \notin Ready /\ sp'.at # "segments" /\ sp'.at # "started"
  BY <1>3, Zenon DEF Building, Ready
<1>5. BeginningInv'
  <2>1. NoChildMem' = NoChildMem
    BY Zenon DEF NoChildMem, NoPage
  <2>2. sp'.at # "stack_map"
    BY <1>3, Zenon
  <2>3. QED BY <1>3, <2>1, <2>2, Zenon DEF BeginningInv
<1>6. StackInv' /\ ImageInv' /\ LoopInv' /\ ReadyInv'
  BY <1>3, <1>4, Zenon DEF StackInv, ImageInv, LoopInv, ReadyInv
<1>7. QED BY <1>2, <1>5, <1>6, Zenon DEF SpawnInv

(* A step from one of the first calls to the next one.                     *)
LEMMA BeginStep ==
  ASSUME SpawnInv, NEW from, NEW to, Step(from, to), from \in Beginning, to \in Beginning,
         elf' \in Programs, childMem' = childMem, unshared' = unshared, kid' = kid \/ kid' = "built",
         to = "stack_map" => StackHas(utemp', sp.args, argv_store)
  PROVE  SpawnInv'
<1>1. /\ sp.at = from /\ sp' = [sp EXCEPT !.at = to] /\ sp \in SpType
  BY Zenon DEF Step, SpawnInv
<1>2. sp' \in SpType
  BY <1>1, Zenon DEF SpType
<1>3. /\ sp'.at = to /\ sp'.seg = sp.seg /\ sp'.i = sp.i /\ sp'.left = sp.left /\ sp'.args = sp.args
  BY <1>1, Zenon DEF SpType
<1>4. sp.seg = 1 /\ sp.i = 0 /\ childMem = NoChildMem /\ sp.left = SharedPages /\ unshared = {}
  BY <1>1, Zenon DEF SpawnInv, BeginningInv
<1>5. /\ to \notin Building /\ to \notin Ready /\ to # "segments" /\ to # "started"
      /\ from # "started"
  BY Zenon DEF Beginning, Building, Ready
<1>6. kid' # "runs"
  BY <1>1, <1>5, Zenon DEF SpawnInv, ReadyInv
<1>7. StackInv' /\ ImageInv' /\ LoopInv' /\ ReadyInv'
  BY <1>3, <1>5, <1>6, Zenon DEF StackInv, ImageInv, LoopInv, ReadyInv
<1>8. BeginningInv'
  <2>1. argv_store' = argv_store
    BY <1>3, Zenon DEF argv_store, argc, string_size
  <2>2. sp'.at = "stack_map" => StackHas(utemp', sp'.args, argv_store')
    BY <1>3, <2>1, Zenon
  <2>3. NoChildMem' = NoChildMem
    BY Zenon DEF NoChildMem, NoPage
  <2>4. QED BY <1>3, <1>4, <2>2, <2>3, Zenon DEF BeginningInv
<1>9. QED BY <1>2, <1>7, <1>8, Zenon DEF SpawnInv

LEMMA HeaderStep ==
  ASSUME SpawnInv, read_header
  PROVE  SpawnInv'
<1>1. CASE sp.at = "header" /\ sp' = [sp EXCEPT !.at = "failed", !.fd = FALSE] /\ kid' = kid
  BY <1>1, Fails, Zenon
<1>2. CASE /\ Step("header", "exofork") /\ \E prog \in Programs : elf' = prog
           /\ UNCHANGED <<childMem, utemp, kid, unshared>>
  <2>1. elf' \in Programs /\ childMem' = childMem /\ unshared' = unshared /\ kid' = kid
    BY <1>2, Zenon
  <2>2. "header" \in Beginning /\ "exofork" \in Beginning
    BY Zenon DEF Beginning
  <2>3. QED BY <1>2, <2>1, <2>2, BeginStep, Zenon
<1>3. QED BY <1>1, <1>2, Zenon DEF read_header

LEMMA ExoforkStep ==
  ASSUME SpawnInv, spawn_exofork
  PROVE  SpawnInv'
<1>1. CASE SpawnFails("exofork")
  BY <1>1, StepFails, Zenon
<1>2. CASE Step("exofork", "stack_alloc") /\ kid' = "built" /\ UNCHANGED <<elf, childMem, utemp, unshared>>
  <2>1. "exofork" \in Beginning /\ "stack_alloc" \in Beginning
    BY Zenon DEF Beginning
  <2>2. elf' \in Programs /\ childMem' = childMem /\ unshared' = unshared
    BY <1>2, <2>1, Zenon DEF SpawnInv, BeginningInv, Step
  <2>3. QED BY <1>2, <2>1, <2>2, BeginStep, Zenon
<1>3. QED BY <1>1, <1>2, Zenon DEF spawn_exofork

LEMMA StackAllocStep ==
  ASSUME SpawnInv, stack_alloc
  PROVE  SpawnInv'
<1>1. CASE SpawnFails("stack_alloc")
  BY <1>1, StepFails, Zenon
<1>2. CASE /\ StackFits /\ Step("stack_alloc", "stack_map") /\ utemp' = [o \in CellOffsets |-> StackCell(o)]
           /\ UNCHANGED <<elf, childMem, kid, unshared>>
  <2>1. "stack_alloc" \in Beginning /\ "stack_map" \in Beginning
    BY Zenon DEF Beginning
  <2>2. elf' \in Programs /\ childMem' = childMem /\ unshared' = unshared /\ kid' = kid
    BY <1>2, <2>1, Zenon DEF SpawnInv, BeginningInv, Step
  <2>3. StackHas(utemp', sp.args, argv_store)
    <3>1. sp.args \in Seq(Nat)
      BY Zenon DEF SpawnInv, SpType
    <3>2. QED BY <1>2, <3>1, StackBuilt, Zenon
  <2>4. QED BY <1>2, <2>1, <2>2, <2>3, BeginStep, Zenon
<1>3. QED BY <1>1, <1>2, Zenon DEF stack_alloc
-----------------------------------------------------------------------------
LEMMA StackMapStep ==
  ASSUME SpawnInv, stack_map
  PROVE  SpawnInv'
<1>1. sp.at = "stack_map" /\ utemp' = NoPage /\ elf' = elf /\ kid' = kid /\ unshared' = unshared /\ sp \in SpType
  BY Zenon DEF stack_map, SpawnInv
<1>2. CASE sp' = [sp EXCEPT !.at = "failed"]
  <2>1. sp.fd \in BOOLEAN /\ sp' = [sp EXCEPT !.at = "failed", !.fd = sp.fd]
    BY <1>1, <1>2, Zenon DEF SpType
  <2>2. PICK fd \in BOOLEAN : fd = sp.fd
    BY <2>1, Zenon
  <2>3. QED BY <1>1, <2>1, <2>2, Fails, Zenon
<1>3. CASE /\ MapInChild(StackPage, utemp, TRUE)
           /\ sp' = [sp EXCEPT !.at = "segments", !.esp = UTEMP2USTACK(argv_store - 8)]
  <2>1. /\ elf \in Programs /\ StackHas(utemp, sp.args, argv_store) /\ childMem = NoChildMem
        /\ sp.left = SharedPages /\ unshared = {} /\ sp.seg = 1 /\ sp.i = 0
    BY <1>1, Zenon DEF SpawnInv, BeginningInv, Beginning
  <2>2. PICK A \in Nat : A = argv_store
    BY <2>1, Zenon DEF StackHas
  <2>3. UTEMP2USTACK(A - 8) \in Int
    BY PageAssumption DEF UTEMP2USTACK
  <2>4. sp' \in SpType
    <3>1. "segments" \in Building
      BY Zenon DEF Building
    <3>2. QED BY <1>1, <1>3, <2>2, <2>3, <3>1, Zenon DEF SpType
  <2>5. /\ sp'.at = "segments" /\ sp'.esp = UTEMP2USTACK(A - 8) /\ sp'.args = sp.args
        /\ sp'.left = sp.left /\ sp'.seg = 1 /\ sp'.i = 0 /\ sp'.fd = sp.fd
    BY <1>1, <1>3, <2>1, <2>2, Zenon DEF SpType
  <2>6. DOMAIN childMem = {}
    BY <2>1, Zenon DEF NoChildMem
  <2>7. DOMAIN childMem' = {StackPage} /\ childMem'[StackPage].data = utemp
    <3>1. DOMAIN childMem' = DOMAIN childMem \cup {StackPage}
      BY <1>3, Zenon DEF MapInChild
    <3>2. childMem'[StackPage] = [data |-> utemp, w |-> TRUE]
      BY <1>3, Zenon DEF MapInChild
    <3>3. childMem'[StackPage].data = utemp
      BY <3>2
    <3>4. QED BY <2>6, <3>1, <3>3, Zenon
  <2>8. \A j \in LoadedOf(elf) : Filled(elf, 1, 0, j) = {}
    <3>1. TAKE j \in LoadedOf(elf)
    <3>2. j \in Nat /\ j >= 1 /\ elf[j] \in SegmentType
      <4>1. j \in DOMAIN elf
        BY Zenon DEF LoadedOf
      <4>2. DOMAIN elf = 1 .. Len(elf) /\ Len(elf) \in Nat /\ elf[j] \in SegmentType
        BY <2>1, <4>1, ProgramIs, Zenon
      <4>3. QED BY <4>1, <4>2
    <3>3. QED BY <3>2, FilledNone, Zenon
  <2>9. AllFilled(elf, 1, 0) = {}
    BY <2>8, Zenon DEF AllFilled
  <2>10. InPlace(childMem', elf, 1, 0, {})
    <3>1. DOMAIN childMem' = AllFilled(elf, 1, 0) \cup {StackPage} \cup {}
      BY <2>7, <2>9, Zenon
    <3>2. QED BY <2>8, <3>1, Zenon DEF InPlace
  <2>11. /\ sp'.at \notin Beginning /\ sp'.at \notin Ready /\ sp'.at # "started"
         /\ sp'.at # "readn" /\ sp'.at # "segment_map"
    BY <2>5, Zenon DEF Beginning, Ready
  <2>12. kid' # "runs"
    BY <1>1, Zenon DEF SpawnInv, ReadyInv
  <2>13. BeginningInv' /\ ReadyInv'
    <3>1. NoPage' = NoPage
      BY Zenon DEF NoPage
    <3>2. QED BY <1>1, <2>11, <2>12, <3>1, Zenon DEF BeginningInv, ReadyInv
  <2>14. StackInv'
    <3>1. sp'.esp = UTEMP2USTACK(A - 8) /\ StackHas(childMem'[StackPage].data, sp'.args, A)
      BY <2>1, <2>2, <2>5, <2>7, Zenon
    <3>2. QED BY <3>1, Zenon DEF StackInv
  <2>15. ImageInv'
    <3>1. (SharedPages \ sp'.left) \ unshared' = {}
      BY <1>1, <2>1, <2>5, Zenon
    <3>2. QED BY <1>1, <2>1, <2>5, <2>10, <3>1, Zenon DEF ImageInv
  <2>16. LoopInv'
    <3>1. 0 \in Nat /\ 0 = 0 * PgBytes /\ 1 >= 1
      BY PageAssumption
    <3>2. QED BY <1>1, <2>1, <2>5, <2>11, <3>1, Zenon DEF LoopInv
  <2>17. QED BY <2>4, <2>13, <2>14, <2>15, <2>16, Zenon DEF SpawnInv
<1>4. QED BY <1>2, <1>3, Zenon DEF stack_map

(* What the loop over the segments knows.                                  *)
LEMMA InLoop ==
  ASSUME SpawnInv, sp.at \in Building
  PROVE  /\ sp.seg \in Nat /\ sp.seg >= 1 /\ sp.i \in Nat /\ \E k \in Nat : sp.i = k * PgBytes
         /\ elf \in Programs /\ InPlace(childMem, elf, sp.seg, sp.i, {})
         /\ sp.left = SharedPages /\ unshared = {} /\ kid # "runs" /\ sp.at # "started"
<1>1. sp.left = SharedPages /\ unshared = {} /\ sp.seg >= 1 /\ \E k \in Nat : sp.i = k * PgBytes
  BY Zenon DEF SpawnInv, LoopInv
<1>2. (SharedPages \ sp.left) \ unshared = {}
  BY <1>1, Zenon
<1>3. elf \in Programs /\ InPlace(childMem, elf, sp.seg, sp.i, {})
  BY <1>2, Zenon DEF SpawnInv, ImageInv
<1>4. sp.at # "started" /\ kid # "runs"
  BY Zenon DEF SpawnInv, ReadyInv, Building
<1>5. sp.seg \in Nat /\ sp.i \in Nat
  BY Zenon DEF SpawnInv, SpType
<1>6. QED BY <1>1, <1>3, <1>4, <1>5, Zenon

LEMMA LoopStep ==
  ASSUME SpawnInv, sp.at \in Building, sp' \in SpType, sp'.at \in Building, sp'.args = sp.args,
         sp'.esp = sp.esp, sp'.left = sp.left, elf' = elf, kid' = kid, unshared' = unshared,
         childMem'[StackPage] = childMem[StackPage], sp'.seg >= 1,
         InPlace(childMem', elf, sp'.seg, sp'.i, {}), \E k \in Nat : sp'.i = k * PgBytes,
         sp'.at # "segments" => More(elf, sp'.seg, sp'.i),
         sp'.at = "segments" => utemp' = NoPage,
         sp'.at = "readn" => utemp' = ZeroPage,
         sp'.at = "segment_map" => utemp' = PageImage(elf[sp'.seg], NextPage(elf[sp'.seg], sp'.i))
  PROVE  SpawnInv'
<1>1. sp.left = SharedPages /\ unshared = {} /\ kid # "runs" /\ elf \in Programs
  BY InLoop, Zenon
<1>2. sp'.at \notin Beginning /\ sp'.at \notin Ready /\ sp'.at # "started"
  BY Zenon DEF Beginning, Building, Ready
<1>3. BeginningInv' /\ ReadyInv'
  BY <1>1, <1>2, Zenon DEF BeginningInv, ReadyInv, NoPage
<1>4. StackInv'
  BY Zenon DEF SpawnInv, StackInv
<1>5. ImageInv'
  <2>1. (SharedPages \ sp'.left) \ unshared' = {}
    BY <1>1, Zenon
  <2>2. QED BY <1>1, <2>1, Zenon DEF ImageInv
<1>6. LoopInv'
  BY <1>1, Zenon DEF LoopInv
<1>7. QED BY <1>3, <1>4, <1>5, <1>6, Zenon DEF SpawnInv

(* The segment that the loop is at.                                        *)
LEMMA ThisSegment ==
  ASSUME SpawnInv, sp.at \in Building, More(elf, sp.seg, sp.i)
  PROVE  elf[sp.seg] \in SegmentType
<1>1. sp.seg \in Nat /\ sp.seg >= 1 /\ elf \in Programs
  BY InLoop, Zenon
<1>2. Len(elf) \in Nat /\ DOMAIN elf = 1 .. Len(elf) /\ \A j \in DOMAIN elf : elf[j] \in SegmentType
  BY <1>1, ProgramIs, Zenon
<1>3. sp.seg <= Len(elf)
  BY Zenon DEF More
<1>4. sp.seg \in 1 .. Len(elf)
  BY <1>1, <1>2, <1>3
<1>5. QED BY <1>2, <1>4, Zenon

LEMMA MorePagesIs ==
  ASSUME SpawnInv, InSegment
  PROVE  sp.at = "segments" /\ sp.at \in Building /\ (MorePages <=> More(elf, sp.seg, sp.i))
<1>1. sp.at = "segments" /\ sp.at \in Building /\ sp.seg <= Len(elf)
  BY Zenon DEF InSegment, Building
<1>2. elf[sp.seg] \in SegmentType
  <2>1. sp.seg \in Nat /\ sp.seg >= 1 /\ elf \in Programs
    BY <1>1, InLoop, Zenon
  <2>2. Len(elf) \in Nat /\ DOMAIN elf = 1 .. Len(elf) /\ \A j \in DOMAIN elf : elf[j] \in SegmentType
    BY <2>1, ProgramIs, Zenon
  <2>3. sp.seg \in 1 .. Len(elf)
    BY <1>1, <2>1, <2>2
  <2>4. QED BY <2>2, <2>3, Zenon
<1>3. Segment.memsz = elf[sp.seg].memsz + (elf[sp.seg].va % PgBytes)
  <2>1. elf[sp.seg].va % PgBytes \in Int
    BY <1>2, PageAssumption DEF SegmentType
  <2>2. PICK x \in Int : x = elf[sp.seg].va % PgBytes
    BY <2>1, Zenon
  <2>3. QED BY <1>2, <2>2, SegmentIs, Zenon
<1>4. QED BY <1>1, <1>3, Zenon DEF MorePages, More

(* The page just filled is mapped, and the loop goes on to the next one.   *)
LEMMA MapStep ==
  ASSUME SpawnInv, sp.at \in Building, More(elf, sp.seg, sp.i), NEW d,
         d = PageImage(elf[sp.seg], NextPage(elf[sp.seg], sp.i)), MapInChild(PageNow, d, elf[sp.seg].w),
         sp' = [sp EXCEPT !.at = "segments", !.i = sp.i + PgBytes],
         utemp' = NoPage, elf' = elf, kid' = kid, unshared' = unshared
  PROVE  SpawnInv'
<1>1. PICK seg \in Nat, i \in Nat, k \in Nat, prog \in Programs :
        seg = sp.seg /\ i = sp.i /\ i = k * PgBytes /\ seg >= 1 /\ prog = elf
  BY InLoop, Zenon
<1>2. PICK g \in SegmentType : g = prog[seg]
  BY <1>1, ThisSegment, Zenon
<1>3. PICK q : q = NextPage(g, i)
  BY Zenon
<1>4. PageNow = q
  <2>1. g.va % PgBytes \in Int
    BY PageAssumption DEF SegmentType
  <2>2. PICK x \in Int : x = g.va % PgBytes
    BY <2>1, Zenon
  <2>3. QED BY <1>1, <1>2, <1>3, <2>2, SegmentIs, Zenon
<1>5. InPlace(childMem, prog, seg, i, {}) /\ More(prog, seg, i)
  BY <1>1, InLoop, Zenon
<1>6. MapInChild(q, PageImage(prog[seg], q), prog[seg].w) /\ q = NextPage(prog[seg], i)
  <2>1. d = PageImage(g, q)
    BY <1>1, <1>2, <1>3, Zenon
  <2>2. MapInChild(q, d, g.w)
    BY <1>1, <1>2, <1>4, Zenon DEF MapInChild
  <2>3. QED BY <1>2, <1>3, <2>1, <2>2, Zenon DEF MapInChild
<1>7. InPlace(childMem', prog, seg, i + PgBytes, {}) /\ childMem'[StackPage] = childMem[StackPage]
  BY <1>1, <1>3, <1>5, <1>6, PageInPlace, Zenon
<1>8. i + PgBytes \in Nat /\ \E n \in Nat : i + PgBytes = n * PgBytes
  <2>1. k + 1 \in Nat /\ i + PgBytes = (k + 1) * PgBytes
    BY <1>1, PageAssumption
  <2>2. i + PgBytes \in Nat
    BY PageAssumption
  <2>3. QED BY <2>1, <2>2, Zenon
<1>9. sp \in SpType /\ "segments" \in Building
  BY Zenon DEF SpawnInv, Building
<1>10. /\ sp'.at = "segments" /\ sp'.args = sp.args /\ sp'.esp = sp.esp /\ sp'.left = sp.left
       /\ sp'.seg = sp.seg /\ sp'.i = i + PgBytes
  BY <1>1, <1>9, Zenon DEF SpType
<1>11. sp' \in SpType
  BY <1>1, <1>8, <1>9, Zenon DEF SpType
<1>12. sp'.at # "readn" /\ sp'.at # "segment_map"
  BY <1>10, Zenon
<1>13. InPlace(childMem', elf, sp'.seg, sp'.i, {}) /\ sp'.seg >= 1 /\ \E n \in Nat : sp'.i = n * PgBytes
  BY <1>1, <1>7, <1>8, <1>10, Zenon
<1>14. QED BY <1>7, <1>9, <1>10, <1>11, <1>12, <1>13, LoopStep, Zenon

(* What a page reads after the file's part is copied over zeros.           *)
LEMMA PageReads ==
  ASSUME SpawnInv, sp.at \in Building, More(elf, sp.seg, sp.i)
  PROVE  /\ utemp = ZeroPage => [o \in CellOffsets |-> ReadCell(o)] = PageImage(elf[sp.seg], NextPage(elf[sp.seg], sp.i))
         /\ sp.i >= Segment.filesz => ZeroPage = PageImage(elf[sp.seg], NextPage(elf[sp.seg], sp.i))
<1>1. PICK seg \in Nat, i \in Nat, k \in Nat : seg = sp.seg /\ i = sp.i /\ i = k * PgBytes
  BY InLoop, Zenon
<1>2. PICK g \in SegmentType : g = elf[seg]
  BY <1>1, ThisSegment, Zenon
<1>3. PICK q : q = NextPage(g, i)
  BY Zenon
<1>4. PICK x \in Nat : x = g.va % PgBytes
  <2>1. g.va % PgBytes \in Nat
    BY <1>1, NextPageIs, Zenon
  <2>2. QED BY <2>1, Zenon
<1>5. Segment.filesz = g.filesz + x /\ Segment.off = g.off - x
  BY <1>1, <1>2, <1>4, SegmentIs, Zenon
<1>6. \A o \in CellOffsets :
        ImageByte(g, q * PgBytes + o) =
          IF i + o < g.filesz + x /\ (g.off - x) + i + o < FileBytes
          THEN FileByte((g.off - x) + i + o) ELSE Zero
  <2>1. TAKE o \in CellOffsets
  <2>2. QED BY <1>1, <1>3, <1>4, <2>1, BytesOfPage
<1>7. PageImage(g, q) = [o \in CellOffsets |-> ImageByte(g, q * PgBytes + o)]
  BY Zenon DEF PageImage
<1>8. ASSUME utemp = ZeroPage
      PROVE  [o \in CellOffsets |-> ReadCell(o)] = PageImage(g, q)
  <2>1. \A o \in CellOffsets : utemp[o] = Zero
    BY <1>8, Zenon DEF ZeroPage
  <2>2. \A o \in CellOffsets : ReadCell(o) = ImageByte(g, q * PgBytes + o)
    <3>1. TAKE o \in CellOffsets
    <3>2. ReadCell(o) = IF i + o < g.filesz + x /\ (g.off - x) + i + o < FileBytes
                        THEN FileByte((g.off - x) + i + o) ELSE utemp[o]
      BY <1>1, <1>5, Zenon DEF ReadCell
    <3>3. QED BY <1>6, <2>1, <3>2, Zenon
  <2>3. QED BY <1>7, <2>2, Zenon
<1>9. ASSUME i >= Segment.filesz
      PROVE  ZeroPage = PageImage(g, q)
  <2>1. \A o \in CellOffsets : ~ (i + o < g.filesz + x)
    <3>1. g.filesz \in Nat
      BY Zenon DEF SegmentType
    <3>2. TAKE o \in CellOffsets
    <3>3. o \in Nat
      BY PageAssumption DEF CellOffsets
    <3>4. i >= g.filesz + x
      BY <1>5, <1>9, Zenon
    <3>5. QED BY <3>1, <3>3, <3>4
  <2>2. \A o \in CellOffsets : Zero = ImageByte(g, q * PgBytes + o)
    BY <1>6, <2>1, Zenon
  <2>3. QED BY <1>7, <2>2, Zenon DEF ZeroPage
<1>10. QED BY <1>1, <1>2, <1>3, <1>8, <1>9, Zenon
-----------------------------------------------------------------------------
LEMMA BlankPageStep ==
  ASSUME SpawnInv, blank_page
  PROVE  SpawnInv'
<1>1. sp.at = "segments" /\ sp.at \in Building /\ More(elf, sp.seg, sp.i) /\ sp.i >= Segment.filesz
  <2>1. MorePages /\ InSegment /\ sp.i >= Segment.filesz
    BY Zenon DEF blank_page, MorePages
  <2>2. QED BY <2>1, MorePagesIs, Zenon
<1>2. CASE SegmentFails
  <2>1. sp.at # "started"
    BY <1>1, Zenon
  <2>2. QED BY <1>2, <2>1, SegmentFailsStep, Zenon
<1>3. CASE /\ MapInChild(PageNow, ZeroPage, elf[sp.seg].w) /\ sp' = [sp EXCEPT !.i = @ + PgBytes]
           /\ UNCHANGED <<elf, utemp, kid, unshared>>
  <2>1. PICK d : d = ZeroPage /\ d = PageImage(elf[sp.seg], NextPage(elf[sp.seg], sp.i))
    BY <1>1, PageReads, Zenon
  <2>2. utemp' = NoPage /\ elf' = elf /\ kid' = kid /\ unshared' = unshared
    BY <1>1, <1>3, Zenon DEF SpawnInv, ReadyInv
  <2>3. sp' = [sp EXCEPT !.at = "segments", !.i = sp.i + PgBytes]
    <3>1. sp \in SpType
      BY Zenon DEF SpawnInv
    <3>2. QED BY <1>1, <1>3, <3>1, Zenon DEF SpType
  <2>4. MapInChild(PageNow, d, elf[sp.seg].w)
    BY <1>3, <2>1, Zenon DEF MapInChild
  <2>5. QED BY <1>1, <2>1, <2>2, <2>3, <2>4, MapStep, Zenon
<1>4. QED BY <1>2, <1>3, Zenon DEF blank_page

(* A step of the loop that only changes what is at UTEMP.                  *)
LEMMA TempStep ==
  ASSUME SpawnInv, sp.at \in Building, More(elf, sp.seg, sp.i), NEW to \in {"readn", "segment_map"},
         sp' = [sp EXCEPT !.at = to], UNCHANGED <<elf, childMem, kid, unshared>>,
         to = "readn" => utemp' = ZeroPage,
         to = "segment_map" => utemp' = PageImage(elf[sp.seg], NextPage(elf[sp.seg], sp.i))
  PROVE  SpawnInv'
<1>1. sp \in SpType /\ to \in Building /\ to # "segments"
  BY Zenon DEF SpawnInv, Building
<1>2. /\ sp'.at = to /\ sp'.args = sp.args /\ sp'.esp = sp.esp /\ sp'.left = sp.left
      /\ sp'.seg = sp.seg /\ sp'.i = sp.i
  BY <1>1, Zenon DEF SpType
<1>3. sp' \in SpType
  BY <1>1, Zenon DEF SpType
<1>4. elf' = elf /\ childMem' = childMem /\ kid' = kid /\ unshared' = unshared
  BY Zenon
<1>5. /\ sp.seg >= 1 /\ InPlace(childMem', elf, sp.seg, sp.i, {}) /\ \E k \in Nat : sp.i = k * PgBytes
  BY <1>4, InLoop, Zenon
<1>6. /\ sp'.seg >= 1 /\ InPlace(childMem', elf, sp'.seg, sp'.i, {}) /\ \E k \in Nat : sp'.i = k * PgBytes
      /\ childMem'[StackPage] = childMem[StackPage] /\ sp'.at \in Building /\ sp'.at # "segments"
  BY <1>1, <1>2, <1>4, <1>5, Zenon
<1>7. /\ More(elf, sp'.seg, sp'.i) /\ (sp'.at = "readn" => utemp' = ZeroPage)
      /\ sp'.at = "segment_map" => utemp' = PageImage(elf[sp'.seg], NextPage(elf[sp'.seg], sp'.i))
  BY <1>2, Zenon
<1>8. QED BY <1>2, <1>3, <1>4, <1>6, <1>7, LoopStep, Zenon

LEMMA SegmentAllocStep ==
  ASSUME SpawnInv, segment_alloc
  PROVE  SpawnInv'
<1>1. sp.at = "segments" /\ sp.at \in Building /\ More(elf, sp.seg, sp.i)
  <2>1. MorePages /\ InSegment
    BY Zenon DEF segment_alloc, MorePages
  <2>2. QED BY <2>1, MorePagesIs, Zenon
<1>2. CASE SegmentFails
  <2>1. sp.at # "started"
    BY <1>1, Zenon
  <2>2. QED BY <1>2, <2>1, SegmentFailsStep, Zenon
<1>3. CASE /\ sp' = [sp EXCEPT !.at = "readn"] /\ utemp' = ZeroPage
           /\ UNCHANGED <<elf, childMem, kid, unshared>>
  BY <1>1, <1>3, TempStep, Zenon
<1>4. QED BY <1>2, <1>3, Zenon DEF segment_alloc

LEMMA ReadnStep ==
  ASSUME SpawnInv, segment_readn
  PROVE  SpawnInv'
<1>1. sp.at = "readn" /\ sp.at \in Building /\ sp.at # "segments"
  BY Zenon DEF segment_readn, Building
<1>2. More(elf, sp.seg, sp.i) /\ utemp = ZeroPage
  BY <1>1, Zenon DEF SpawnInv, LoopInv
<1>3. CASE SegmentFails
  <2>1. sp.at # "started"
    BY <1>1, Zenon
  <2>2. QED BY <1>3, <2>1, SegmentFailsStep, Zenon
<1>4. CASE /\ sp' = [sp EXCEPT !.at = "segment_map"] /\ utemp' = [o \in CellOffsets |-> ReadCell(o)]
           /\ UNCHANGED <<elf, childMem, kid, unshared>>
  <2>1. utemp' = PageImage(elf[sp.seg], NextPage(elf[sp.seg], sp.i))
    BY <1>1, <1>2, <1>4, PageReads, Zenon
  <2>2. QED BY <1>1, <1>2, <1>4, <2>1, TempStep, Zenon
<1>5. QED BY <1>3, <1>4, Zenon DEF segment_readn

LEMMA SegmentMapStep ==
  ASSUME SpawnInv, segment_map
  PROVE  SpawnInv'
<1>1. sp.at = "segment_map" /\ sp.at \in Building /\ sp.at # "segments" /\ sp.at # "started"
  BY Zenon DEF segment_map, Step, Building
<1>2. More(elf, sp.seg, sp.i) /\ utemp = PageImage(elf[sp.seg], NextPage(elf[sp.seg], sp.i))
  BY <1>1, Zenon DEF SpawnInv, LoopInv
<1>3. CASE Step("segment_map", "panic") /\ UNCHANGED <<elf, childMem, utemp, kid, unshared>>
  <2>1. sp.fd \in BOOLEAN /\ sp' = [sp EXCEPT !.at = "panic", !.fd = sp.fd] /\ kid' = kid
    BY <1>3, Zenon DEF SpawnInv, SpType, Step
  <2>2. PICK fd \in BOOLEAN : fd = sp.fd
    BY <2>1, Zenon
  <2>3. QED BY <1>1, <2>1, <2>2, Fails, Zenon
<1>4. CASE /\ MapInChild(PageNow, utemp, elf[sp.seg].w) /\ utemp' = NoPage
           /\ sp' = [sp EXCEPT !.at = "segments", !.i = @ + PgBytes]
           /\ UNCHANGED <<elf, kid, unshared>>
  <2>1. PICK d : d = utemp /\ d = PageImage(elf[sp.seg], NextPage(elf[sp.seg], sp.i))
    BY <1>2, Zenon
  <2>2. MapInChild(PageNow, d, elf[sp.seg].w)
    BY <1>4, <2>1, Zenon DEF MapInChild
  <2>3. sp' = [sp EXCEPT !.at = "segments", !.i = sp.i + PgBytes] /\ elf' = elf /\ kid' = kid /\ unshared' = unshared
    BY <1>4, Zenon
  <2>4. QED BY <1>1, <1>2, <1>4, <2>1, <2>2, <2>3, MapStep, Zenon
<1>5. QED BY <1>3, <1>4, Zenon DEF segment_map
-----------------------------------------------------------------------------
LEMMA NextSegmentStep ==
  ASSUME SpawnInv, next_segment
  PROVE  SpawnInv'
<1>1. sp.at = "segments" /\ sp.at \in Building /\ ~ More(elf, sp.seg, sp.i) /\ sp.seg <= Len(elf)
  <2>1. ~ MorePages /\ InSegment /\ sp.seg <= Len(elf)
    BY Zenon DEF next_segment, InSegment
  <2>2. QED BY <2>1, MorePagesIs, Zenon
<1>2. PICK seg \in Nat, i \in Nat, prog \in Programs : seg = sp.seg /\ i = sp.i /\ seg >= 1 /\ prog = elf
  BY <1>1, InLoop, Zenon
<1>3. InPlace(childMem, prog, seg, i, {}) /\ utemp = NoPage
  BY <1>1, <1>2, InLoop, Zenon DEF SpawnInv, ReadyInv
<1>4. /\ sp' = [sp EXCEPT !.seg = seg + 1, !.i = 0] /\ sp \in SpType
      /\ elf' = elf /\ childMem' = childMem /\ kid' = kid /\ unshared' = unshared /\ utemp' = utemp
  BY <1>2, Zenon DEF next_segment, SpawnInv
<1>5. seg + 1 \in Nat /\ 0 \in Nat /\ seg + 1 >= 1 /\ 0 = 0 * PgBytes
  BY <1>2, PageAssumption
<1>6. sp' \in SpType
  BY <1>4, <1>5, Zenon DEF SpType
<1>7. /\ sp'.at = "segments" /\ sp'.args = sp.args /\ sp'.esp = sp.esp /\ sp'.left = sp.left
      /\ sp'.seg = seg + 1 /\ sp'.i = 0
  BY <1>1, <1>4, Zenon DEF SpType
<1>8. \A j \in LoadedOf(prog) : Filled(prog, seg + 1, 0, j) = Filled(prog, seg, i, j)
  <2>1. TAKE j \in LoadedOf(prog)
  <2>2. j \in DOMAIN prog /\ prog[j].load
    BY Zenon DEF LoadedOf
  <2>3. j \in Nat /\ prog[j] \in SegmentType
    <3>1. DOMAIN prog = 1 .. Len(prog) /\ Len(prog) \in Nat /\ prog[j] \in SegmentType
      BY <2>2, ProgramIs, Zenon
    <3>2. QED BY <2>2, <3>1
  <2>4. j = seg => ~ (i < prog[seg].memsz + (prog[seg].va % PgBytes))
    BY <1>1, <1>2, <2>2, Zenon DEF More
  <2>5. QED BY <2>3, <2>4, FilledNext, Zenon
<1>9. InPlace(childMem', prog, seg + 1, 0, {})
  <2>1. \A p : p \in AllFilled(prog, seg + 1, 0) <=> p \in AllFilled(prog, seg, i)
    BY <1>8, Zenon DEF AllFilled
  <2>2. AllFilled(prog, seg + 1, 0) = AllFilled(prog, seg, i)
    BY <2>1, Zenon
  <2>3. DOMAIN childMem' = AllFilled(prog, seg + 1, 0) \cup {StackPage} \cup {}
    BY <1>3, <1>4, <2>2, Zenon DEF InPlace
  <2>4. \A j \in LoadedOf(prog) : \A p \in Filled(prog, seg + 1, 0, j) :
          childMem'[p] = [data |-> PageImage(prog[j], p), w |-> prog[j].w]
    BY <1>3, <1>4, <1>8, Zenon DEF InPlace
  <2>5. QED BY <2>3, <2>4, Zenon DEF InPlace
<1>10. /\ sp'.seg >= 1 /\ InPlace(childMem', elf, sp'.seg, sp'.i, {}) /\ \E k \in Nat : sp'.i = k * PgBytes
       /\ childMem'[StackPage] = childMem[StackPage] /\ sp'.at \in Building
       /\ sp'.at # "readn" /\ sp'.at # "segment_map" /\ utemp' = NoPage
  BY <1>1, <1>2, <1>3, <1>4, <1>5, <1>7, <1>9, Zenon
<1>11. QED BY <1>1, <1>4, <1>6, <1>7, <1>10, LoopStep, Zenon

(* A step of what follows the segments.                                    *)
LEMMA ReadyStep ==
  ASSUME SpawnInv, sp.at \in Ready \cup {"segments"}, sp.seg > Len(elf), sp' \in SpType, sp'.at \in Ready, ~ sp'.fd,
         sp'.args = sp.args, sp'.esp = sp.esp, sp'.seg = sp.seg, sp'.i = sp.i,
         elf' = elf, utemp' = utemp, kid' = "runs" => sp'.at = "started", sp'.at = "started" => sp'.left = {},
         unshared' \cap sp'.left = {}, childMem'[StackPage] = childMem[StackPage],
         InPlace(childMem', elf, sp.seg, sp.i, (SharedPages \ sp'.left) \ unshared')
  PROVE  SpawnInv'
<1>1. /\ sp'.at \notin Beginning /\ sp'.at \notin Building /\ sp'.at # "segments"
      /\ sp.at \in Building \cup Ready
  BY Zenon DEF Beginning, Building, Ready
<1>2. BeginningInv' /\ LoopInv'
  BY <1>1, Zenon DEF BeginningInv, LoopInv
<1>3. StackInv'
  BY <1>1, Zenon DEF SpawnInv, StackInv
<1>4. elf \in Programs /\ utemp = NoPage
  BY <1>1, Zenon DEF SpawnInv, ImageInv, ReadyInv
<1>5. ImageInv'
  BY <1>4, Zenon DEF ImageInv
<1>6. ReadyInv'
  BY <1>4, Zenon DEF ReadyInv, NoPage
<1>7. QED BY <1>2, <1>3, <1>5, <1>6, Zenon DEF SpawnInv

LEMMA CloseStep ==
  ASSUME SpawnInv, spawn_close
  PROVE  SpawnInv'
<1>1. /\ sp.at = "segments" /\ sp.seg > Len(elf) /\ sp' = [sp EXCEPT !.at = "shared", !.fd = FALSE]
      /\ elf' = elf /\ childMem' = childMem /\ utemp' = utemp /\ kid' = kid /\ unshared' = unshared
      /\ sp \in SpType /\ sp.at \in Building /\ "shared" \in Ready
  BY Zenon DEF spawn_close, SpawnInv, Building, Ready
<1>2. InPlace(childMem, elf, sp.seg, sp.i, {}) /\ sp.left = SharedPages /\ unshared = {} /\ kid # "runs"
  BY <1>1, InLoop, Zenon
<1>3. sp' \in SpType
  BY <1>1, Zenon DEF SpType
<1>4. /\ sp'.at = "shared" /\ sp'.args = sp.args /\ sp'.esp = sp.esp /\ sp'.left = sp.left
      /\ sp'.seg = sp.seg /\ sp'.i = sp.i /\ ~ sp'.fd
  BY <1>1, Zenon DEF SpType
<1>5. (SharedPages \ sp'.left) \ unshared' = {} /\ unshared' \cap sp'.left = {}
  BY <1>1, <1>2, <1>4, Zenon
<1>6. /\ sp'.at \in Ready /\ sp'.at # "started" /\ kid' # "runs"
      /\ InPlace(childMem', elf, sp.seg, sp.i, (SharedPages \ sp'.left) \ unshared')
      /\ childMem'[StackPage] = childMem[StackPage] /\ sp.at \in Ready \cup {"segments"}
  BY <1>1, <1>2, <1>4, <1>5, Zenon
<1>7. QED BY <1>1, <1>3, <1>4, <1>5, <1>6, ReadyStep, Zenon

LEMMA SharedStep ==
  ASSUME SpawnInv, NEW p \in SharedPages, copy_shared_page(p)
  PROVE  SpawnInv'
<1>1. /\ sp.at = "shared" /\ p \in sp.left /\ sp' = [sp EXCEPT !.left = sp.left \ {p}]
      /\ elf' = elf /\ utemp' = utemp /\ kid' = kid /\ sp \in SpType /\ sp.at \in Ready
  BY Zenon DEF copy_shared_page, SpawnInv, Ready
<1>2. /\ sp.seg > Len(elf) /\ ~ sp.fd /\ unshared \cap sp.left = {} /\ kid # "runs" /\ elf \in Programs
      /\ InPlace(childMem, elf, sp.seg, sp.i, (SharedPages \ sp.left) \ unshared)
  BY <1>1, Zenon DEF SpawnInv, ReadyInv, ImageInv
<1>3. sp' \in SpType
  <2>1. sp.left \ {p} \in SUBSET SharedPages
    BY <1>1, Zenon DEF SpType
  <2>2. QED BY <1>1, <2>1, Zenon DEF SpType
<1>4. /\ sp'.at = "shared" /\ sp'.args = sp.args /\ sp'.esp = sp.esp /\ sp'.left = sp.left \ {p}
      /\ sp'.seg = sp.seg /\ sp'.i = sp.i /\ ~ sp'.fd
  BY <1>1, <1>2, Zenon DEF SpType
<1>5. PICK prog \in Programs, seg \in Nat, i \in Nat, S \in SUBSET SharedPages :
        prog = elf /\ seg = sp.seg /\ i = sp.i /\ S = (SharedPages \ sp.left) \ unshared
  <2>1. sp.seg \in Nat /\ sp.i \in Nat /\ (SharedPages \ sp.left) \ unshared \in SUBSET SharedPages
    BY <1>1, Zenon DEF SpType
  <2>2. QED BY <1>2, <2>1, Zenon
<1>6. PICK F : F = AllFilled(prog, seg, i)
  BY Zenon
<1>7. DOMAIN childMem = F \cup {StackPage} \cup S
  BY <1>2, <1>5, <1>6, Zenon DEF InPlace
<1>8. sp'.at \in Ready /\ sp'.at # "started" /\ kid' # "runs" /\ sp.at \in Ready \cup {"segments"}
  BY <1>1, <1>2, <1>4, Zenon DEF Ready
<1>9. CASE MapInChild(p, ZeroPage, TRUE) /\ unshared' = unshared
  <2>1. /\ DOMAIN childMem' = DOMAIN childMem \cup {p}
        /\ \A q \in DOMAIN childMem : q # p => childMem'[q] = childMem[q]
    BY <1>9, Zenon DEF MapInChild
  <2>2. p # StackPage /\ \A j \in LoadedOf(prog) : \A q \in Filled(prog, seg, i, j) : q # p
    <3>1. p # StackPage
      BY PageAssumption, Zenon
    <3>2. \A j \in LoadedOf(prog) : p \notin PagesOf(prog[j])
      BY ProgramIs, Zenon DEF LoadedOf
    <3>3. QED BY <3>1, <3>2, Zenon DEF Filled
  <2>3. (SharedPages \ sp'.left) \ unshared' = S \cup {p} /\ unshared' \cap sp'.left = {}
    BY <1>1, <1>2, <1>4, <1>5, <1>9, Zenon
  <2>4. DOMAIN childMem' = F \cup {StackPage} \cup (S \cup {p})
    BY <1>7, <2>1, Zenon
  <2>5. \A j \in LoadedOf(prog) : \A q \in Filled(prog, seg, i, j) : q \in DOMAIN childMem
    BY <1>6, <1>7, Zenon DEF AllFilled
  <2>6. \A j \in LoadedOf(prog) : \A q \in Filled(prog, seg, i, j) :
          childMem'[q] = [data |-> PageImage(prog[j], q), w |-> prog[j].w]
    <3>1. TAKE j \in LoadedOf(prog)
    <3>2. TAKE q \in Filled(prog, seg, i, j)
    <3>3. childMem'[q] = childMem[q]
      BY <2>1, <2>2, <2>5, Zenon
    <3>4. InPlace(childMem, prog, seg, i, S)
      BY <1>2, <1>5, Zenon
    <3>5. childMem[q] = [data |-> PageImage(prog[j], q), w |-> prog[j].w]
      BY <3>4, Zenon DEF InPlace
    <3>6. QED BY <3>3, <3>5, Zenon
  <2>7. InPlace(childMem', prog, seg, i, S \cup {p})
    BY <1>6, <2>4, <2>6, Zenon DEF InPlace
  <2>8. childMem'[StackPage] = childMem[StackPage]
    BY <1>7, <2>1, <2>2, Zenon
  <2>9. InPlace(childMem', elf, sp.seg, sp.i, (SharedPages \ sp'.left) \ unshared')
    BY <1>5, <2>3, <2>7, Zenon
  <2>10. QED BY <1>1, <1>2, <1>3, <1>4, <1>8, <2>3, <2>8, <2>9, ReadyStep, Zenon
<1>10. CASE unshared' = unshared \cup {p} /\ childMem' = childMem
  <2>1. (SharedPages \ sp'.left) \ unshared' = S /\ unshared' \cap sp'.left = {}
    BY <1>1, <1>2, <1>4, <1>5, <1>10, Zenon
  <2>2. InPlace(childMem', elf, sp.seg, sp.i, (SharedPages \ sp'.left) \ unshared')
    BY <1>2, <1>5, <1>10, <2>1, Zenon
  <2>3. childMem'[StackPage] = childMem[StackPage]
    BY <1>10, Zenon
  <2>4. QED BY <1>1, <1>2, <1>3, <1>4, <1>8, <2>1, <2>2, <2>3, ReadyStep, Zenon
<1>11. QED BY <1>9, <1>10, Zenon DEF copy_shared_page

LEMMA StartStep ==
  ASSUME SpawnInv, spawn_start
  PROVE  SpawnInv'
<1>1. /\ sp.at = "shared" /\ sp.left = {} /\ sp' = [sp EXCEPT !.at = "started"]
      /\ elf' = elf /\ utemp' = utemp /\ childMem' = childMem /\ unshared' = unshared
      /\ sp \in SpType /\ sp.at \in Ready /\ "started" \in Ready
  BY Zenon DEF spawn_start, Step, SpawnInv, Ready
<1>2. /\ sp.seg > Len(elf) /\ ~ sp.fd /\ unshared \cap sp.left = {}
      /\ InPlace(childMem, elf, sp.seg, sp.i, (SharedPages \ sp.left) \ unshared)
  BY <1>1, Zenon DEF SpawnInv, ReadyInv, ImageInv
<1>3. sp' \in SpType
  BY <1>1, Zenon DEF SpType
<1>4. /\ sp'.at = "started" /\ sp'.args = sp.args /\ sp'.esp = sp.esp /\ sp'.left = sp.left
      /\ sp'.seg = sp.seg /\ sp'.i = sp.i /\ sp'.fd = sp.fd
  BY <1>1, Zenon DEF SpType
<1>5. /\ sp'.at \in Ready /\ sp'.left = {} /\ ~ sp'.fd /\ unshared' \cap sp'.left = {}
      /\ InPlace(childMem', elf, sp.seg, sp.i, (SharedPages \ sp'.left) \ unshared')
      /\ childMem'[StackPage] = childMem[StackPage] /\ sp.at \in Ready \cup {"segments"}
  BY <1>1, <1>2, <1>4, Zenon
<1>6. QED BY <1>1, <1>2, <1>3, <1>4, <1>5, ReadyStep, Zenon
-----------------------------------------------------------------------------
(* At every step of spawn the child has the pages of the segments loaded   *)
(* so far, each with its bytes of the file and its permission, its stack,  *)
(* and the shared pages already mapped, and nothing else (spawn.c:93-149). *)
THEOREM SpawnInvariance == SpawnSpec => []SpawnInv
<1>1. SpawnInit => SpawnInv
  BY SpawnStarts, Zenon
<1>2. SpawnInv /\ [SpawnNext]_spawnVars => SpawnInv'
  <2>1. SUFFICES ASSUME SpawnInv, [SpawnNext]_spawnVars PROVE SpawnInv'
    BY Zenon
  <2>2. ASSUME NEW args \in ArgLists, spawn_open(args) PROVE SpawnInv'
    BY <2>1, <2>2, OpenStep, Zenon
  <2>3. CASE read_header
    BY <2>1, <2>3, HeaderStep, Zenon
  <2>4. CASE spawn_exofork
    BY <2>1, <2>4, ExoforkStep, Zenon
  <2>5. CASE stack_alloc
    BY <2>1, <2>5, StackAllocStep, Zenon
  <2>6. CASE stack_map
    BY <2>1, <2>6, StackMapStep, Zenon
  <2>7. CASE blank_page
    BY <2>1, <2>7, BlankPageStep, Zenon
  <2>8. CASE segment_alloc
    BY <2>1, <2>8, SegmentAllocStep, Zenon
  <2>9. CASE segment_readn
    BY <2>1, <2>9, ReadnStep, Zenon
  <2>10. CASE segment_map
    BY <2>1, <2>10, SegmentMapStep, Zenon
  <2>11. CASE next_segment
    BY <2>1, <2>11, NextSegmentStep, Zenon
  <2>12. CASE spawn_close
    BY <2>1, <2>12, CloseStep, Zenon
  <2>13. ASSUME NEW p \in SharedPages, copy_shared_page(p) PROVE SpawnInv'
    BY <2>1, <2>13, SharedStep, Zenon
  <2>14. CASE spawn_start
    BY <2>1, <2>14, StartStep, Zenon
  <2>15. CASE UNCHANGED spawnVars
    <3>1. /\ sp' = sp /\ elf' = elf /\ childMem' = childMem /\ utemp' = utemp
          /\ kid' = kid /\ unshared' = unshared
      BY <2>15, Zenon DEF spawnVars
    <3>2. argv_store' = argv_store
      BY <3>1, Zenon DEF argv_store, argc, string_size
    <3>3. (sp \in SpType)' /\ BeginningInv'
      BY <2>1, <3>1, <3>2, Zenon DEF SpawnInv, BeginningInv, NoChildMem, NoPage
    <3>4. StackInv' /\ ImageInv' /\ LoopInv' /\ ReadyInv'
      BY <2>1, <3>1, Zenon DEF SpawnInv, StackInv, ImageInv, LoopInv, ReadyInv
    <3>5. QED BY <3>3, <3>4, Zenon DEF SpawnInv
  <2>16. QED
    BY <2>1, <2>2, <2>3, <2>4, <2>5, <2>6, <2>7, <2>8, <2>9, <2>10, <2>11, <2>12, <2>13, <2>14, <2>15,
       Zenon DEF SpawnNext
<1>3. QED BY <1>1, <1>2, PTL DEF SpawnSpec

(* The image, read byte by byte.                                           *)
LEMMA ImageRead ==
  ASSUME NEW g \in SegmentType, NEW a \in g.va .. g.va + g.memsz - 1
  PROVE  /\ a \div PgBytes \in PagesOf(g) /\ a % PgBytes \in CellOffsets
         /\ PageImage(g, a \div PgBytes)[a % PgBytes] = ImageByte(g, a)
<1>1. PICK P \in Nat, v \in Nat, m \in Nat : P = PgBytes /\ P > 0 /\ v = g.va /\ m = g.memsz
  BY PageAssumption, Zenon DEF SegmentType
<1>2. a \in Int /\ v <= a /\ a <= v + m - 1
  BY <1>1
<1>3. PICK d \in Int, r \in 0 .. P - 1 : d = a \div P /\ r = a % P /\ a = d * P + r
  BY <1>1, <1>2, DivMod
<1>4. v < (d + 1) * P /\ d * P <= v + m - 1
  <2>1. (d + 1) * P = d * P + P /\ d * P \in Int
    BY <1>1, <1>3, TimesLess, Zenon
  <2>2. PICK D \in Int, E \in Int : D = d * P /\ E = (d + 1) * P /\ E = D + P
    BY <2>1
  <2>3. QED BY <1>1, <1>2, <1>3, <2>2
<1>5. d \in PagesOf(g)
  BY <1>1, <1>3, <1>4, PagesOfIs, Zenon
<1>6. r \in CellOffsets
  BY <1>1, <1>3, Zenon DEF CellOffsets
<1>7. PageImage(g, d)[r] = ImageByte(g, d * PgBytes + r)
  BY <1>6, Zenon DEF PageImage
<1>8. QED BY <1>1, <1>3, <1>5, <1>6, <1>7, Zenon

LEMMA ChildComplete ==
  ASSUME SpawnInv
  PROVE  StartedComplete
<1>1. SUFFICES ASSUME kid = "runs" PROVE StartedComplete
  BY Zenon DEF StartedComplete
<1>2. /\ sp.at = "started" /\ sp.at \in Ready /\ sp.left = {} /\ sp.seg > Len(elf) /\ ~ sp.fd /\ utemp = NoPage
      /\ elf \in Programs /\ InPlace(childMem, elf, sp.seg, sp.i, (SharedPages \ sp.left) \ unshared)
      /\ sp \in SpType
  BY <1>1, Zenon DEF SpawnInv, ReadyInv, ImageInv, Ready
<1>3. StackComplete
  <2>1. PICK A \in Nat : sp.esp = UTEMP2USTACK(A - 8) /\ StackHas(childMem[StackPage].data, sp.args, A)
    BY <1>2, Zenon DEF SpawnInv, StackInv
  <2>2. sp.args \in Seq(Nat)
    BY <1>2, Zenon DEF SpType
  <2>3. QED BY <2>1, <2>2, StackRead, Zenon
<1>4. PICK prog \in Programs, seg \in Nat, i \in Nat : prog = elf /\ seg = sp.seg /\ i = sp.i /\ seg > Len(prog)
  BY <1>2, Zenon DEF SpType
<1>5. \A j \in LoadedOf(prog) : Filled(prog, seg, i, j) = PagesOf(prog[j])
  <2>1. \A j \in DOMAIN prog : j < seg
    BY <1>4, ProgramIs
  <2>2. QED BY <2>1, Zenon DEF LoadedOf, Filled
<1>6. Loaded = LoadedOf(prog)
  BY <1>4, Zenon DEF Loaded, LoadedOf
<1>7. DOMAIN childMem = {StackPage} \cup (SharedPages \ unshared) \cup UNION {PagesOf(elf[j]) : j \in Loaded}
  <2>1. DOMAIN childMem = AllFilled(prog, seg, i) \cup {StackPage} \cup ((SharedPages \ sp.left) \ unshared)
    BY <1>2, <1>4, Zenon DEF InPlace
  <2>2. (SharedPages \ sp.left) \ unshared = SharedPages \ unshared
    BY <1>2, Zenon
  <2>3. \A p : p \in AllFilled(prog, seg, i) <=> \E j \in Loaded : p \in PagesOf(elf[j])
    <3>1. \A p : p \in AllFilled(prog, seg, i) <=> \E j \in LoadedOf(prog) : p \in Filled(prog, seg, i, j)
      BY Zenon DEF AllFilled
    <3>2. QED BY <1>4, <1>5, <1>6, <3>1, Zenon
  <2>4. \A p : p \in DOMAIN childMem <=>
                 p = StackPage \/ (p \in SharedPages /\ p \notin unshared) \/ \E j \in Loaded : p \in PagesOf(elf[j])
    BY <2>1, <2>2, <2>3, Zenon
  <2>5. \A p : p \in {StackPage} \cup (SharedPages \ unshared) \cup UNION {PagesOf(elf[j]) : j \in Loaded} <=>
                 p = StackPage \/ (p \in SharedPages /\ p \notin unshared) \/ \E j \in Loaded : p \in PagesOf(elf[j])
    BY Zenon
  <2>6. QED BY <2>4, <2>5, Zenon
<1>8. ASSUME NEW j \in Loaded
      PROVE  /\ \A p \in PagesOf(elf[j]) : childMem[p].w = elf[j].w
             /\ \A a \in elf[j].va .. elf[j].va + elf[j].memsz - 1 : Cell(a) = ImageByte(elf[j], a)
  <2>1. PICK g \in SegmentType : g = elf[j]
    BY <1>4, <1>6, <1>8, ProgramIs, Zenon DEF LoadedOf
  <2>2. \A p \in PagesOf(g) : childMem[p] = [data |-> PageImage(g, p), w |-> g.w]
    BY <1>2, <1>4, <1>5, <1>6, <1>8, <2>1, Zenon DEF InPlace
  <2>3. \A p \in PagesOf(g) : childMem[p].data = PageImage(g, p) /\ childMem[p].w = g.w
    <3>1. TAKE p \in PagesOf(g)
    <3>2. PICK r, d, w : r = childMem[p] /\ d = PageImage(g, p) /\ w = g.w
      BY Zenon
    <3>3. r = [data |-> d, w |-> w]
      BY <2>2, <3>2, Zenon
    <3>4. r.data = d /\ r.w = w
      BY <3>3, Zenon
    <3>5. QED BY <3>2, <3>4, Zenon
  <2>4. \A a \in g.va .. g.va + g.memsz - 1 : Cell(a) = ImageByte(g, a)
    BY <2>3, ImageRead, Zenon DEF Cell
  <2>5. QED BY <2>1, <2>3, <2>4, Zenon
<1>9. QED BY <1>2, <1>3, <1>7, <1>8, Zenon DEF StartedComplete, StackComplete

(* A child that spawn starts is complete, for every program, every list of *)
(* arguments that fits the stack page and every order of failures: it has  *)
(* its whole image, its stack and the shared pages (spawn.c:93-149).       *)
THEOREM ChildIsComplete == SpawnSpec => []StartedComplete
<1>1. SpawnInv => StartedComplete
  BY ChildComplete, Zenon
<1>2. QED BY <1>1, SpawnInvariance, PTL
=============================================================================
