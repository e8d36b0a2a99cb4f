-------------------------- MODULE PackageNamesProofs --------------------------
(***************************************************************************)
(* The names of packages in generated code resolve: for every list of       *)
(* imports, for all that templates may ask for, in every order, and for any *)
(* number of directives in a file.                                          *)
(***************************************************************************)
EXTENDS PackageNames, FiniteSetTheorems, SequenceTheorems, WellFoundedInduction, TLAPS

-----------------------------------------------------------------------------
(* The search for a free name                                              *)

(* A set of numbers that is not empty has a least element.                  *)
LEMMA Least ==
  ASSUME NEW S, S \subseteq Nat, S # {}
  PROVE  \E n \in S : \A m \in S : n <= m
<1>1. PICK n \in S : \A m \in S : <<m, n>> \notin OpToRel(<, Nat)
  BY NatLessThanWellFounded, WFMin
<1>2. ASSUME NEW m \in S  PROVE n <= m
  <2>1. ~(m < n)
    BY <1>1 DEF OpToRel
  <2> QED
    BY <2>1
<1> QED
  BY <1>2

(* The names with one to so many more underscores cannot all be taken, so   *)
(* the search finds a name, and that is free.                               *)
LEMMA FreeIsFree ==
  ASSUME NEW taken, IsFiniteSet(taken), NEW alias, IsName(alias)
  PROVE  /\ Free(alias, taken) \notin taken
         /\ \E n \in Nat : n >= alias[1] /\ Free(alias, taken) = <<n, alias[2]>>
<1> DEFINE c == Cardinality(taken)
           Tried == alias[1]..(alias[1] + c)
           NotTaken == {n \in Tried : <<n, alias[2]>> \notin taken}
           f == [n \in Tried |-> <<n, alias[2]>>]
<1>1. alias[1] \in Nat /\ c \in Nat
  BY FS_CardinalityType DEF IsName
<1>2. IsFiniteSet(Tried) /\ Cardinality(Tried) = c + 1
  <2>1. alias[1] \in Int /\ alias[1] + c \in Int /\ ~(alias[1] > alias[1] + c)
    BY <1>1
  <2>2. (alias[1] + c) - alias[1] + 1 = c + 1
    BY <1>1
  <2>3. IsFiniteSet(Tried)
    BY <2>1, FS_Interval
  <2>4. Cardinality(Tried) = (alias[1] + c) - alias[1] + 1
    BY <2>1, FS_Interval
  <2> QED
    BY <2>2, <2>3, <2>4
<1>3. NotTaken # {}
  <2>1. SUFFICES ASSUME NotTaken = {}  PROVE FALSE
    OBVIOUS
  <2>2. f \in [Tried -> taken]
    BY <2>1
  <2>3. \E x, y \in Tried : x # y /\ f[x] = f[y]
    <3>1. c < Cardinality(Tried)
      BY <1>1, <1>2
    <3> HIDE DEF f, Tried
    <3> QED
      BY <3>1, <2>2, <1>2, FS_PigeonHole
  <2> QED
    BY <2>3
<1>4. NotTaken \subseteq Nat
  BY <1>1
<1>5. PICK n \in NotTaken : \A m \in NotTaken : n <= m
  <2> HIDE DEF NotTaken
  <2> QED
    BY <1>3, <1>4, Least
<1>6. ASSUME NEW m \in alias[1]..(n - 1)  PROVE <<m, alias[2]>> \in taken
  <2>1. m \in Tried /\ ~(n <= m)
    BY <1>1, <1>4
  <2> QED
    BY <2>1, <1>5
<1> DEFINE IsIt(k) == /\ <<k, alias[2]>> \notin taken
                      /\ \A m \in alias[1]..(k - 1) : <<m, alias[2]>> \in taken
           it == CHOOSE k \in Tried : IsIt(k)
<1>7. it \in Tried /\ IsIt(it)
  <2>1. n \in Tried /\ IsIt(n)
    BY <1>6
  <2> HIDE DEF IsIt, Tried
  <2> QED
    BY <2>1
<1>8. Free(alias, taken) = <<it, alias[2]>>
  BY DEF Free
<1>9. it \in Nat /\ it >= alias[1]
  BY <1>7, <1>1
<1> HIDE DEF it
<1> QED
  BY <1>7, <1>8, <1>9

-----------------------------------------------------------------------------
(* The inductive invariant                                                 *)

Request(r) ==
    LET p == r[2]
    IN  /\ r \in {"import", "type", "literal"} \X DOMAIN Base
        /\ IsName(Base[p]) /\ IsName(PkgName[p])
        /\ r[1] = "import" => Base[p] = PkgName[p]
        /\ r[1] = "type" => (Base[p][2] = PkgName[p][2] => Base[p][1] <= PkgName[p][1])
        /\ r[1] = "literal" => p = "time"

AnyName == (Nat \X STRING) \union {Blank, Dot}
Pair    == (DOMAIN Base) \X AnyName

TypeOK ==
    /\ imports \in ImportLists
    /\ requests \in Seq({"import", "type", "literal"} \X DOMAIN Base)
    /\ \A n \in DOMAIN requests : Request(requests[n])
    /\ printed \in Seq(Pair)
    /\ IsFiniteSet(aliases)

(* Every name that the file has, or will have, is taken, but for the second  *)
(* names of a path.                                                         *)
AllTaken ==
    /\ \A k \in FirstOfPath : imports[k][2] \in aliases
    /\ \A p \in DOMAIN addImports : NameAdded(p) \in aliases

(* An import that is added is of a new path and has a name that is new, but  *)
(* for the second names of a path. It has no name of its own only if that   *)
(* would be what its path ends in.                                          *)
AddedApart ==
    \A p \in DOMAIN addImports :
        /\ p \in DOMAIN Base /\ IsName(NameAdded(p))
        /\ \A k \in DOMAIN imports : imports[k][1] # p
        /\ \A k \in FirstOfPath : imports[k][2] # NameAdded(p)
        /\ \A q \in DOMAIN addImports : NameAdded(q) = NameAdded(p) => q = p
        /\ addImports[p] = NoName => Base[p] = PkgName[p]

(* What is printed is the name of an import, or spelled out.                *)
PrintedOfImports ==
    \A n \in DOMAIN printed : printed[n] \in FinalImports \/ printed[n] = SpelledOut

NamesInv == TypeOK /\ AllTaken /\ AddedApart /\ PrintedOfImports

LEMMA FileImports ==
  ASSUME ImportsApart, imports \in ImportLists
  PROVE  /\ DOMAIN imports = 1..Len(imports) /\ Len(imports) \in Nat
         /\ FirstOfPath \subseteq DOMAIN imports
         /\ \A k \in DOMAIN imports :
               /\ imports[k] = <<imports[k][1], imports[k][2]>>
               /\ IsName(imports[k][2]) \/ imports[k][2] \in {Blank, Dot}
               /\ imports[k][2] \in AnyName
               /\ \A j \in DOMAIN imports :
                     j # k /\ imports[k][2] \notin {Blank, Dot} => imports[j][2] # imports[k][2]
<1>1. DOMAIN imports = 1..Len(imports) /\ Len(imports) \in Nat
  BY DEF ImportsApart
<1>2. \A k \in DOMAIN imports :
         /\ imports[k] = <<imports[k][1], imports[k][2]>>
         /\ IsName(imports[k][2]) \/ imports[k][2] \in {Blank, Dot}
         /\ \A j \in DOMAIN imports :
               j # k /\ IsName(imports[k][2]) => imports[j][2] # imports[k][2]
  BY DEF ImportsApart
<1>3. Blank \in AnyName /\ Dot \in AnyName
  BY DEF AnyName
<1>4. \A k \in DOMAIN imports : imports[k][2] \in AnyName
  BY <1>2, <1>3 DEF IsName, AnyName
<1> QED
  BY <1>1, <1>2, <1>4 DEF FirstOfPath

(* Where the invariant holds, no two imports have one name, but for the     *)
(* second names of a path.                                                  *)
LEMMA NamesApart ==
  ASSUME ImportsApart, TypeOK, AddedApart,
         NEW imp \in FinalImports, NEW other \in FinalImports, imp[2] = other[2],
         imp[2] \notin {Blank, Dot}, imp[2] \notin AddedNames \intersect SecondNames
  PROVE  imp = other
<1> DEFINE added == {<<p, NameAdded(p)>> : p \in DOMAIN addImports}
<1>0. imports \in ImportLists
  BY DEF TypeOK
<1>1. ASSUME NEW x \in Range(imports), NEW y \in Range(imports), x[2] = y[2], x[2] = imp[2]
      PROVE  x = y
  BY <1>0, <1>1, FileImports DEF Range
<1>2. ASSUME NEW x \in Range(imports), NEW y \in added, x[2] = imp[2]  PROVE x[2] # y[2]
  <2>1. SUFFICES ASSUME x[2] = y[2]  PROVE FALSE
    OBVIOUS
  <2>2. PICK k \in DOMAIN imports : x = imports[k]
    BY DEF Range
  <2>3. PICK p \in DOMAIN addImports : y = <<p, NameAdded(p)>>
    OBVIOUS
  <2>4. imports[k][2] = NameAdded(p) /\ imp[2] = NameAdded(p)
    BY <1>2, <2>1, <2>2, <2>3
  <2>5. k \notin FirstOfPath
    BY <2>4 DEF AddedApart
  <2>6. imp[2] \in AddedNames /\ imp[2] \in SecondNames
    BY <2>4, <2>5 DEF AddedNames, SecondNames
  <2> QED
    BY <2>6
<1>3. ASSUME NEW x \in added, NEW y \in added, x[2] = y[2]  PROVE x = y
  BY <1>3 DEF AddedApart
<1>4. FinalImports = Range(imports) \union added
  BY DEF FinalImports
<1> HIDE DEF added
<1> QED
  BY <1>1, <1>2, <1>3, <1>4

(* A name that two imports have does not resolve.                           *)
LEMMA TwiceNamed ==
  ASSUME ImportsApart, TypeOK, AddedApart,
         NEW print, print[2] \in AddedNames \intersect SecondNames
  PROVE  ~Resolves(print)
<1>1. PICK p \in DOMAIN addImports : print[2] = NameAdded(p)
  BY DEF AddedNames
<1>2. PICK k \in DOMAIN imports : print[2] = imports[k][2]
  BY DEF SecondNames
<1>3. <<p, NameAdded(p)>> \in FinalImports
  BY DEF FinalImports
<1>4. imports[k] \in FinalImports
  BY DEF FinalImports, Range
<1>5. imports[k][1] # p
  BY DEF AddedApart
<1>6. <<p, NameAdded(p)>> # imports[k] /\ <<p, NameAdded(p)>>[2] = print[2]
  BY <1>1, <1>5
<1> QED
  BY <1>2, <1>3, <1>4, <1>6 DEF Resolves

LEMMA InvariantImplies ==
  ASSUME ImportsApart, NamesInv
  PROVE  NamesResolve
<1>1. SUFFICES ASSUME NEW n \in DOMAIN printed
               PROVE  ~Resolves(printed[n]) <=>
                         \/ printed[n][2] \in {Blank, Dot}
                         \/ printed[n][2] \in AddedNames \intersect SecondNames
                         \/ printed[n] = SpelledOut /\ SpelledOut \notin FinalImports
  BY DEF NamesResolve
<1>2. ASSUME printed[n] \in FinalImports, printed[n][2] \notin {Blank, Dot},
             printed[n][2] \notin AddedNames \intersect SecondNames
      PROVE  Resolves(printed[n])
  BY <1>2, NamesApart DEF NamesInv, Resolves
<1>3. ASSUME printed[n] \notin FinalImports  PROVE ~Resolves(printed[n])
  BY <1>3 DEF Resolves
<1>4. printed[n][2] \in AddedNames \intersect SecondNames => ~Resolves(printed[n])
  BY TwiceNamed DEF NamesInv
<1>5. printed[n] \in FinalImports \/ printed[n] = SpelledOut
  BY DEF NamesInv, PrintedOfImports
<1>6. printed[n][2] \in {Blank, Dot} => ~Resolves(printed[n])
  BY DEF Resolves
<1> QED
  BY <1>2, <1>3, <1>4, <1>5, <1>6

-----------------------------------------------------------------------------
(* Each step preserves it                                                  *)

LEMMA HoldsAtFirst ==
  ASSUME ImportsApart, NamesInit
  PROVE  NamesInv
<1>1. /\ imports \in ImportLists /\ requests = <<>> /\ printed = <<>>
      /\ DOMAIN addImports = {}
  BY DEF NamesInit, NoneAdded
<1>2. aliases = {imports[k][2] : k \in FirstOfPath}
  BY DEF NamesInit, NoneAdded
<1>3. IsFiniteSet(aliases)
  <2> DEFINE f == [k \in FirstOfPath |-> imports[k][2]]
  <2>1. IsFiniteSet(FirstOfPath)
    <3>1. Len(imports) \in Nat /\ DOMAIN imports = 1..Len(imports)
      BY <1>1 DEF ImportsApart
    <3>2. IsFiniteSet(1..Len(imports))
      BY <3>1, FS_Interval
    <3>3. FirstOfPath \in SUBSET (1..Len(imports))
      BY <3>1 DEF FirstOfPath
    <3> QED
      BY <3>2, <3>3, FS_Subset
  <2>2. f \in Surjection(FirstOfPath, aliases)
    BY <1>2 DEF Surjection
  <2> HIDE DEF f
  <2> QED
    BY <2>1, <2>2, FS_Surjection
<1>4. TypeOK
  BY <1>1, <1>3 DEF TypeOK
<1>5. AllTaken /\ AddedApart
  BY <1>1, <1>2, FileImports DEF AllTaken, AddedApart
<1>6. PrintedOfImports
  BY <1>1 DEF PrintedOfImports
<1> QED
  BY <1>4, <1>5, <1>6 DEF NamesInv

LEMMA FirstRequest ==
  ASSUME TypeOK, requests # <<>>
  PROVE  Request(Head(requests))
<1>1. 1 \in DOMAIN requests /\ Head(requests) = requests[1]
  BY DEF TypeOK
<1> QED
  BY <1>1 DEF TypeOK

(* What is printed comes last, and the other requests stay.                 *)
LEMMA Printing ==
  ASSUME TypeOK, requests # <<>>, NEW path \in DOMAIN Base, NEW name \in AnyName,
         PrintAs(path, name), IsFiniteSet(aliases')
  PROVE  /\ TypeOK'
         /\ \A n \in DOMAIN printed' : \/ printed'[n] = <<path, name>>
                                       \/ n \in DOMAIN printed /\ printed'[n] = printed[n]
<1> DEFINE R == {"import", "type", "literal"} \X DOMAIN Base
<1>1. requests' = Tail(requests) /\ printed' = Append(printed, <<path, name>>) /\ imports' = imports
  BY DEF PrintAs
<1>2. requests \in Seq(R) /\ printed \in Seq(Pair) /\ <<path, name>> \in Pair
  <2>1. requests \in Seq(R) /\ printed \in Seq(Pair)
    BY DEF TypeOK
  <2>2. <<path, name>> \in Pair
    BY DEF Pair
  <2> QED
    BY <2>1, <2>2
<1>3. requests' \in Seq(R) /\ \A n \in DOMAIN requests' : Request(requests'[n])
  <2> HIDE DEF R
  <2>1. /\ requests' \in Seq(R)
        /\ \A n \in DOMAIN requests' : n + 1 \in DOMAIN requests /\ requests'[n] = requests[n + 1]
    BY <1>1, <1>2
  <2> QED
    BY <2>1 DEF TypeOK
<1>4. /\ printed' \in Seq(Pair)
      /\ \A n \in DOMAIN printed' : \/ printed'[n] = <<path, name>>
                                    \/ n \in DOMAIN printed /\ printed'[n] = printed[n]
  BY <1>1, <1>2
<1>5. imports' \in ImportLists
  BY <1>1 DEF TypeOK
<1> QED
  BY <1>3, <1>4, <1>5 DEF TypeOK

(* A name that is printed while no import is added.                         *)
LEMMA PrintingKnown ==
  ASSUME NamesInv, requests # <<>>, NEW path \in DOMAIN Base, NEW name \in AnyName,
         PrintAs(path, name), UNCHANGED <<addImports, aliases>>,
         <<path, name>> \in FinalImports \/ <<path, name>> = SpelledOut
  PROVE  NamesInv'
<1>1. imports' = imports /\ addImports' = addImports /\ aliases' = aliases
  BY DEF PrintAs
<1>2. IsFiniteSet(aliases')
  BY <1>1 DEF NamesInv, TypeOK
<1>3. /\ TypeOK'
      /\ \A n \in DOMAIN printed' : \/ printed'[n] = <<path, name>>
                                    \/ n \in DOMAIN printed /\ printed'[n] = printed[n]
  BY <1>2, Printing DEF NamesInv
<1>4. FinalImports' = FinalImports /\ SpelledOut' = SpelledOut
  BY <1>1 DEF FinalImports, NameAdded, SpelledOut
<1>5. PrintedOfImports'
  BY <1>3, <1>4 DEF PrintedOfImports, NamesInv
<1>6. AllTaken' /\ AddedApart'
  BY <1>1 DEF NamesInv, AllTaken, AddedApart, NameAdded, FirstOfPath
<1> QED
  BY <1>3, <1>5, <1>6 DEF NamesInv

LEMMA LiteralPreserves ==
  ASSUME NamesInv, PrintLiteral
  PROVE  NamesInv'
<1>1. Request(Head(requests)) /\ requests # <<>> /\ Head(requests)[1] = "literal"
  BY FirstRequest DEF NamesInv, PrintLiteral, Function
<1>2. ImportPath = "time" /\ ImportPath \in DOMAIN Base /\ IsName(Base[ImportPath])
  BY <1>1 DEF Request, ImportPath
<1>3. PrintAs(ImportPath, Base[ImportPath]) /\ UNCHANGED <<addImports, aliases>>
  BY DEF PrintLiteral
<1>4. <<ImportPath, Base[ImportPath]>> = SpelledOut /\ Base[ImportPath] \in AnyName
  BY <1>2 DEF SpelledOut, IsName, AnyName
<1> QED
  BY <1>1, <1>2, <1>3, <1>4, PrintingKnown

LEMMA ImportedPreserves ==
  ASSUME ImportsApart, NamesInv, NEW k \in DOMAIN imports, PrintImported(k)
  PROVE  NamesInv'
<1>1. Request(Head(requests)) /\ requests # <<>>
  BY FirstRequest DEF NamesInv, PrintImported
<1>2. ImportPath \in DOMAIN Base
  BY <1>1 DEF Request, ImportPath
<1>3. /\ imports[k] = <<imports[k][1], imports[k][2]>> /\ imports[k][2] \in AnyName
      /\ imports[k] \in Range(imports)
  BY FileImports DEF NamesInv, TypeOK, Range
<1>4. /\ imports[k][1] = ImportPath /\ PrintAs(ImportPath, imports[k][2])
      /\ UNCHANGED <<addImports, aliases>>
  BY DEF PrintImported
<1>5. <<ImportPath, imports[k][2]>> \in FinalImports /\ imports[k][2] \in AnyName
  BY <1>3, <1>4 DEF FinalImports
<1> QED
  BY <1>1, <1>2, <1>4, <1>5, PrintingKnown

LEMMA AddedPreserves ==
  ASSUME NamesInv, PrintAdded
  PROVE  NamesInv'
<1> DEFINE name == IF addImports[ImportPath] = NoName THEN Base[ImportPath] ELSE addImports[ImportPath]
<1>1. requests # <<>> /\ ImportPath \in DOMAIN addImports
  BY DEF PrintAdded, NotImported
<1>2. /\ ImportPath \in DOMAIN Base /\ IsName(NameAdded(ImportPath))
      /\ addImports[ImportPath] = NoName => Base[ImportPath] = PkgName[ImportPath]
  BY <1>1 DEF NamesInv, AddedApart
<1>3. name = NameAdded(ImportPath)
  BY <1>2 DEF NameAdded
<1>4. PrintAs(ImportPath, name) /\ UNCHANGED <<addImports, aliases>>
  BY DEF PrintAdded
<1>5. <<ImportPath, NameAdded(ImportPath)>> \in FinalImports
  BY <1>1 DEF FinalImports
<1> HIDE DEF name
<1>6. <<ImportPath, name>> \in FinalImports /\ name \in AnyName
  BY <1>2, <1>3, <1>5 DEF IsName, AnyName
<1> QED
  BY <1>1, <1>2, <1>4, <1>6, PrintingKnown

(* The parts of a pair.                                                      *)
LEMMA PartsOfPair ==
  ASSUME NEW A, NEW B, NEW x \in A \X B
  PROVE  \E a \in A, b \in B : x = <<a, b>>
OBVIOUS

(* Underscores are only added.                                              *)
LEMMA AboveZero ==
  ASSUME NEW n \in Nat, NEW k \in Nat, n >= k, k # 0
  PROVE  n # 0
OBVIOUS

LEMMA AboveOne ==
  ASSUME NEW n \in Nat, NEW k \in Nat, n >= k, k # 0, k # 1
  PROVE  n # 0 /\ n # 1
OBVIOUS

(* A name with underscores before it is a name, and it is what the path of  *)
(* a package ends in only if that is called so.                             *)
LEMMA MoreUnderscores ==
  ASSUME NEW alias, IsName(alias), NEW n \in Nat, n >= alias[1]
  PROVE  IsName(<<n, alias[2]>>)
<1>1. alias \in Nat \X STRING /\ alias \notin {<<0, "">>, <<1, "">>, <<0, ".">>}
  BY DEF IsName, NoName, Blank, Dot
<1>2. PICK k \in Nat, word \in STRING : alias = <<k, word>>
  <2> DEFINE N == Nat
             S == STRING
  <2>1. alias \in N \X S
    BY <1>1
  <2> HIDE DEF N, S
  <2>2. \E k \in N, word \in S : alias = <<k, word>>
    BY <2>1, PartsOfPair
  <2> QED
    BY <2>2 DEF N, S
<1>3. alias[1] = k /\ alias[2] = word
  BY <1>2
<1>4. n >= k
  BY <1>3
<1>5. word = "" => n # 0 /\ n # 1
  <2>1. SUFFICES ASSUME word = ""  PROVE n # 0 /\ n # 1
    OBVIOUS
  <2>2. k # 0 /\ k # 1
    BY <1>1, <1>2, <2>1
  <2> QED
    BY <1>4, <2>2, AboveOne
<1>6. word = "." => n # 0
  <2>1. SUFFICES ASSUME word = "."  PROVE n # 0
    OBVIOUS
  <2>2. k # 0
    BY <1>1, <1>2, <2>1
  <2> QED
    BY <1>4, <2>2, AboveZero
<1>7. <<n, word>> \notin {<<0, "">>, <<1, "">>, <<0, ".">>}
  BY <1>5, <1>6
<1>8. <<n, word>> \in Nat \X STRING
  OBVIOUS
<1> QED
  BY <1>7, <1>8, <1>3 DEF IsName, NoName, Blank, Dot

(* A name found free that is the last element of the path is what the       *)
(* package is called: an import added without a name gets the right one.    *)
LEMMA SameName ==
  ASSUME NEW base, NEW pkg, IsName(base), IsName(pkg), NEW fn \in {"import", "type"},
         fn = "import" => base = pkg,
         fn = "type" => (base[2] = pkg[2] => base[1] <= pkg[1]),
         NEW alias, alias = IF fn = "type" THEN pkg ELSE base,
         NEW n \in Nat, n >= alias[1], <<n, alias[2]>> = base
  PROVE  base = pkg
<1>1. base[1] = n /\ base[2] = alias[2]
  OBVIOUS
<1>2. /\ base[1] \in Nat /\ base = <<base[1], base[2]>>
      /\ pkg[1] \in Nat /\ pkg = <<pkg[1], pkg[2]>>
  BY DEF IsName
<1>3. CASE fn = "type"
  <2>1. alias = pkg /\ base[2] = pkg[2]
    BY <1>1, <1>3
  <2>2. base[1] = pkg[1]
    BY <2>1, <1>1, <1>2, <1>3
  <2> QED
    BY <2>1, <2>2, <1>2
<1> QED
  BY <1>3

(* A name that is free is new, and no import without a name takes it away.  *)
LEMMA NewPreserves ==
  ASSUME ImportsApart, NamesInv, PrintNew(Free(Alias, aliases))
  PROVE  NamesInv'
<1>1. PICK q : q = ImportPath
  OBVIOUS
<1>2. PICK name : name = Free(Alias, aliases)
  OBVIOUS
<1>3. /\ requests # <<>> /\ Head(requests)[1] # "literal" /\ q \notin DOMAIN addImports
      /\ \A k \in DOMAIN imports : imports[k][1] # q
      /\ PrintAs(q, name) /\ AddImport(name) /\ aliases' = aliases \union {name}
  BY <1>1, <1>2 DEF PrintNew, NotImported, Function
<1>4. Request(Head(requests)) /\ Function \in {"import", "type"}
  <2>1. Request(Head(requests))
    BY <1>3, FirstRequest DEF NamesInv
  <2> QED
    BY <1>3, <2>1 DEF Request, Function
<1>5. /\ q \in DOMAIN Base /\ IsName(Base[q]) /\ IsName(PkgName[q])
      /\ Function = "import" => Base[q] = PkgName[q]
      /\ Function = "type" => (Base[q][2] = PkgName[q][2] => Base[q][1] <= PkgName[q][1])
  BY <1>1, <1>4 DEF Request, ImportPath, Function
<1>6. /\ Alias = IF Function = "type" THEN PkgName[q] ELSE Base[q]
      /\ IsName(Alias)
  BY <1>1, <1>5 DEF Alias
<1>7. name \notin aliases
  BY <1>2, <1>6, FreeIsFree DEF NamesInv, TypeOK
<1>8. PICK n \in Nat : n >= Alias[1] /\ name = <<n, Alias[2]>>
  BY <1>2, <1>6, FreeIsFree DEF NamesInv, TypeOK
<1>9. IsName(name)
  BY <1>6, <1>8, MoreUnderscores
<1>10. name = Base[q] => Base[q] = PkgName[q]
  BY <1>4, <1>5, <1>6, <1>8, SameName
<1>11. /\ imports' = imports /\ DOMAIN addImports' = DOMAIN addImports \union {q}
       /\ \A p \in DOMAIN addImports : addImports'[p] = addImports[p]
       /\ addImports'[q] = IF name = Base[q] THEN NoName ELSE name
  BY <1>1, <1>3 DEF PrintAs, AddImport
<1>12. /\ NameAdded(q)' = name
       /\ \A p \in DOMAIN addImports : NameAdded(p)' = NameAdded(p)
       /\ addImports'[q] = NoName => Base[q] = PkgName[q]
  BY <1>9, <1>10, <1>11 DEF NameAdded, IsName
<1>13. IsFiniteSet(aliases')
  BY <1>3, FS_AddElement DEF NamesInv, TypeOK
<1>14. /\ TypeOK'
       /\ \A i \in DOMAIN printed' : \/ printed'[i] = <<q, name>>
                                     \/ i \in DOMAIN printed /\ printed'[i] = printed[i]
  <2>1. name \in AnyName
    BY <1>9 DEF IsName, AnyName
  <2> QED
    BY <2>1, <1>3, <1>5, <1>13, Printing DEF NamesInv
<1>15. AllTaken'
  <2>0. FirstOfPath' = FirstOfPath
    BY <1>11 DEF FirstOfPath
  <2>1. /\ \A k \in FirstOfPath : imports[k][2] \in aliases
        /\ \A p \in DOMAIN addImports : NameAdded(p) \in aliases
    BY DEF NamesInv, AllTaken
  <2> QED
    BY <2>0, <2>1, <1>3, <1>11, <1>12 DEF AllTaken
<1>16. AddedApart'
  <2>1. \A p \in DOMAIN addImports : NameAdded(p) # name
    BY <1>7 DEF NamesInv, AllTaken
  <2>2. \A k \in FirstOfPath : imports[k][2] # name
    BY <1>7 DEF NamesInv, AllTaken
  <2>3. \A p \in DOMAIN addImports :
          /\ p \in DOMAIN Base /\ IsName(NameAdded(p))
          /\ \A k \in DOMAIN imports : imports[k][1] # p
          /\ \A k \in FirstOfPath : imports[k][2] # NameAdded(p)
          /\ \A r \in DOMAIN addImports : NameAdded(r) = NameAdded(p) => r = p
          /\ addImports[p] = NoName => Base[p] = PkgName[p]
    BY DEF NamesInv, AddedApart
  <2>4. ASSUME NEW p \in DOMAIN addImports'
        PROVE  /\ p \in DOMAIN Base /\ IsName(NameAdded(p)')
               /\ \A k \in DOMAIN imports : imports[k][1] # p
               /\ \A k \in FirstOfPath : imports[k][2] # NameAdded(p)'
               /\ \A r \in DOMAIN addImports' : NameAdded(r)' = NameAdded(p)' => r = p
               /\ addImports'[p] = NoName => Base[p] = PkgName[p]
    <3>1. CASE p = q
      BY <3>1, <1>3, <1>5, <1>9, <1>11, <1>12, <2>1, <2>2
    <3>2. CASE p \in DOMAIN addImports
      BY <3>2, <1>11, <1>12, <2>1, <2>3
    <3> QED
      BY <3>1, <3>2, <1>11
  <2>5. FirstOfPath' = FirstOfPath
    BY <1>11 DEF FirstOfPath
  <2> QED
    BY <2>4, <2>5, <1>11 DEF AddedApart, IsName
<1>17. PrintedOfImports'
  <2>1. FinalImports' = FinalImports \union {<<q, name>>} /\ SpelledOut' = SpelledOut
    <3>1. {<<p, NameAdded(p)>> : p \in DOMAIN addImports}'
             = {<<p, NameAdded(p)>> : p \in DOMAIN addImports} \union {<<q, name>>}
      BY <1>11, <1>12
    <3> QED
      BY <3>1, <1>11 DEF FinalImports, SpelledOut
  <2>2. \A i \in DOMAIN printed : printed[i] \in FinalImports \/ printed[i] = SpelledOut
    BY DEF NamesInv, PrintedOfImports
  <2> QED
    BY <2>1, <2>2, <1>14 DEF PrintedOfImports
<1> QED
  BY <1>14, <1>15, <1>16, <1>17 DEF NamesInv

LEMMA AskPreserves ==
  ASSUME RequestsKnown, NamesInv, NEW list \in RequestLists, Ask(list)
  PROVE  NamesInv'
<1>1. /\ requests' = list
      /\ imports' = imports /\ printed' = printed /\ addImports' = addImports /\ aliases' = aliases
  BY DEF Ask
<1>2. /\ list \in Seq({"import", "type", "literal"} \X DOMAIN Base)
      /\ \A n \in DOMAIN list : list[n] \in {"import", "type", "literal"} \X DOMAIN Base
  BY DEF RequestsKnown
<1>3. ASSUME NEW n \in DOMAIN list  PROVE Request(list[n])
  BY <1>2 DEF RequestsKnown, Request
<1>4. TypeOK'
  BY <1>1, <1>2, <1>3 DEF NamesInv, TypeOK
<1>5. AllTaken' /\ AddedApart' /\ PrintedOfImports'
  BY <1>1 DEF NamesInv, AllTaken, AddedApart, PrintedOfImports, NameAdded, FinalImports, SpelledOut, FirstOfPath
<1> QED
  BY <1>4, <1>5 DEF NamesInv

-----------------------------------------------------------------------------
(* Whatever a file imports, and all that templates ask for, a name in the    *)
(* generated code is that of one import of the file, which is the package it *)
(* was printed for (printImportAlias, typePrinter), but for the three        *)
(* exceptions that NamesResolve lists. No other name is taken from another   *)
(* by a directive that comes later.                                         *)
THEOREM NamesAreRight ==
  ASSUME ImportsApart, RequestsKnown
  PROVE  NamesSpec => []NamesResolve
<1>1. NamesInit => NamesInv
  BY HoldsAtFirst
<1>2. NamesInv /\ [NamesNext]_nameVars => NamesInv'
  <2> SUFFICES ASSUME NamesInv, [NamesNext]_nameVars
               PROVE  NamesInv'
    OBVIOUS
  <2>1. CASE \E list \in RequestLists : Ask(list)
    BY <2>1, AskPreserves
  <2>2. CASE PrintLiteral
    BY <2>2, LiteralPreserves
  <2>3. CASE PrintAdded
    BY <2>3, AddedPreserves
  <2>4. CASE \E k \in DOMAIN imports : PrintImported(k)
    BY <2>4, ImportedPreserves
  <2>5. CASE PrintNew(Free(Alias, aliases))
    BY <2>5, NewPreserves
  <2>6. CASE UNCHANGED nameVars
    <3>1. /\ imports' = imports /\ requests' = requests /\ printed' = printed
          /\ addImports' = addImports /\ aliases' = aliases
      BY <2>6 DEF nameVars
    <3>2. TypeOK'
      BY <3>1 DEF NamesInv, TypeOK
    <3> QED
      BY <3>1, <3>2 DEF NamesInv, AllTaken, AddedApart, PrintedOfImports,
                        NameAdded, FinalImports, SpelledOut, FirstOfPath
  <2> QED
    BY <2>1, <2>2, <2>3, <2>4, <2>5, <2>6 DEF NamesNext, PrintName
<1>3. NamesInv => NamesResolve
  BY InvariantImplies
<1> QED
  BY <1>1, <1>2, <1>3, PTL DEF NamesSpec
==============================================================================
