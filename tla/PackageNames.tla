----------------------------- MODULE PackageNames -----------------------------
(***************************************************************************)
(* The names of packages in generated code (internal/gen.go). The templates *)
(* of a directive ask for the packages they need and for those of the types *)
(* they spell out, one after another. A package the file imports goes by    *)
(* its name there; any other is imported under a name that is still free,   *)
(* and by that from then on.                                                *)
(*                                                                         *)
(* A name is <<n, s>>: n underscores and s, because underscores are what is *)
(* prepended in the search for a free name.                                 *)
(***************************************************************************)
EXTENDS Naturals, FiniteSets, Sequences, Functions

CONSTANTS
    ImportLists,    \* the imports of a file, in order: <<path, name>>
    RequestLists,   \* what the templates of a directive ask for, in order
    Base,           \* the last element of an import path
    PkgName         \* the name a package declares

VARIABLES
    imports,    \* those of the file; none of them ever changes
    requests,   \* what is yet to be printed of a directive
    printed,    \* the names in the generated code, in order: <<path, name>>
    addImports, \* the imports to add: a path's name, NoName for the implicit one
    aliases     \* the names taken

nameVars == <<imports, requests, printed, addImports, aliases>>

NoName == <<0, "">>

(* import _ "path" and import . "path": no package name is declared.        *)
Blank == <<1, "">>
Dot   == <<0, ".">>

(* Of a path that the file imports twice only the first name counts.        *)
FirstOfPath == {k \in DOMAIN imports : \A j \in 1..(k - 1) : imports[j][1] # imports[k][1]}

NoneAdded ==
    /\ requests = <<>> /\ printed = <<>> /\ addImports = <<>>
    /\ aliases = {imports[k][2] : k \in FirstOfPath}

NamesInit == imports \in ImportLists /\ NoneAdded

(* What the templates of a directive ask for, in their order; types are the *)
(* paths of the packages whose types its code spells out. "time.Since" the  *)
(* templates spell out themselves.                                          *)
Import(path) == <<"import", path>>
Requests(types) ==
    <<Import("context"), Import("cff")>>
    \o [n \in DOMAIN types |-> <<"type", types[n]>>]
    \o <<Import("time"), <<"literal", "time">>, Import("debug")>>

(* A template is executed.                                                  *)
Ask(list) ==
    /\ requests = <<>>
    /\ requests' = list
    /\ UNCHANGED <<imports, printed, addImports, aliases>>

-----------------------------------------------------------------------------
(* One request: the template function "import" or "type", or "literal" for  *)
(* a name which the template spells out itself.                             *)

Function   == Head(requests)[1]
ImportPath == Head(requests)[2]

PrintAs(path, name) ==
    /\ requests' = Tail(requests)
    /\ printed' = Append(printed, <<path, name>>)
    /\ UNCHANGED imports

PrintLiteral ==
    /\ requests # <<>> /\ Function = "literal"
    /\ PrintAs(ImportPath, Base[ImportPath])
    /\ UNCHANGED <<addImports, aliases>>

PrintImported(k) ==
    /\ requests # <<>> /\ Function # "literal"
    /\ k \in FirstOfPath /\ imports[k][1] = ImportPath
    /\ PrintAs(ImportPath, imports[k][2])
    /\ UNCHANGED <<addImports, aliases>>

(* printImportAlias, of a path that is not among the imports of the file    *)
NotImported ==
    /\ requests # <<>> /\ Function # "literal"
    /\ \A k \in DOMAIN imports : imports[k][1] # ImportPath

PrintAdded ==
    /\ NotImported /\ ImportPath \in DOMAIN addImports
    /\ PrintAs(ImportPath, IF addImports[ImportPath] = NoName THEN Base[ImportPath]
                           ELSE addImports[ImportPath])
    /\ UNCHANGED <<addImports, aliases>>

Free(alias, taken) ==
    LET n == CHOOSE n \in alias[1]..(alias[1] + Cardinality(taken)) :
                 /\ <<n, alias[2]>> \notin taken
                 /\ \A m \in alias[1]..(n - 1) : <<m, alias[2]>> \in taken
    IN  <<n, alias[2]>>

Alias == IF Function = "type" THEN PkgName[ImportPath] ELSE Base[ImportPath]

AddImport(name) ==
    addImports' = [p \in DOMAIN addImports \union {ImportPath} |->
                      IF p # ImportPath THEN addImports[p]
                      ELSE IF name = Base[ImportPath] THEN NoName ELSE name]

PrintNewUnrecorded(name) ==                                       \* mutant
    /\ NotImported /\ ImportPath \notin DOMAIN addImports
    /\ PrintAs(ImportPath, name) /\ AddImport(name)
    /\ UNCHANGED aliases
PrintNew(name) ==
    /\ NotImported /\ ImportPath \notin DOMAIN addImports
    /\ PrintAs(ImportPath, name) /\ AddImport(name)
    /\ aliases' = aliases \union {name}

PrintName == \/ PrintLiteral \/ PrintAdded
             \/ \E k \in DOMAIN imports : PrintImported(k)
             \/ PrintNew(Free(Alias, aliases))

NamesNext == PrintName \/ \E list \in RequestLists : Ask(list)

NamesSpec == NamesInit /\ [][NamesNext]_nameVars

-----------------------------------------------------------------------------
(* The imports of the generated file. An import without a name gets that    *)
(* which the package declares.                                              *)
NameAdded(p) == IF addImports[p] = NoName THEN PkgName[p] ELSE addImports[p]
FinalImports == Range(imports) \union {<<p, NameAdded(p)>> : p \in DOMAIN addImports}

AddedNames  == {NameAdded(p) : p \in DOMAIN addImports}
SecondNames == {imports[k][2] : k \in DOMAIN imports \ FirstOfPath}
SpelledOut  == <<"time", Base["time"]>>

(* What was printed denotes the package it was printed for: one import of   *)
(* the file has that name, and it is of that path.                          *)
Resolves(print) ==
    /\ print[2] \notin {Blank, Dot}
    /\ {imp \in FinalImports : imp[2] = print[2]} = {print}

(* Every package name in the generated code resolves, however the source's  *)
(* own imports are named and however many directives asked for packages of  *)
(* the same name, with three exceptions and no other: the package is in the *)
(* file as _ or . and is printed so; the name is that of an added import    *)
(* and the second name of a path that the file imports twice; or it is the  *)
(* "time" that the templates spell out, in a file that knows that package   *)
(* by another name.                                                         *)
NamesResolve ==
    \A n \in DOMAIN printed :
        ~Resolves(printed[n]) <=>
            \/ printed[n][2] \in {Blank, Dot}
            \/ printed[n][2] \in AddedNames \intersect SecondNames
            \/ printed[n] = SpelledOut /\ SpelledOut \notin FinalImports

(* GenerateFile: "Track all aliases that already exist in the file." So the *)
(* name under which printImportAlias has an import added is "unique".       *)
AddedNamesApart ==
    \A p \in DOMAIN addImports : \A k \in DOMAIN imports : imports[k][2] # NameAdded(p)

-----------------------------------------------------------------------------
(* What is needed of the constants for the names to resolve.                *)

IsName(x) == x \in Nat \X STRING /\ x \notin {NoName, Blank, Dot}

(* No two imports of a file declare one name, which Go does not allow. A     *)
(* path may be imported several times, and _ and . may occur often.         *)
ImportsApart ==
    \A list \in ImportLists :
        /\ DOMAIN list = 1..Len(list) /\ Len(list) \in Nat
        /\ \A k \in DOMAIN list :
              /\ list[k] = <<list[k][1], list[k][2]>>
              /\ IsName(list[k][2]) \/ list[k][2] \in {Blank, Dot}
              /\ \A j \in DOMAIN list : j # k /\ IsName(list[k][2]) => list[j][2] # list[k][2]

(* A package asked for by its path is called what the path ends in, and no  *)
(* path ends in the package's name with underscores before it: the import   *)
(* is added without a name if the last element of the path is the name that *)
(* was printed. "time" is all that is spelled out.                          *)
RequestsKnown ==
    \A list \in RequestLists :
        /\ list \in Seq({"import", "type", "literal"} \X DOMAIN Base)
        /\ \A n \in DOMAIN list :
              LET p == list[n][2]
              IN  /\ IsName(Base[p]) /\ IsName(PkgName[p])
                  /\ list[n][1] = "import" => Base[p] = PkgName[p]
                  /\ list[n][1] = "type" =>
                        (Base[p][2] = PkgName[p][2] => Base[p][1] <= PkgName[p][1])
                  /\ list[n][1] = "literal" => p = "time"
=============================================================================
