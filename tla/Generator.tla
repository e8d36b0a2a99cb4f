------------------------------ MODULE Generator ------------------------------
(***************************************************************************)
(* How the code of one file is generated (internal/gen.go, gen_parallel.go, *)
(* gen2.go, flow_modifier.go and modifier): the source is copied from the   *)
(* end of one directive to the next, each is replaced by its code, and the  *)
(* imports that the code needs are added under names that are still free.   *)
(*                                                                         *)
(* The body of a source is a sequence of tokens: text; the name of a        *)
(* directive, or of an option; an argument of the user's; the end of a      *)
(* directive. Templates matter for the names of packages they ask for, and  *)
(* for the arguments they use. In mode source-map line directives say from   *)
(* which file the compiler shall take what follows to be.                   *)
(***************************************************************************)
EXTENDS BuildTag, PackageNames, SequencesExt

CONSTANT
    Sources     \* the files: [header, imports, directives, mode]

VARIABLES
    source,     \* the file
    phase,      \* "header", "body", "implementations" or "mapping", "written"
    done,       \* the directives, or modifiers, replaced so far
    lastOff,    \* the token up to which the source has been dealt with
    out         \* the tokens written: header, then body

vars == <<source, phase, done, lastOff, out, nameVars>>

-----------------------------------------------------------------------------
(* The source. A directive is a record of its kind and its options, each of *)
(* them with one argument; types are the paths of the packages whose types  *)
(* its code spells out.                                                     *)

Text(i)    == [tok |-> "text", d |-> i, o |-> 0]
Name(i, k) == [tok |-> "name", d |-> i, o |-> k]
Arg(i, k)  == [tok |-> "arg", d |-> i, o |-> k]
End(i)     == [tok |-> "end", d |-> i, o |-> 0]
Code(i)    == [tok |-> "code", d |-> i, o |-> 0]
Call(i, k) == [tok |-> "call", d |-> i, o |-> k]
Impl(i, k) == [tok |-> "impl", d |-> i, o |-> k]
Line(i, k) == [tok |-> "line", d |-> i, o |-> k]    \* what follows is from the source,
Magic(i)   == [tok |-> "magic", d |-> i, o |-> 0]
Here(i)    == [tok |-> "here", d |-> i, o |-> 0]    \* or from the generated file

Options(i) == source.directives[i].options
Directive(i) ==
    <<Name(i, 0)>> \o FlattenSeq([k \in DOMAIN Options(i) |-> <<Name(i, k), Arg(i, k)>>])
    \o <<End(i), Text(i)>>
Body == <<Text(0)>> \o FlattenSeq([i \in DOMAIN source.directives |-> Directive(i)])

Pos(token) == CHOOSE p \in DOMAIN Body : Body[p] = token

(* Only the last Concurrency is kept by the compiler.                       *)
Used(i) == {k \in DOMAIN Options(i) :
              Options(i)[k] = "Concurrency" =>
                  \A l \in (k + 1)..Len(Options(i)) : Options(i)[l] # "Concurrency"}

(* The modifiers of a flow: itself and its options, which is their order in *)
(* the file as well. A parallel has none. A placeholder stands for the       *)
(* predicate of a task; it replaces and implements nothing.                 *)
Modifier(i, k)    == [d |-> i, o |-> k, placeholder |-> FALSE]
Placeholder(i, k) == [d |-> i, o |-> k, placeholder |-> TRUE]
OptionModifiers(i) ==
    FlattenSeq([k \in DOMAIN Options(i) |->
        <<Modifier(i, k)>> \o IF Options(i)[k] = "PredicateTask" THEN <<Placeholder(i, k)>> ELSE <<>>])
Modifiers(i) ==
    IF source.directives[i].kind = "Parallel" THEN <<>>
    ELSE <<Modifier(i, 0)>> \o OptionModifiers(i)
FileModifiers == FlattenSeq([i \in DOMAIN source.directives |-> Modifiers(i)])

(* The parameters of a flow's function: one for each of its modifiers, and  *)
(* so one for a placeholder too, which stands for no argument of the call.  *)
Parameters(i) == [n \in DOMAIN OptionModifiers(i) |-> OptionModifiers(i)[n].o]

-----------------------------------------------------------------------------
(* Each name of a package that a template prints is a step of its own.       *)
PrintNext == PrintName /\ UNCHANGED <<source, phase, done, lastOff, out>>

PrintsNothing == requests = <<>> /\ UNCHANGED nameVars

-----------------------------------------------------------------------------
(* GenerateFile. Files without a directive are left alone, and those without *)
(* the tag are refused before.                                              *)
Init ==
    /\ source \in Sources
    /\ source.directives # <<>> /\ FileHasCffTag(source.header)
    /\ phase = "header" /\ done = 0 /\ lastOff = 1
    /\ out = [header |-> <<>>, body |-> <<>>]
    /\ imports = source.imports /\ NoneAdded

SourceMapped == source.mode = "source-map"

WriteHeader ==
    /\ phase = "header"
    /\ out' = [header |-> Inverted(source.header),
               body |-> IF SourceMapped THEN <<Line(0, 0)>> ELSE <<>>]
    /\ phase' = "body"
    /\ UNCHANGED <<source, done, lastOff>> /\ PrintsNothing

(* The arguments a template uses become variables, in the order in which    *)
(* the user wrote them; the template itself asks for the concurrency first  *)
(* and for the results last.                                                *)
TemplateOrder(i) ==                                               \* mutant
    LET rank(k) == CASE Options(i)[k] = "Concurrency" -> 0
                     [] Options(i)[k] = "Results" -> 2 * Len(Options(i)) + k
                     [] OTHER -> Len(Options(i)) + k
        order == SetToSortSeq(Used(i), LAMBDA k, l : rank(k) < rank(l))
    IN  FlattenSeq([n \in DOMAIN order |-> <<Arg(i, order[n])>>])
LineDirective(i, k) == IF SourceMapped THEN <<Line(i, k)>> ELSE <<>>
Prologue(i) ==
    LET order == SetToSortSeq(Used(i), LAMBDA k, l : Pos(Arg(i, k)) < Pos(Arg(i, l)))
    IN  FlattenSeq([n \in DOMAIN order |-> Append(LineDirective(i, order[n]), Arg(i, order[n]))])

(* The code of a directive, between lines of the source. The end of a       *)
(* parallel is marked in every mode.                                        *)
MagicToken(i) == IF SourceMapped THEN <<Magic(i)>> ELSE <<>>
FlowCode(i)     == Prologue(i) \o MagicToken(i) \o <<Code(i)>> \o LineDirective(i, 0)
ParallelCode(i) == Prologue(i) \o MagicToken(i) \o <<Code(i), Line(i, 0)>>

(* One turn of the loop over the directives, in modes base and source-map.  *)
ReplaceDirective ==
    LET i == done + 1 IN
    /\ phase = "body"
    /\ source.mode # "modifier"
    /\ i \in DOMAIN source.directives
    /\ out' = [out EXCEPT !.body = @ \o SubSeq(Body, lastOff, Pos(Name(i, 0)) - 1)
                                     \o IF source.directives[i].kind = "Flow"
                                        THEN FlowCode(i) ELSE ParallelCode(i)]
    /\ lastOff' = Pos(End(i)) + 1
    /\ done' = i
    /\ UNCHANGED <<source, phase>>
    /\ Ask(Requests(source.directives[i].types))

(* In mode modifier only the functions called are replaced.                 *)
Replacing(m) ==
    /\ phase = "body"
    /\ source.mode = "modifier"
    /\ done + 1 \in DOMAIN FileModifiers
    /\ m = FileModifiers[done + 1]
    /\ done' = done + 1
    /\ UNCHANGED <<source, phase>> /\ PrintsNothing
ReplaceCall(m) ==
    /\ Replacing(m) /\ ~m.placeholder
    /\ out' = [out EXCEPT !.body = @ \o SubSeq(Body, lastOff, Pos(Name(m.d, m.o)) - 1)
                                     \o <<Call(m.d, m.o)>>]
    /\ lastOff' = Pos(Name(m.d, m.o)) + 1
PassPlaceholder(m) ==
    /\ Replacing(m) /\ m.placeholder
    /\ UNCHANGED <<out, lastOff>>

Steps == IF source.mode = "modifier" THEN Len(FileModifiers) ELSE Len(source.directives)

(* The rest of the source.                                                  *)
CopyRest ==
    /\ phase = "body" /\ done = Steps
    /\ out' = [out EXCEPT !.body = @ \o SubSeq(Body, lastOff, Len(Body))]
    /\ lastOff' = Len(Body) + 1
    /\ done' = 0
    /\ phase' = CASE source.mode = "modifier" -> "implementations"
                  [] SourceMapped -> "mapping"
                  [] OTHER -> "written"
    /\ UNCHANGED source /\ PrintsNothing

(* Every magic token gives way to a line directive: what follows is where   *)
(* it was found.                                                            *)
ResetMagicTokens ==
    /\ phase = "mapping"
    /\ out' = [out EXCEPT !.body = [n \in DOMAIN @ |->
                  IF @[n].tok = "magic" THEN Here(@[n].d) ELSE @[n]]]
    /\ phase' = "written"
    /\ UNCHANGED <<source, done, lastOff>> /\ PrintsNothing

(* The implementations of the modifiers follow; a flow's holds its tasks.   *)
Implementation(m) == IF m.placeholder THEN <<>> ELSE <<Impl(m.d, m.o)>>
Implement ==
    LET m == FileModifiers[done + 1] IN
    /\ phase = "implementations"
    /\ done + 1 \in DOMAIN FileModifiers
    /\ out' = [out EXCEPT !.body = @ \o Implementation(m)]
    /\ done' = done + 1
    /\ UNCHANGED <<source, phase, lastOff>>
    /\ Ask(IF m.o = 0 THEN Requests(source.directives[m.d].types) ELSE <<>>)

Finish ==
    /\ phase = "implementations" /\ done = Steps
    /\ phase' = "written"
    /\ UNCHANGED <<source, done, lastOff, out>> /\ PrintsNothing

Done == phase = "written" /\ UNCHANGED vars

Next == \/ WriteHeader \/ ReplaceDirective \/ PrintNext
        \/ \E m \in Range(FileModifiers) : ReplaceCall(m) \/ PassPlaceholder(m)
        \/ CopyRest \/ ResetMagicTokens \/ Implement \/ Finish \/ Done

Spec == Init /\ [][Next]_vars

-----------------------------------------------------------------------------
(* Properties                                                              *)

(* Of the source nothing is lost, doubled or moved: its text and the user's *)
(* arguments come in their order, so that they are evaluated in it, and     *)
(* every directive has been replaced where it was. In mode modifier each    *)
(* function that is called is implemented once, with a parameter for each   *)
(* argument unless a task has a predicate. In mode source-map the compiler  *)
(* takes the user's code to be from the source, and the rest from the file. *)
SourceKept ==
    LET user(t) == t.tok \in {"text", "arg"} /\ ~(/\ t.tok = "arg" /\ source.mode # "modifier"
                                                  /\ t.o \notin Used(t.d))
        replaced(t) == t.tok = "name" /\ source.mode = "modifier"
                       /\ source.directives[t.d].kind = "Flow"
        code == SelectSeq(out.body, LAMBDA t : t.tok \in {"text", "code", "call"})
        calls == SelectSeq(out.body, LAMBDA t : t.tok = "call")
        impls == SelectSeq(out.body, LAMBDA t : t.tok = "impl")
        ofFile(n) == LET k == SelectLastInSubSeq(out.body, 1, n, LAMBDA t : t.tok \in {"line", "here"})
                     IN  out.body[k]
    IN  phase = "written" =>
        /\ SelectSeq(out.body, user) = SelectSeq(Body, user)
        /\ IF source.mode = "modifier"
           THEN LET names == SelectSeq(Body, replaced)
                IN  /\ calls = [n \in DOMAIN names |-> Call(names[n].d, names[n].o)]
                    /\ impls = [n \in DOMAIN names |-> Impl(names[n].d, names[n].o)]
                    /\ \A i \in DOMAIN source.directives :
                          ~Contains(Options(i), "PredicateTask") =>
                              Parameters(i) = [k \in DOMAIN Options(i) |-> k]
           ELSE code = <<Text(0)>> \o FlattenSeq([i \in DOMAIN source.directives |-> <<Code(i), Text(i)>>])
        /\ SourceMapped => \A n \in DOMAIN out.body :
              /\ out.body[n].tok = "text" => ofFile(n) = Line(out.body[n].d, 0)
              /\ out.body[n].tok = "arg"  => ofFile(n) = Line(out.body[n].d, out.body[n].o)
              /\ out.body[n].tok = "code" => ofFile(n) = Here(out.body[n].d)

(* The generated file is built exactly where the source would be if the     *)
(* tag cff had the other value, provided that its constraints can be read   *)
(* again; and they can, unless the source negates something twice, in       *)
(* parentheses, that is not the tag cff.                                    *)
HeaderInverted ==
    LET flip(tags) == IF "cff" \in tags THEN tags \ {"cff"} ELSE tags \union {"cff"}
        readable(i) == Readable(out.header[i])
    IN  phase = "written" =>
        /\ \A i \in DOMAIN out.header : readable(i) <=> ~DoublyNegated(source.header[i])
        /\ (\A i \in DOMAIN out.header : readable(i)) =>
              \A tags \in SUBSET {"cff", "foo"} :
                  Selected(out.header, tags) = Selected(source.header, flip(tags))
=============================================================================
