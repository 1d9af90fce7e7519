----------------------------- MODULE TypeNames -----------------------------
(***************************************************************************)
(* How the parser reads a type (parser.y from type_specifier to            *)
(* type_name_optional_ident, and specifier_utils.c): the specifiers and    *)
(* qualifiers of its base, which may come in any order, and then a         *)
(* declarator of pointers and parentheses around an identifier or nothing. *)
(*                                                                         *)
(* The declarator is read outside in; its groups of pointers, one per open *)
(* parenthesis, are linked up inside out once its middle is reached.       *)
(***************************************************************************)
EXTENDS Naturals, Sequences, FiniteSets, SequencesExt

CONSTANTS MaxBase,    \* bound on the specifiers and qualifiers of a base
          MaxStars,   \* bound on the pointers of a declarator
          MaxParens,  \* bound on its parentheses
          NameSize    \* of the buffer of bcc_ast_type_get_name: 255

ASSUME NameSizeAssumption == NameSize \in Nat

Specifiers == {"void", "char", "short", "int", "long", "signed", "unsigned"}
Prims == {"void", "char", "short", "int", "long", "max"}
Base == [prim: Prims, size: 0 .. 4, unsigned: BOOLEAN, const: BOOLEAN]

VARIABLES
    base,       \* the struct bcc_ast_type of type_base_with_spec
    flags,      \* its specifier_flags
    seen,       \* the tokens of the base, as written (history)
    groups,     \* the pointers read in each open parenthesis: their const flags
    written,    \* all groups of the declarator, outside in (history)
    pointers,   \* the chain linked up so far, outermost first: const flags
    phase,      \* "base", "declarator", "reducing"
    status      \* "parsing", "done", "aborted", "fault"

vars == <<base, flags, seen, groups, written, pointers, phase, status>>

Init ==
    /\ base = [prim |-> "max", size |-> 0, unsigned |-> FALSE, const |-> FALSE]
    /\ flags = {} /\ seen = <<>> /\ groups = <<<<>>>> /\ written = <<>> /\ pointers = <<>>
    /\ phase = "base" /\ status = "parsing"

In(p) == phase = p /\ status = "parsing"
Abort ==
    status' = "aborted" /\ UNCHANGED <<base, flags, groups, written, pointers, phase>>

(*************************** The base **************************************)
Sign == {"signed", "unsigned"}

\* specifier_is_invalid: what may already be there when `new' is added.
MayFollow(new) ==
    CASE new = "char" -> Sign
      [] new = "void" -> {}
      [] new \in {"short", "long"} -> {"int"} \cup Sign
      [] new = "int" -> Sign \cup {"long", "short"}
      [] new \in Sign -> Specifiers \ Sign
Invalid_LongUnchecked(specs, new) == new \in specs \/ (new # "long" /\ ~(specs \subseteq MayFollow(new)))
Invalid(specs, new) == new \in specs \/ ~(specs \subseteq MayFollow(new))

\* specifier_add_to_type: int and the signs only matter to a base without a
\* primitive; the others take its place.  Nothing sets the size of void.
WithSpecifier_IntOverrides(type, new) ==
    CASE new \in {"short", "long", "char", "int"} ->
            [type EXCEPT !.prim = new, !.size = IF new = "char" THEN 1 ELSE IF new = "short" THEN 2 ELSE 4]
      [] new = "void" -> [type EXCEPT !.prim = "void"]
      [] new \in Sign -> [type EXCEPT !.unsigned = @ \/ new = "unsigned"]
Sized(type, prim) ==
    [type EXCEPT !.prim = prim,
                 !.size = CASE prim = "char" -> 1 [] prim = "short" -> 2 [] OTHER -> 4]
WithSpecifier(type, new) ==
    CASE new = "void" -> [type EXCEPT !.prim = "void"]
      [] new \in {"long", "short", "char"} -> Sized(type, new)
      [] new \in {"int"} \cup Sign ->
            LET t == IF type.prim = "max" THEN Sized(type, "int") ELSE type
            IN  [t EXCEPT !.unsigned = @ \/ new = "unsigned"]

\* type_base_with_spec, first or further type_specifier.
Specifier(new) ==
    /\ In("base") /\ Len(seen) < MaxBase
    /\ seen' = Append(seen, new)
    /\ \/ Invalid(flags, new) /\ Abort
       \/ /\ ~Invalid(flags, new)
          /\ flags' = flags \cup {new}
          /\ base' = WithSpecifier(base, new)
          /\ UNCHANGED <<groups, written, pointers, phase, status>>

\* type_base_with_spec, first or further type_qualifier.
Qualifier ==
    /\ In("base") /\ Len(seen) < MaxBase
    /\ seen' = Append(seen, "const")
    /\ \/ base.const /\ Abort
       \/ /\ ~base.const
          /\ base' = [base EXCEPT !.const = TRUE]
          /\ UNCHANGED <<flags, groups, written, pointers, phase, status>>

\* type_base, at the first token that is neither.
EndBase ==
    /\ In("base") /\ seen # <<>>
    /\ phase' = "declarator"
    /\ UNCHANGED <<base, flags, seen, groups, written, pointers, status>>

(*************************** The declarator ********************************)
Group == groups[Len(groups)]
Stars == Len(FlattenSeq(groups))

\* type_pointer '*': the new pointer points to the pointers before it.
Star ==
    /\ In("declarator") /\ Stars < MaxStars
    /\ groups' = [groups EXCEPT ![Len(groups)] = Append(@, FALSE)]
    /\ UNCHANGED <<base, flags, seen, written, pointers, phase, status>>

\* type_pointer type_qualifier
PointerQualifier ==
    /\ In("declarator") /\ Group # <<>>
    /\ \/ Group[Len(Group)] /\ Abort
       \/ /\ ~Group[Len(Group)]
          /\ groups' = [groups EXCEPT ![Len(groups)][Len(Group)] = TRUE]
          /\ UNCHANGED <<base, flags, written, pointers, phase, status>>
    /\ UNCHANGED seen

OpenParen ==
    /\ In("declarator") /\ Len(groups) <= MaxParens
    /\ groups' = Append(groups, <<>>)
    /\ UNCHANGED <<base, flags, seen, written, pointers, phase, status>>

\* The middle: TOK_IDENT, or the `()' or nothing of an abstract declarator.
\* Nothing at all ends it at a pointer or with the base alone.
Middle ==
    /\ In("declarator")
    /\ phase' = "reducing" /\ written' = groups
    /\ UNCHANGED <<base, flags, seen, groups, pointers, status>>

\* type_declarator and type_abstract_declarator: the pointers of the group,
\* the last the outermost, and what is inside its parentheses under them.
Linked_InOrder(group, inside) == group \o inside
Linked(group, inside) == Reverse(group) \o inside

CloseGroup ==
    /\ In("reducing") /\ groups # <<>>
    /\ pointers' = Linked(Group, pointers)
    /\ groups' = SubSeq(groups, 1, Len(groups) - 1)
    /\ UNCHANGED <<base, flags, seen, written, phase, status>>

\* The declarator's innermost type is set to the base.  An abstract declarator
\* of nothing but parentheses is a null pointer, which type_name dereferences.
Finish ==
    /\ In("reducing") /\ groups = <<>>
    /\ \/ status' = "done"
       \/ pointers = <<>> /\ Len(written) > 1 /\ status' = "fault"
    /\ UNCHANGED <<base, flags, seen, groups, written, pointers, phase>>

(*************************** The name **************************************)
\* bcc_ast_type_get_name, which every declaration calls: a text for each layer
\* of the type, pointers first, put behind the others by snprintf.
TextLengths ==
    LET prim == CASE base.prim = "int" -> 3 [] base.prim = "short" -> 5 [] base.prim = "max" -> 7 [] OTHER -> 4
    IN  Append([i \in DOMAIN pointers |-> 11], prim)
\* 255 - len is a size_t: once the name has been cut it wraps.
RoomFor_Whole(len, text) == NameSize
RoomFor(len, text) == IF len <= NameSize THEN NameSize - len ELSE text + 1
\* snprintf returns what it would have written without a limit.
Named(name, text) ==
    LET room == RoomFor(name.len, text)
        put == IF room = 0 THEN 0 ELSE IF text < room THEN text + 1 ELSE room
    IN  [len |-> name.len + text, end |-> IF put = 0 THEN name.end ELSE name.len + put]
Name == LET name[k \in 0 .. Len(TextLengths)] ==
                IF k = 0 THEN [len |-> 0, end |-> 0] ELSE Named(name[k - 1], TextLengths[k])
        IN  name[Len(TextLengths)]

Next ==
    \/ \E new \in Specifiers : Specifier(new)
    \/ Qualifier
    \/ EndBase
    \/ Star
    \/ PointerQualifier
    \/ OpenParen
    \/ Middle
    \/ CloseGroup
    \/ Finish

Spec == Init /\ [][Next]_vars

(***************************************************************************)
(* Properties                                                              *)
(***************************************************************************)
\* C's specifier lists: one of these sets, in any order.
LegalSets ==
    {{"void"}} \cup {{"char"} \cup s : s \in SUBSET Sign}
    \cup {s \cup w \cup i : s \in SUBSET Sign, w \in {{}, {"short"}, {"long"}}, i \in {{}, {"int"}}}
Legal == {s \in LegalSets : ~(Sign \subseteq s)}

\* A base means what C says it means whatever the order of its specifiers:
\* the width of the narrowest, unsigned if that was said, const if that was.
\* (`const' alone, and void with a sign after it, are accepted and not C.)
BaseMeansC ==
    status # "aborted" /\ flags \in Legal \ {{}} =>
        LET prim == IF flags \cap {"void", "char", "short", "long"} = {} THEN "int"
                    ELSE CHOOSE p \in {"void", "char", "short", "long"} : p \in flags
        IN  /\ base.prim = prim
            /\ base.size = [void |-> 0, char |-> 1, short |-> 2, int |-> 4, long |-> 4][prim]
            /\ base.unsigned = ("unsigned" \in flags)
            /\ base.const = ("const" \in Range(seen))

\* A base is rejected exactly when C (without long long) rejects it: in
\* whatever order they come, no legal list is refused and no illegal one
\* passes, except a sign after void.
VoidFirst == \E i \in DOMAIN seen : seen[i] = "void" /\ \A j \in 1 .. i - 1 : seen[j] = "const"
RejectsWhatCRejects ==
    LET dup  == \E i, j \in DOMAIN seen : i < j /\ seen[i] = seen[j]
        more == \E s \in Legal : Range(seen) \ {"const"} \subseteq s
    IN  phase = "base" =>
            /\ status = "aborted" => dup \/ ~more
            /\ status = "parsing" => ~dup /\ (more \/ VoidFirst)

\* The pointers of a declarator are C's: what is nearest to the identifier is
\* outermost.  Parentheses between differently qualified pointers are left out:
\* the code links those groups in the order of the nesting.
Alike(gs) == \A a, b \in Range(FlattenSeq(gs)) : a = b
DeclaratorMeansC ==
    status = "done" /\ (Len(written) = 1 \/ Alike(written)) =>
        pointers = Reverse(FlattenSeq(written))

\* The name of a type, which is cut when it is too long, ends inside its buffer
\* (bcc_ast_type_get_name), unless the pointers alone are longer than that: with
\* 24 of them the base's text starts behind the 255 characters.
NamesStayInBuffer ==
    status = "done" /\ 11 * Len(pointers) <= NameSize => Name.end <= NameSize
=============================================================================
