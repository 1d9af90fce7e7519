---------------------------- MODULE DriverProofs ----------------------------

(***************************************************************************)
(* For any command lines and any input: main reads behind argv only after  *)
(* a -- at its end, closes the files it still knows, loses no output but   *)
(* where the properties of Driver say so, and does to the memory of the    *)
(* parse what AstMemory does.                                              *)
(***************************************************************************)
EXTENDS Driver, AstMemoryProofs

(***************************************************************************)
(* The memory of the parse.                                                *)
(***************************************************************************)
\* Each step of main is a step of the parse or the clearing, or none of them.
LEMMA MemStep == ASSUME [DriverNext]_driverVars PROVE [MemNext]_memVars
<1>1. CASE ArgStep
  <2>1. ASSUME NEW rets, Takes(rets) PROVE UNCHANGED memVars
    BY <2>1 DEF Takes
  <2>2. ArgsDone => UNCHANGED memVars
    BY DEF ArgsDone
  <2> QED  BY <1>1, <2>1, <2>2, Zenon DEF ArgStep, OutputArg, ExtraArg, GenArg, LastArg
<1>2. CASE Parse
  BY <1>2 DEF Parse, MemNext
<1>3. CASE Output
  BY <1>3 DEF Output
<1>4. CASE CloseInput
  BY <1>4 DEF CloseInput, CloseFile
<1>5. CASE CloseOutput
  BY <1>5 DEF CloseOutput, CloseFile
<1>6. CASE Clear
  BY <1>6 DEF Clear, MemNext
<1>7. CASE Exited
  BY <1>7 DEF Exited, driverVars
<1>8. CASE UNCHANGED driverVars
  BY <1>8 DEF driverVars
<1> QED  BY <1>1, <1>2, <1>3, <1>4, <1>5, <1>6, <1>7, <1>8 DEF DriverNext

\* What the program does to the memory of the AST is a behaviour of MemSpec:
\* the arguments, the output and the files do not disturb it.
THEOREM DriverImplementsMem == DriverSpec => MemSpec
<1>1. DriverInit => MemInit
  BY DEF DriverInit
<1> QED  BY <1>1, MemStep, PTL DEF DriverSpec, MemSpec

\* So everything allocated has one owner whenever main runs, up to an & of a *,
\* but for what the parse had in hand when it ended.
THEOREM DriverOwnsOnce == DriverSpec => []OwnedOnce
  BY DriverImplementsMem, OneOwner, PTL

\* Nothing is freed twice, up to an & of a *, and when main returns nothing is
\* left of the AST, only what the parse had in hand when it ended.
THEOREM DriverFreesOnce == DriverSpec => []FreedOnce
  BY DriverImplementsMem, NothingFreedTwice, PTL

\* No rule points to a node that is freed.
THEOREM DriverNodesLive == DriverSpec => []NodesLive
  BY DriverImplementsMem, NoDanglingNode, PTL

(***************************************************************************)
(* The argument parser.                                                    *)
(***************************************************************************)
LEMMA RetFields ==
    ASSUME NEW ret, NEW arg, NEW cur, NEW s, NEW took
    PROVE  LET r == Ret(ret, arg, cur, s, took)
           IN  r.ret = ret /\ r.arg = arg /\ r.current = cur /\ r.shrt = s /\ r.took = took
  BY DEF Ret

\* Where a call of arg_parser leaves current_arg: one or two arguments on, and
\* behind argv's NULL only after a -- that is the last argument.
LEMMA ArgParserLeaves ==
    ASSUME argv \in Seq(Seq(STRING)), current \in 1..Len(argv), shrt \in Nat
    PROVE  /\ ArgParser.current \in 1..(Argc + 1) /\ ArgParser.shrt \in Nat
           /\ ArgParser.current > Argc => current = Len(argv) /\ argv[current] = DashDash
           /\ ArgParser.ret \in {"output", "gen", "help", "version", "error", "extra"}
<1> DEFINE cur == Arg(current)
<1> DEFINE InRange(r) == /\ r.current \in 1..Argc /\ r.shrt \in Nat
                       /\ r.ret \in {"output", "gen", "help", "version", "error", "extra"}
<1>1. Len(argv) \in Nat /\ Argc = Len(argv) + 1 /\ cur = argv[current] /\ cur \in Seq(STRING) /\ Len(cur) \in Nat
  BY LenProperties, ElementOfSeq DEF Argc, Arg
<1>2. \A opt \in Options : opt.lng \in {"output", "gen", "help", "version"}
  BY DEF Options
<1>3. InRange(LoadExtraArg(current))
  BY <1>1 DEF LoadExtraArg, Ret
<1>4. \A opt \in Options : \A sym : InRange(WithValue(opt, sym, current + 1))
  BY <1>1, <1>2 DEF WithValue, MayHaveValue, Err, Ret
<1>5. InRange(HandleLongArg)
  <2> DEFINE named == {opt \in Options : <<opt.lng>> = SubSeq(cur, 3, Len(cur))}
  <2> DEFINE opt == CHOOSE o \in named : TRUE
  <2>1. HandleLongArg = IF named = {} THEN Err(current + 1, 0) ELSE WithValue(opt, opt.lng, current + 1)
    BY DEF HandleLongArg
  <2>2. named # {} => opt \in Options
    OBVIOUS
  <2> HIDE DEF named, opt
  <2>3. InRange(Err(current + 1, 0))
    BY <1>1 DEF Err, Ret
  <2>4. named # {} => InRange(WithValue(opt, opt.lng, current + 1))
    BY <1>4, <2>2
  <2> QED  BY <2>1, <2>3, <2>4
<1>6. ASSUME NEW s \in Nat PROVE InRange(HandleShortArg(s))
  BY <1>1, <1>2, <1>4 DEF HandleShortArg, Attached, Err, Ret
<1>7. /\ LoadExtraArg(current + 1).current = current + 2
      /\ LoadExtraArg(current + 1).shrt = 0 /\ LoadExtraArg(current + 1).ret = "extra"
  BY <1>1 DEF LoadExtraArg, Ret
<1>8. InRange(ArgParser) \/ (cur = DashDash /\ ArgParser = LoadExtraArg(current + 1))
  <2> HIDE DEF InRange
  <2> QED  BY <1>3, <1>5, <1>6 DEF ArgParser
<1> QED  BY <1>1, <1>7, <1>8

(***************************************************************************)
(* The inductive invariant of main: where each value of pc leaves the      *)
(* arguments, the files and the output.                                    *)
(***************************************************************************)
ArgsPlace ==
    /\ argv \in Seq(Seq(STRING))
    /\ pc = "args" => current <= Argc /\ memStatus = "parsing"
    /\ StaysInArgv
\* bcc_ast_clear has come to its end.
AllCleared == pc = "done" /\ memStatus = "cleared"
FilesPlace ==
    /\ in \in DOMAIN files => files[in].mode = "r"
    /\ out \in DOMAIN files => files[out].mode = "w+"
    /\ pc \in {"args", "parse", "output", "closeIn"} => \A f \in DOMAIN files : files[f].open
    /\ pc \in {"closeOut", "clear"} \/ AllCleared => (in \in DOMAIN files => ~files[in].open)
    /\ pc = "clear" \/ AllCleared => (out \in DOMAIN files => ~files[out].open)
OutputPlace ==
    /\ pc \in {"args", "parse", "output"} => output = "none"
    /\ output = "buffered" => out # Null
    /\ pc = "clear" /\ output = "buffered" => out = Standard
    /\ OutputSurvives
DInv == IInv /\ DriverTypeOK /\ ArgsPlace /\ FilesPlace /\ OutputPlace

\* It holds before the first argument is read.
LEMMA InitDInv == ASSUME DriverInit PROVE DInv
<1>1. IInv /\ MemTypeOK
  BY InitIInv DEF DriverInit, IInv
<1>2. /\ argv \in Seq(Seq(STRING)) /\ current = 1 /\ shrt = 0 /\ parsingDone = FALSE
      /\ in = Standard /\ out = Standard /\ files = <<>> /\ format = "assembler" /\ output = "none"
      /\ pc = "args" /\ memStatus = "parsing"
  BY ArgvsAssumption DEF DriverInit, MemInit
<1>3. Len(argv) \in Nat /\ Argc = Len(argv) + 1 /\ DOMAIN files = {}
  BY <1>2, LenProperties, EmptySeq DEF Argc
<1>4. DriverTypeOK
  <2>1. files \in Seq([mode: {"r", "w+"}, open: BOOLEAN])
    BY <1>2, EmptySeq
  <2>2. current \in 1..(Argc + 1) /\ shrt \in Nat
    BY <1>2, <1>3
  <2> QED  BY <1>1, <1>2, <2>1, <2>2 DEF DriverTypeOK, Formats
<1>5. ArgsPlace
  BY <1>2, <1>3 DEF ArgsPlace, StaysInArgv
<1>6. FilesPlace /\ OutputPlace
  BY <1>2, <1>3 DEF FilesPlace, OutputPlace, OutputSurvives, Standard, Null, AllCleared
<1> QED  BY <1>1, <1>4, <1>5, <1>6 DEF DInv

\* The parser and the clearing end in the states main looks for.
LEMMA ParserStatus == ASSUME IInv, ParserStep PROVE memStatus' \in {"parsing", "accepted", "aborted"}
  BY DEF ParserStep, Identifier, StringToken, Concatenate, LiteralString, LiteralNumber,
         VariableName, FunctionName, UnknownName, Dereference, UnaryOp, BinaryOp, AddressOf, OpenCall, Argument,
         Call, Statement, OpenBlock, CloseBlock, Declare, DeclareInit, DeclareVoid, OpenParams, Parameter,
         FunctionDeclaration, EndFunction, Accept, Error, NewNode, Proceed, GiveUp, Parsing

\* One call of arg_parser.
LEMMA TakesArgs ==
    ASSUME DInv, NEW rets, Takes(rets)
    PROVE  /\ pc = "args" /\ argv \in Seq(Seq(STRING)) /\ argv' = argv /\ Argc' = Argc
           /\ current' \in 1..(Argc + 1) /\ shrt' \in Nat /\ parsingDone' \in BOOLEAN
           /\ current' > Argc => Last(argv) = DashDash
           /\ memStatus' = memStatus /\ memStatus = "parsing" /\ MemTypeOK' /\ output' = output /\ Argc \in Nat
<1>1. /\ argv \in Seq(Seq(STRING)) /\ shrt \in Nat /\ current \in 1..(Argc + 1) /\ pc = "args"
      /\ current <= Argc /\ current # Argc /\ memStatus = "parsing"
  BY DEF DInv, DriverTypeOK, ArgsPlace, Takes
<1>2. Len(argv) \in Nat /\ Argc = Len(argv) + 1 /\ current \in 1..Len(argv)
  BY <1>1, LenProperties DEF Argc
<1>3. /\ argv' = argv /\ current' = ArgParser.current /\ shrt' = ArgParser.shrt
      /\ parsingDone' = (parsingDone \/ (shrt = 0 /\ Arg(current) = DashDash))
      /\ UNCHANGED memVars /\ output' = output
  BY DEF Takes
<1>4. MemTypeOK' /\ memStatus' = memStatus
  BY <1>3 DEF DInv, DriverTypeOK, MemTypeOK, memVars
<1>5. parsingDone' \in BOOLEAN
  BY <1>3 DEF DInv, DriverTypeOK
<1>6. Argc' = Argc
  BY <1>3 DEF Argc
<1>7. /\ ArgParser.current \in 1..(Argc + 1) /\ ArgParser.shrt \in Nat
      /\ ArgParser.current > Argc => current = Len(argv) /\ argv[current] = DashDash
  BY <1>1, <1>2, ArgParserLeaves
<1> QED  BY <1>1, <1>2, <1>3, <1>4, <1>5, <1>6, <1>7 DEF Last

\* fopen's file, or none.
LEMMA FopenFiles ==
    ASSUME files \in Seq([mode: {"r", "w+"}, open: BOOLEAN]), NEW mode \in {"r", "w+"}, NEW f, Fopen(f, mode)
    PROVE  /\ files' \in Seq([mode: {"r", "w+"}, open: BOOLEAN])
           /\ f = Null \/ (f \in DOMAIN files' /\ files'[f].mode = mode /\ files'[f].open)
           /\ \A g \in DOMAIN files : g \in DOMAIN files' /\ files'[g] = files[g]
           /\ \A g \in DOMAIN files' : g = f \/ g \in DOMAIN files
           /\ Null \notin DOMAIN files' /\ Standard \notin DOMAIN files'
<1>1. Len(files) \in Nat /\ DOMAIN files = 1..Len(files)
  BY LenProperties
<1>2. CASE f = Null /\ files' = files
  BY <1>1, <1>2 DEF Null, Standard
<1>3. CASE f = Len(files) + 1 /\ files' = Append(files, [mode |-> mode, open |-> TRUE])
  <2> DEFINE new == [mode |-> mode, open |-> TRUE]
  <2>1. new \in [mode: {"r", "w+"}, open: BOOLEAN] /\ new.mode = mode /\ new.open
    OBVIOUS
  <2> HIDE DEF new
  <2>2. /\ files' \in Seq([mode: {"r", "w+"}, open: BOOLEAN]) /\ Len(files') = Len(files) + 1
        /\ \A i \in 1..Len(files) : files'[i] = files[i]
        /\ files'[Len(files) + 1] = new
    BY <1>3, <2>1, AppendProperties DEF new
  <2>3. DOMAIN files' = 1..(Len(files) + 1)
    BY <2>2, LenProperties
  <2> QED  BY <1>1, <1>3, <2>1, <2>2, <2>3 DEF Null, Standard
<1> QED  BY <1>2, <1>3 DEF Fopen

\* What is left of it beside the memory of the AST.
Rest == DriverTypeOK /\ ArgsPlace /\ FilesPlace /\ OutputPlace

\* The loop over the arguments.
LEMMA KeepsOpened ==
    ASSUME DInv, NEW rets, Takes(rets), Continue, NEW mode \in {"r", "w+"}, NEW f, Fopen(f, mode),
           \/ mode = "w+" /\ out' = f /\ in' = in
           \/ mode = "r" /\ in' = f /\ out' = out,
           format' = format
    PROVE  Rest'
<1>1. /\ pc = "args" /\ argv \in Seq(Seq(STRING)) /\ argv' = argv /\ Argc' = Argc
      /\ current' \in 1..(Argc + 1) /\ shrt' \in Nat /\ parsingDone' \in BOOLEAN
      /\ current' > Argc => Last(argv) = DashDash
      /\ memStatus' = memStatus /\ memStatus = "parsing" /\ MemTypeOK' /\ output' = output /\ Argc \in Nat
  BY TakesArgs
<1>2. pc' = (IF current' > Argc THEN "overrun" ELSE "args") /\ pc' \in {"overrun", "args"}
  BY <1>1 DEF Continue
<1>3. /\ files \in Seq([mode: {"r", "w+"}, open: BOOLEAN]) /\ format \in Formats /\ output \in {"none", "buffered", "flushed"}
      /\ {in, out} \subseteq {Null, Standard} \cup DOMAIN files
      /\ in \in DOMAIN files => files[in].mode = "r"
      /\ out \in DOMAIN files => files[out].mode = "w+"
      /\ \A g \in DOMAIN files : files[g].open
      /\ output = "none"
  BY <1>1 DEF DInv, DriverTypeOK, FilesPlace, OutputPlace
<1>4. /\ files' \in Seq([mode: {"r", "w+"}, open: BOOLEAN])
      /\ f = Null \/ (f \in DOMAIN files' /\ files'[f].mode = mode /\ files'[f].open)
      /\ \A g \in DOMAIN files : g \in DOMAIN files' /\ files'[g] = files[g]
      /\ \A g \in DOMAIN files' : g = f \/ g \in DOMAIN files
      /\ Null \notin DOMAIN files' /\ Standard \notin DOMAIN files'
  BY <1>3, FopenFiles
<1>5. {in', out'} \subseteq {Null, Standard} \cup DOMAIN files'
  BY <1>3, <1>4
<1>6. DriverTypeOK'
  BY <1>1, <1>2, <1>3, <1>4, <1>5 DEF DriverTypeOK
<1>7. ArgsPlace'
  BY <1>1, <1>2 DEF ArgsPlace, StaysInArgv, DashDash
<1>8. FilesPlace'
  <2>1. in' \in DOMAIN files' => files'[in'].mode = "r"
    BY <1>3, <1>4
  <2>2. out' \in DOMAIN files' => files'[out'].mode = "w+"
    BY <1>3, <1>4
  <2>3. \A g \in DOMAIN files' : files'[g].open
    BY <1>3, <1>4
  <2> QED  BY <1>2, <2>1, <2>2, <2>3 DEF FilesPlace, AllCleared
<1>9. OutputPlace'
  BY <1>1, <1>2, <1>3 DEF OutputPlace, OutputSurvives
<1> QED  BY <1>6, <1>7, <1>8, <1>9 DEF Rest

\* --gen, and the options that end the program.
LEMMA KeepsOptions ==
    ASSUME DInv, NEW rets, Takes(rets), pc' = "done" \/ Continue, UNCHANGED <<in, out, files>>, format' \in Formats
    PROVE  Rest'
<1>1. /\ pc = "args" /\ argv \in Seq(Seq(STRING)) /\ argv' = argv /\ Argc' = Argc
      /\ current' \in 1..(Argc + 1) /\ shrt' \in Nat /\ parsingDone' \in BOOLEAN
      /\ current' > Argc => Last(argv) = DashDash
      /\ memStatus' = memStatus /\ memStatus = "parsing" /\ MemTypeOK' /\ output' = output /\ Argc \in Nat
  BY TakesArgs
<1>2. /\ pc' \in {"overrun", "args", "done"} /\ (pc' = "overrun" => current' > Argc)
      /\ pc' = "args" => ~(current' > Argc)
  BY <1>1 DEF Continue
<1>3. DriverTypeOK'
  BY <1>1, <1>2 DEF DInv, DriverTypeOK
<1>4. ArgsPlace'
  BY <1>1, <1>2 DEF ArgsPlace, StaysInArgv, DashDash
<1>5. FilesPlace'
  BY <1>1, <1>2 DEF DInv, FilesPlace, AllCleared
<1>6. OutputPlace'
  BY <1>1, <1>2 DEF DInv, OutputPlace, OutputSurvives
<1> QED  BY <1>3, <1>4, <1>5, <1>6 DEF Rest

\* The loop is left.
LEMMA KeepsArgsDone == ASSUME DInv, ArgsDone PROVE Rest'
<1>1. /\ pc = "args" /\ pc' = "parse" /\ argv' = <<>> /\ current' = 1 /\ shrt' = 0 /\ parsingDone' = FALSE
      /\ UNCHANGED <<in, out, files, format, output>> /\ UNCHANGED memVars
  BY DEF ArgsDone, fileVars
<1>2. MemTypeOK'
  BY <1>1 DEF DInv, DriverTypeOK, MemTypeOK, memVars
<1>3. argv' \in Seq(Seq(STRING)) /\ current' \in 1..(Argc' + 1) /\ shrt' \in Nat
  <2>1. Len(argv') = 0
    BY <1>1, EmptySeq
  <2>2. Argc' = Len(argv') + 1
    BY DEF Argc
  <2> QED  BY <1>1, <2>1, <2>2, EmptySeq
<1>4. DriverTypeOK'
  BY <1>1, <1>2, <1>3 DEF DInv, DriverTypeOK
<1>5. ArgsPlace'
  BY <1>1, <1>3 DEF ArgsPlace, StaysInArgv
<1>6. FilesPlace' /\ OutputPlace'
  BY <1>1 DEF DInv, FilesPlace, OutputPlace, OutputSurvives, AllCleared
<1> QED  BY <1>4, <1>5, <1>6 DEF Rest

\* One turn of the loop, whichever branch it takes.
LEMMA KeepsArgStep == ASSUME DInv, ArgStep PROVE Rest'
<1>1. CASE OutputArg
  BY <1>1, KeepsOpened DEF OutputArg
<1>2. CASE ExtraArg
  BY <1>2, KeepsOpened DEF ExtraArg
<1>3. CASE GenArg
  <2>1. format \in Formats
    BY DEF DInv, DriverTypeOK
  <2>2. format' \in Formats
    BY <1>3, <2>1 DEF GenArg
  <2>3. Takes({"gen"}) /\ Continue /\ UNCHANGED <<in, out, files>>
    BY <1>3 DEF GenArg
  <2> QED  BY <2>2, <2>3, KeepsOptions
<1>4. CASE LastArg
  <2>1. format \in Formats
    BY DEF DInv, DriverTypeOK
  <2>2. Takes({"help", "version", "error"}) /\ pc' = "done" /\ UNCHANGED <<in, out, files, format>>
    BY <1>4 DEF LastArg, AfterLast
  <2> QED  BY <2>1, <2>2, KeepsOptions
<1>5. CASE ArgsDone
  BY <1>5, KeepsArgsDone
<1> QED  BY <1>1, <1>2, <1>3, <1>4, <1>5 DEF ArgStep

(***************************************************************************)
(* Parse, write, close, clear.                                             *)
(***************************************************************************)
\* What the arguments were does not matter any more.
LEMMA ArgsKept ==
    ASSUME DInv, NoArgs, pc # "args", pc' \notin {"args", "overrun"}
    PROVE  /\ ArgsPlace'
           /\ current' \in 1..(Argc' + 1) /\ shrt' \in Nat /\ parsingDone' \in BOOLEAN
<1>1. argv' = argv /\ current' = current /\ shrt' = shrt /\ parsingDone' = parsingDone /\ Argc' = Argc
  BY DEF NoArgs, argVars, Argc
<1>2. argv \in Seq(Seq(STRING)) /\ current \in 1..(Argc + 1) /\ shrt \in Nat /\ parsingDone \in BOOLEAN
  BY DEF DInv, DriverTypeOK, ArgsPlace
<1> QED  BY <1>1, <1>2 DEF ArgsPlace, StaysInArgv

\* One rule of the parser.
LEMMA KeepsParse == ASSUME DInv, IInv', Parse PROVE Rest'
<1>1. /\ pc = "parse" /\ ParserStep /\ NoArgs /\ UNCHANGED <<in, out, files, format, output>>
      /\ pc' = CASE memStatus' = "accepted" -> "output"
                 [] memStatus' = "aborted" -> "closeIn"
                 [] memStatus' = "parsing" -> "parse"
  BY DEF Parse, fileVars
<1>2. pc' \in {"output", "closeIn", "parse"}
  BY <1>1, ParserStatus DEF DInv
<1>3. ArgsPlace' /\ current' \in 1..(Argc' + 1) /\ shrt' \in Nat /\ parsingDone' \in BOOLEAN
  BY <1>1, <1>2, ArgsKept
<1>4. DriverTypeOK'
  BY <1>1, <1>2, <1>3 DEF DInv, DriverTypeOK, IInv
<1>5. FilesPlace' /\ OutputPlace'
  BY <1>1, <1>2 DEF DInv, FilesPlace, OutputPlace, OutputSurvives, AllCleared
<1> QED  BY <1>3, <1>4, <1>5 DEF Rest

\* The output is generated, or a null file is written to.
LEMMA KeepsOutput == ASSUME DInv, IInv', Output PROVE Rest'
<1>1. /\ pc = "output" /\ NoArgs /\ UNCHANGED <<in, out, files, format>>
      /\ \/ out # Null /\ output' = "buffered" /\ pc' = "closeIn"
         \/ pc' = "fault" /\ output' = output
  BY DEF Output
<1>2. ArgsPlace' /\ current' \in 1..(Argc' + 1) /\ shrt' \in Nat /\ parsingDone' \in BOOLEAN
  BY <1>1, ArgsKept
<1>3. DriverTypeOK'
  BY <1>1, <1>2 DEF DInv, DriverTypeOK, IInv
<1>4. FilesPlace' /\ OutputPlace'
  BY <1>1 DEF DInv, FilesPlace, OutputPlace, OutputSurvives, AllCleared
<1> QED  BY <1>2, <1>3, <1>4 DEF Rest

\* fclose of a file that main has opened, or of none.
LEMMA KeepsFile ==
    ASSUME DInv, IInv', NEW f \in {in, out}, NEW next \in {"closeOut", "clear"}, CloseFile(f, next)
    PROVE  /\ DriverTypeOK' /\ (pc # "args" => ArgsPlace') /\ pc' \in {"fault", next} /\ (pc' = "fault" <=> f = Null)
           /\ UNCHANGED <<in, out>> /\ DOMAIN files' = DOMAIN files
           /\ \A g \in DOMAIN files : files'[g].mode = files[g].mode
           /\ \A g \in DOMAIN files : IF g = f THEN ~files'[g].open ELSE files'[g].open = files[g].open
           /\ output' \in {output, "flushed"}
           /\ f = out /\ f \in DOMAIN files => output' # "buffered"
<1>1. /\ pc' = (IF f = Null THEN "fault" ELSE next)
      /\ files' = (IF f \in DOMAIN files THEN [files EXCEPT ![f].open = FALSE] ELSE files)
      /\ output' = (IF f = out /\ f \in DOMAIN files /\ output = "buffered" THEN "flushed" ELSE output)
      /\ NoArgs /\ UNCHANGED <<in, out, format>>
  BY DEF CloseFile
<1>2. /\ files \in Seq([mode: {"r", "w+"}, open: BOOLEAN]) /\ output \in {"none", "buffered", "flushed"}
      /\ format \in Formats /\ {in, out} \subseteq {Null, Standard} \cup DOMAIN files
      /\ current \in 1..(Argc + 1) /\ shrt \in Nat /\ parsingDone \in BOOLEAN
  BY DEF DInv, DriverTypeOK
<1>3. pc' \in {"fault", next} /\ (pc' = "fault" <=> f = Null)
  BY <1>1
<1>4. /\ files' \in Seq([mode: {"r", "w+"}, open: BOOLEAN]) /\ DOMAIN files' = DOMAIN files
      /\ \A g \in DOMAIN files : files'[g].mode = files[g].mode
      /\ \A g \in DOMAIN files : IF g = f THEN ~files'[g].open ELSE files'[g].open = files[g].open
  <2>1. CASE f \in DOMAIN files
    <3> DEFINE shut == [files[f] EXCEPT !.open = FALSE]
    <3>1. files[f] \in [mode: {"r", "w+"}, open: BOOLEAN]
      BY <1>2, <2>1, LenProperties, ElementOfSeq
    <3>2. shut \in [mode: {"r", "w+"}, open: BOOLEAN] /\ shut.mode = files[f].mode /\ ~shut.open
      BY <3>1
    <3>3. files' = [files EXCEPT ![f] = shut]
      BY <1>1, <2>1
    <3> HIDE DEF shut
    <3>4. files' \in Seq([mode: {"r", "w+"}, open: BOOLEAN])
      BY <1>2, <2>1, <3>2, <3>3, ExceptSeq
    <3> QED  BY <2>1, <3>2, <3>3, <3>4
  <2>2. CASE f \notin DOMAIN files
    BY <1>1, <1>2, <2>2
  <2> QED  BY <2>1, <2>2
<1>5. DriverTypeOK'
  <2>1. argv' = argv /\ current' = current /\ shrt' = shrt /\ parsingDone' = parsingDone /\ Argc' = Argc
    BY <1>1 DEF NoArgs, argVars, Argc
  <2> QED  BY <1>1, <1>2, <1>3, <1>4, <2>1 DEF DriverTypeOK, IInv
<1>6. pc # "args" => ArgsPlace'
  BY <1>1, <1>3, ArgsKept
<1>7. output' \in {output, "flushed"} /\ (f = out /\ f \in DOMAIN files => output' # "buffered")
  BY <1>1
<1> QED  BY <1>1, <1>3, <1>4, <1>5, <1>6, <1>7

\* The input is closed, or the program faults on a null file.
LEMMA KeepsCloseInput == ASSUME DInv, IInv', CloseInput PROVE Rest'
<1>1. pc = "closeIn" /\ CloseFile(in, "closeOut")
  BY DEF CloseInput
<1>2. /\ DriverTypeOK' /\ (pc # "args" => ArgsPlace') /\ pc' \in {"fault", "closeOut"} /\ (pc' = "fault" <=> in = Null)
      /\ UNCHANGED <<in, out>> /\ DOMAIN files' = DOMAIN files
      /\ \A g \in DOMAIN files : files'[g].mode = files[g].mode
      /\ \A g \in DOMAIN files : IF g = in THEN ~files'[g].open ELSE files'[g].open = files[g].open
      /\ output' \in {output, "flushed"}
  BY <1>1, KeepsFile
<1>3. FilesPlace'
  BY <1>1, <1>2 DEF DInv, FilesPlace, AllCleared
<1>4. OutputPlace'
  BY <1>1, <1>2 DEF DInv, OutputPlace, OutputSurvives
<1> QED  BY <1>1, <1>2, <1>3, <1>4 DEF Rest

\* The output is closed: nothing is buffered any more but in stdout.
LEMMA KeepsCloseOutput == ASSUME DInv, IInv', CloseOutput PROVE Rest'
<1>1. pc = "closeOut" /\ CloseFile(out, "clear")
  BY DEF CloseOutput
<1>2. /\ DriverTypeOK' /\ (pc # "args" => ArgsPlace') /\ pc' \in {"fault", "clear"} /\ (pc' = "fault" <=> out = Null)
      /\ UNCHANGED <<in, out>> /\ DOMAIN files' = DOMAIN files
      /\ \A g \in DOMAIN files : files'[g].mode = files[g].mode
      /\ \A g \in DOMAIN files : IF g = out THEN ~files'[g].open ELSE files'[g].open = files[g].open
      /\ output' \in {output, "flushed"}
      /\ out \in DOMAIN files => output' # "buffered"
  BY <1>1, KeepsFile
<1>3. FilesPlace'
  BY <1>1, <1>2 DEF DInv, FilesPlace, AllCleared
<1>4. OutputPlace'
  <2>1. out \in {Null, Standard} \cup DOMAIN files /\ (output = "buffered" => out # Null)
    BY DEF DInv, DriverTypeOK, OutputPlace
  <2> QED  BY <1>1, <1>2, <2>1 DEF OutputPlace, OutputSurvives
<1> QED  BY <1>1, <1>2, <1>3, <1>4 DEF Rest

\* One area is freed; a fault is a double free, which takes an & of a *.
LEMMA KeepsClear == ASSUME DInv, IInv', Clear PROVE Rest'
<1>1. /\ pc = "clear" /\ ClearStep /\ NoArgs /\ UNCHANGED <<in, out, files, format>>
      /\ pc' = CASE memStatus' = "cleared" -> "done"
                 [] memStatus' = "doubleFree" -> "fault"
                 [] OTHER -> "clear"
      /\ output' = IF pc' = "done" /\ output = "buffered" THEN "flushed" ELSE output
  BY DEF Clear
<1>2. pc' \in {"done", "fault", "clear"} /\ (pc' = "fault" => memStatus' = "doubleFree")
  BY <1>1
<1>3. memStatus' = "doubleFree" => undone' > 0
  <2>1. FreedOnce' /\ MemTypeOK'
    BY IInvFreedOnce, PTL DEF IInv
  <2> QED  BY <2>1, BoundsAssumption DEF FreedOnce, MemTypeOK
<1>4. ArgsPlace' /\ current' \in 1..(Argc' + 1) /\ shrt' \in Nat /\ parsingDone' \in BOOLEAN
  BY <1>1, <1>2, ArgsKept
<1>5. DriverTypeOK'
  BY <1>1, <1>2, <1>4 DEF DInv, DriverTypeOK, IInv
<1>6. FilesPlace'
  BY <1>1, <1>2 DEF DInv, FilesPlace, AllCleared
<1>7. OutputPlace'
  BY <1>1, <1>2, <1>3 DEF DInv, OutputPlace, OutputSurvives
<1> QED  BY <1>4, <1>5, <1>6, <1>7 DEF Rest

\* Nothing happens after the end.
LEMMA KeepsExited == ASSUME DInv, UNCHANGED driverVars PROVE Rest'
<1>1. UNCHANGED <<argv, current, shrt, parsingDone, in, out, files, format, output, pc>> /\ UNCHANGED memVars
  BY DEF driverVars, argVars, fileVars
<1>2. MemTypeOK' /\ memStatus' = memStatus /\ undone' = undone
  BY <1>1 DEF DInv, DriverTypeOK, MemTypeOK, memVars
<1>3. DriverTypeOK'
  BY <1>1, <1>2 DEF DInv, DriverTypeOK, Argc
<1>4. ArgsPlace'
  BY <1>1, <1>2 DEF DInv, ArgsPlace, StaysInArgv, Argc
<1>5. FilesPlace' /\ OutputPlace'
  BY <1>1, <1>2 DEF DInv, FilesPlace, OutputPlace, OutputSurvives, AllCleared
<1> QED  BY <1>3, <1>4, <1>5 DEF Rest

\* Every step of main keeps it.
LEMMA NextDInv == ASSUME DInv, [DriverNext]_driverVars PROVE DInv'
<1>1. IInv'
  BY MemStep, NextIInv DEF DInv
<1>2. Rest'
  BY <1>1, KeepsArgStep, KeepsParse, KeepsOutput, KeepsCloseInput, KeepsCloseOutput, KeepsClear, KeepsExited
     DEF DriverNext, Exited
<1> QED  BY <1>1, <1>2 DEF DInv, Rest

\* The program keeps the inductive invariant.
THEOREM DriverInductive == DriverSpec => []DInv
  BY InitDInv, NextDInv, PTL DEF DriverSpec

\* main's and arg_parser's variables are of their types.
THEOREM DriverTypes == DriverSpec => []DriverTypeOK
<1>1. DInv => DriverTypeOK
  BY DEF DInv
<1> QED  BY <1>1, DriverInductive, PTL

\* For every command line, arg_parser reads behind argv only when a -- is the
\* last argument.
THEOREM ReadsInArgv == DriverSpec => []StaysInArgv
<1>1. DInv => StaysInArgv
  BY DEF DInv, ArgsPlace
<1> QED  BY <1>1, DriverInductive, PTL

\* However often files are named and whichever of them cannot be opened, main
\* returns with those it still knows closed, and has read and written open
\* files in their mode.
THEOREM ClosesFiles == DriverSpec => []FilesClosed
<1>1. DInv => FilesClosed
  BY DEF DInv, FilesPlace, FilesClosed, AllCleared
<1> QED  BY <1>1, DriverInductive, PTL

\* What was generated is written, but for an input that could not be opened and
\* an AST that frees twice with its output in stdout's buffer.
THEOREM LosesNoOutput == DriverSpec => []OutputSurvives
<1>1. DInv => OutputSurvives
  BY DEF DInv, OutputPlace
<1> QED  BY <1>1, DriverInductive, PTL

(***************************************************************************)
(* The order of the arguments.                                             *)
(***************************************************************************)
LEMMA LeastOf ==
    ASSUME NEW S \in SUBSET Nat, S # {}
    PROVE  \E x \in S : \A y \in S : x <= y
<1> DEFINE R == {ss \in Nat \X Nat : ss[1] < ss[2]}
<1>1. \A x, y \in Nat : x < y => <<x, y>> \in R
  OBVIOUS
<1>2. IsWellFoundedOn(R, Nat)
  BY NatLessThanWellFounded DEF OpToRel
<1> HIDE DEF R
<1>3. PICK x \in S : \A y \in S : ~(<<y, x>> \in R)
  BY <1>2, WFMin
<1>4. x \in Nat /\ \A y \in S : y \in Nat
  OBVIOUS
<1>5. ASSUME NEW y \in S PROVE x <= y
  <2>1. ~(y < x)
    BY <1>1, <1>3, <1>4, Zenon
  <2> QED  BY <1>4, <2>1
<1> QED  BY <1>3, <1>5

\* Induction up to n.
LEMMA UpTo ==
    ASSUME NEW n \in Nat, NEW G, 0 \in G, \A k \in Nat : k < n /\ k \in G => k + 1 \in G
    PROVE  \A k \in 0 .. n : k \in G
<1> DEFINE S == {k \in 0 .. n : k \notin G}
<1>1. SUFFICES ASSUME S # {} PROVE FALSE
  OBVIOUS
<1>2. S \in SUBSET Nat /\ \A k : k \in S <=> k \in 0 .. n /\ k \notin G
  OBVIOUS
<1> HIDE DEF S
<1>3. PICK x \in S : \A y \in S : x <= y
  BY <1>1, <1>2, LeastOf
<1>4. x \in 0 .. n /\ x \notin G /\ x # 0
  BY <1>2, <1>3
<1>5. x - 1 \in Nat /\ x - 1 < n /\ ~(x <= x - 1) /\ x - 1 \in 0 .. n /\ (x - 1) + 1 = x
  BY <1>4
<1>6. x - 1 \in G
  BY <1>2, <1>3, <1>5
<1> QED  BY <1>4, <1>5, <1>6

\* f[k] is the first k symbols without their dashes, up to n.
KeptUpTo(f, syms, n) ==
    f = [k \in 0 .. n |-> IF k = 0 THEN <<>>
                          ELSE IF syms[k] = "-" THEN f[k - 1] ELSE Append(f[k - 1], syms[k])]

LEMMA KeptFurther ==
    ASSUME NEW syms, NEW n \in Nat, NEW f, KeptUpTo(f, syms, n)
    PROVE  \E g : KeptUpTo(g, syms, n + 1)
<1> DEFINE m == n + 1
           step == IF syms[m] = "-" THEN f[n] ELSE Append(f[n], syms[m])
           g == [k \in 0 .. m |-> IF k = m THEN step ELSE f[k]]
<1>1. /\ \A k \in 0 .. n : k \in 0 .. m /\ k # m
      /\ m \in 0 .. m /\ m # 0 /\ m - 1 = n /\ n \in 0 .. n /\ \A k \in 0 .. m : k = m \/ k \in 0 .. n
      /\ \A k \in 0 .. n : k # 0 => k - 1 \in 0 .. n
  OBVIOUS
<1>2. \A k \in 0 .. n : f[k] = IF k = 0 THEN <<>>
                               ELSE IF syms[k] = "-" THEN f[k - 1] ELSE Append(f[k - 1], syms[k])
  BY Zenon DEF KeptUpTo
<1>3. \A k \in 0 .. n : g[k] = f[k]
  BY <1>1
<1>4. ASSUME NEW k \in 0 .. m
      PROVE  (IF k = m THEN step ELSE f[k])
             = IF k = 0 THEN <<>> ELSE IF syms[k] = "-" THEN g[k - 1] ELSE Append(g[k - 1], syms[k])
  <2> HIDE DEF g
  <2>1. CASE k = m
    BY <1>1, <1>3, <2>1, Zenon
  <2>2. CASE k # m
    BY <1>1, <1>2, <1>3, <2>2, Zenon
  <2> QED  BY <2>1, <2>2
<1>5. g = [k \in 0 .. m |-> IF k = 0 THEN <<>>
                            ELSE IF syms[k] = "-" THEN g[k - 1] ELSE Append(g[k - 1], syms[k])]
  BY Zenon, <1>4
<1> QED  BY Zenon, <1>5 DEF KeptUpTo

LEMMA KeptExists ==
    ASSUME NEW syms, NEW n \in Nat
    PROVE  \E f : KeptUpTo(f, syms, n)
<1> DEFINE G == {k \in Nat : \E f : KeptUpTo(f, syms, k)}
<1>1. 0 \in G
  <2> DEFINE f == [k \in 0 .. 0 |-> <<>>]
  <2>1. \A k \in 0 .. 0 : <<>> = IF k = 0 THEN <<>>
                                 ELSE IF syms[k] = "-" THEN f[k - 1] ELSE Append(f[k - 1], syms[k])
    OBVIOUS
  <2>2. f = [k \in 0 .. 0 |-> IF k = 0 THEN <<>>
                              ELSE IF syms[k] = "-" THEN f[k - 1] ELSE Append(f[k - 1], syms[k])]
    BY <2>1, Zenon
  <2>3. KeptUpTo(f, syms, 0)
    BY <2>2, Zenon DEF KeptUpTo
  <2>4. \E h : KeptUpTo(h, syms, 0)
    BY <2>3, Zenon
  <2> QED  BY <2>4
<1>2. ASSUME NEW k \in Nat, k \in G PROVE k + 1 \in G
  <2>1. PICK f : KeptUpTo(f, syms, k)
    BY <1>2
  <2>2. \E g : KeptUpTo(g, syms, k + 1)
    BY <2>1, KeptFurther
  <2>3. k + 1 \in Nat
    OBVIOUS
  <2> QED  BY <2>2, <2>3
<1> HIDE DEF G
<1>3. n \in G
  BY <1>1, <1>2, UpTo
<1> QED  BY <1>3 DEF G

LEMMA WithoutIs ==
    ASSUME NEW syms, Len(syms) \in Nat
    PROVE  \E f : KeptUpTo(f, syms, Len(syms)) /\ WithoutDashes(syms) = f[Len(syms)]
<1>1. \E f : KeptUpTo(f, syms, Len(syms))
  BY KeptExists
<1> DEFINE f == CHOOSE f : f = [k \in 0 .. Len(syms) |->
                    IF k = 0 THEN <<>>
                    ELSE IF syms[k] = "-" THEN f[k - 1] ELSE Append(f[k - 1], syms[k])]
<1>2. KeptUpTo(f, syms, Len(syms))
  BY <1>1, Zenon DEF KeptUpTo
<1>3. WithoutDashes(syms) = f[Len(syms)]
  BY Zenon DEF WithoutDashes
<1> QED  BY <1>2, <1>3, Zenon

\* What is kept of two sequences, one behind the other.
KeptBoth(T, f, g, h, m, n) ==
    /\ \A k \in 0 .. m : h[k] = f[k] /\ f[k] \in Seq(T)
    /\ \A k \in 0 .. n : g[k] \in Seq(T) /\ h[m + k] = f[m] \o g[k]
LEMMA KeptOfBoth ==
    ASSUME NEW T, NEW s \in Seq(T), NEW t \in Seq(T), NEW f, KeptUpTo(f, s, Len(s)),
           NEW g, KeptUpTo(g, t, Len(t)), NEW h, KeptUpTo(h, s \o t, Len(s) + Len(t))
    PROVE  KeptBoth(T, f, g, h, Len(s), Len(t))
<1> DEFINE m == Len(s)
           n == Len(t)
<1>1. m \in Nat /\ n \in Nat
  BY LenProperties
<1>2. /\ \A k \in 1 .. m : s[k] \in T
      /\ \A k \in 1 .. n : t[k] \in T
  BY ElementOfSeq
<1>3. /\ \A k \in 1 .. m : (s \o t)[k] = s[k]
      /\ \A k \in 1 .. n : (s \o t)[m + k] = t[k]
  <2>1. \A i \in 1 .. m + n : (s \o t)[i] = IF i <= m THEN s[i] ELSE t[i - m]
    BY ConcatProperties
  <2>2. \A k \in 1 .. m : k \in 1 .. m + n /\ k <= m
    BY <1>1
  <2>3. \A k \in 1 .. n : m + k \in 1 .. m + n /\ ~(m + k <= m) /\ (m + k) - m = k
    BY <1>1
  <2> HIDE DEF m, n
  <2> QED  BY <2>1, <2>2, <2>3
<1> DEFINE u == s \o t
           o == m + n
<1>4. /\ \A k \in 0 .. m : f[k] = IF k = 0 THEN <<>>
                                  ELSE IF s[k] = "-" THEN f[k - 1] ELSE Append(f[k - 1], s[k])
      /\ \A k \in 0 .. n : g[k] = IF k = 0 THEN <<>>
                                  ELSE IF t[k] = "-" THEN g[k - 1] ELSE Append(g[k - 1], t[k])
      /\ \A k \in 0 .. o : h[k] = IF k = 0 THEN <<>>
                                  ELSE IF u[k] = "-" THEN h[k - 1] ELSE Append(h[k - 1], u[k])
  BY Zenon DEF KeptUpTo
<1>5. o = m + n /\ \A k \in 1 .. m : u[k] = s[k]
  BY <1>3
<1>6. \A k \in 1 .. n : u[m + k] = t[k]
  BY <1>3
<1>0. <<>> \in Seq(T)
  BY EmptySeq
<1> HIDE DEF m, n, o, u
<1>7. \A k \in 0 .. m : h[k] = f[k] /\ f[k] \in Seq(T)
  <2> DEFINE G == {k \in Nat : k <= m => h[k] = f[k] /\ f[k] \in Seq(T)}
  <2>1. 0 \in G
    <3>1. 0 \in 0 .. m /\ 0 \in 0 .. o
      BY <1>1, <1>5
    <3>2. h[0] = <<>> /\ f[0] = <<>>
      BY <1>4, <3>1
    <3> QED  BY <1>0, <3>2
  <2>2. ASSUME NEW k \in Nat, k < m, k \in G PROVE k + 1 \in G
    <3> DEFINE j == k + 1
    <3>1. j \in 0 .. m /\ j \in 0 .. o /\ j # 0 /\ j - 1 = k /\ k <= m /\ j \in 1 .. m /\ j \in Nat
      BY <1>1, <1>5, <2>2
    <3>2. h[k] = f[k] /\ f[k] \in Seq(T)
      BY <2>2, <3>1
    <3> HIDE DEF j
    <3>3. s[j] \in T /\ u[j] = s[j]
      BY <1>2, <1>5, <3>1
    <3>4. /\ f[j] = IF s[j] = "-" THEN f[k] ELSE Append(f[k], s[j])
          /\ h[j] = IF u[j] = "-" THEN h[k] ELSE Append(h[k], u[j])
      BY <1>4, <3>1
    <3>5. h[j] = f[j]
      BY <3>2, <3>3, <3>4, Zenon
    <3>6. f[j] \in Seq(T)
      BY <3>2, <3>3, <3>4, AppendProperties
    <3> QED  BY <3>1, <3>5, <3>6 DEF j
  <2> HIDE DEF G
  <2>3. \A k \in 0 .. m : k \in G
    BY <1>1, <2>1, <2>2, UpTo
  <2> QED  BY <2>3 DEF G
<1>8. \A k \in 0 .. n : g[k] \in Seq(T) /\ h[m + k] = f[m] \o g[k]
  <2>0. m \in 0 .. m /\ f[m] \in Seq(T) /\ h[m] = f[m]
    BY <1>1, <1>7
  <2> DEFINE a == f[m]
  <2> HIDE DEF a
  <2> DEFINE G == {k \in Nat : k <= n => g[k] \in Seq(T) /\ h[m + k] = a \o g[k]}
  <2>1. 0 \in G
    <3>1. 0 \in 0 .. n /\ m + 0 = m
      BY <1>1
    <3>2. g[0] = <<>>
      BY <1>4, <3>1
    <3>3. a \o g[0] = a
      BY <2>0, <3>2, ConcatEmptySeq DEF a
    <3> QED  BY <1>0, <2>0, <3>1, <3>2, <3>3 DEF a
  <2>2. ASSUME NEW k \in Nat, k < n, k \in G PROVE k + 1 \in G
    <3> DEFINE j == k + 1
               i == m + j
    <3>1. /\ j \in 0 .. n /\ j # 0 /\ j - 1 = k /\ k <= n /\ j \in 1 .. n /\ j \in Nat
          /\ i \in 0 .. o /\ i # 0 /\ i - 1 = m + k
      BY <1>1, <1>5, <2>2
    <3>2. g[k] \in Seq(T) /\ h[m + k] = a \o g[k]
      BY <2>2, <3>1
    <3> HIDE DEF j
    <3>3. t[j] \in T /\ u[i] = t[j]
      BY <1>2, <1>6, <3>1
    <3> HIDE DEF i
    <3>4. /\ g[j] = IF t[j] = "-" THEN g[k] ELSE Append(g[k], t[j])
          /\ h[i] = IF u[i] = "-" THEN h[m + k] ELSE Append(h[m + k], u[i])
      BY <1>4, <3>1
    <3>5. g[j] \in Seq(T)
      BY <3>2, <3>3, <3>4, AppendProperties
    <3>6. a \in Seq(T)
      BY <2>0 DEF a
    <3>7. Append(a \o g[k], t[j]) = a \o Append(g[k], t[j])
      <4> DEFINE x == t[j]
                 y == g[k]
      <4>1. x \in T /\ y \in Seq(T)
        BY <3>2, <3>3
      <4> HIDE DEF x, y
      <4>2. a \o y \in Seq(T) /\ <<x>> \in Seq(T)
        <5>1. <<x>> \in Seq(T)
          BY <4>1
        <5> QED  BY <3>6, <4>1, <5>1, ConcatProperties
      <4>3. Append(a \o y, x) = (a \o y) \o <<x>> /\ Append(y, x) = y \o <<x>>
        BY <4>1, <4>2, AppendIsConcat
      <4> DEFINE z == <<x>>
      <4> HIDE DEF z
      <4>4. (a \o y) \o z = a \o (y \o z)
        BY <3>6, <4>1, <4>2, ConcatAssociative DEF z
      <4> QED  BY <4>3, <4>4, Zenon DEF x, y, z
    <3>8. h[i] = a \o g[j]
      BY <3>2, <3>3, <3>4, <3>7, Zenon
    <3> QED  BY <3>1, <3>5, <3>8 DEF i, j
  <2> HIDE DEF G
  <2>3. \A k \in 0 .. n : k \in G
    BY <1>1, <2>1, <2>2, UpTo
  <2>4. \A k \in 0 .. n : k \in Nat /\ k <= n
    BY <1>1
  <2>5. \A k \in 0 .. n : g[k] \in Seq(T) /\ h[m + k] = a \o g[k]
    <3>1. \A k : k \in G => (k <= n => g[k] \in Seq(T) /\ h[m + k] = a \o g[k])
      BY Zenon DEF G
    <3> QED  BY <2>3, <2>4, <3>1, Zenon
  <2> QED  BY <2>5, Zenon DEF a
<1>9. KeptBoth(T, f, g, h, m, n)
  BY <1>7, <1>8, Zenon DEF KeptBoth
<1> QED  BY <1>9 DEF m, n

LEMMA WithoutConcat ==
    ASSUME NEW T, NEW s \in Seq(T), NEW t \in Seq(T)
    PROVE  /\ WithoutDashes(s \o t) = WithoutDashes(s) \o WithoutDashes(t)
           /\ WithoutDashes(s) \in Seq(T) /\ WithoutDashes(t) \in Seq(T)
<1>1. Len(s) \in Nat /\ Len(t) \in Nat /\ Len(s \o t) = Len(s) + Len(t) /\ Len(s) + Len(t) \in Nat
  BY LenProperties, ConcatProperties
<1>2. PICK f : KeptUpTo(f, s, Len(s)) /\ WithoutDashes(s) = f[Len(s)]
  BY <1>1, WithoutIs
<1>3. PICK g : KeptUpTo(g, t, Len(t)) /\ WithoutDashes(t) = g[Len(t)]
  BY <1>1, WithoutIs
<1>4. PICK h : KeptUpTo(h, s \o t, Len(s \o t)) /\ WithoutDashes(s \o t) = h[Len(s \o t)]
  <2> DEFINE u == s \o t
  <2>1. Len(u) \in Nat
    BY <1>1
  <2> HIDE DEF u
  <2>2. \E h : KeptUpTo(h, u, Len(u)) /\ WithoutDashes(u) = h[Len(u)]
    BY <2>1, WithoutIs
  <2> QED  BY <2>2 DEF u
<1>5. KeptUpTo(h, s \o t, Len(s) + Len(t)) /\ WithoutDashes(s \o t) = h[Len(s) + Len(t)]
  BY <1>1, <1>4
<1>6. /\ \A k \in 0 .. Len(s) : h[k] = f[k] /\ f[k] \in Seq(T)
      /\ \A k \in 0 .. Len(t) : g[k] \in Seq(T) /\ h[Len(s) + k] = f[Len(s)] \o g[k]
  <2>1. KeptUpTo(f, s, Len(s)) /\ KeptUpTo(g, t, Len(t)) /\ KeptUpTo(h, s \o t, Len(s) + Len(t))
    BY <1>2, <1>3, <1>5, Zenon
  <2>2. KeptBoth(T, f, g, h, Len(s), Len(t))
    BY <2>1, KeptOfBoth, Zenon
  <2> QED  BY <2>2, Zenon DEF KeptBoth
<1>7. Len(s) \in 0 .. Len(s) /\ Len(t) \in 0 .. Len(t)
  BY <1>1
<1> QED  BY <1>2, <1>3, <1>5, <1>6, <1>7

\* It leaves nothing of a dash.
LEMMA WithoutDash == WithoutDashes(<<"-">>) = <<>> /\ WithoutDashes(<<>>) = <<>>
<1>1. WithoutDashes(<<"-">>) = <<>>
  <2> DEFINE u == <<"-">>
  <2>1. Len(u) = 1 /\ Len(u) \in Nat /\ u[1] = "-"
    OBVIOUS
  <2> HIDE DEF u
  <2>2. PICK f : KeptUpTo(f, u, Len(u)) /\ WithoutDashes(u) = f[Len(u)]
    BY <2>1, WithoutIs
  <2>3. \A k \in 0 .. Len(u) : f[k] = IF k = 0 THEN <<>>
                                      ELSE IF u[k] = "-" THEN f[k - 1] ELSE Append(f[k - 1], u[k])
    BY <2>2, Zenon DEF KeptUpTo
  <2>4. f[0] = <<>> /\ f[1] = f[0]
    BY <2>1, <2>3
  <2> QED  BY <2>1, <2>2, <2>4 DEF u
<1>2. WithoutDashes(<<>>) = <<>>
  <2> DEFINE u == <<>>
  <2>1. Len(u) = 0 /\ Len(u) \in Nat
    OBVIOUS
  <2> HIDE DEF u
  <2>2. PICK f : KeptUpTo(f, u, Len(u)) /\ WithoutDashes(u) = f[Len(u)]
    BY <2>1, WithoutIs
  <2>3. \A k \in 0 .. Len(u) : f[k] = IF k = 0 THEN <<>>
                                      ELSE IF u[k] = "-" THEN f[k - 1] ELSE Append(f[k - 1], u[k])
    BY <2>2, Zenon DEF KeptUpTo
  <2>4. f[0] = <<>>
    BY <2>1, <2>3
  <2> QED  BY <2>1, <2>2, <2>4 DEF u
<1> QED  BY <1>1, <1>2

\* f[i] is the first i arguments' symbols, up to n.
SymbolsUpTo(f, args, n) ==
    f = [i \in 0 .. n |-> IF i = 0 THEN <<>> ELSE f[i - 1] \o WithoutDashes(args[i])]

LEMMA SymbolsFurther ==
    ASSUME NEW args, NEW n \in Nat, NEW f, SymbolsUpTo(f, args, n)
    PROVE  \E g : SymbolsUpTo(g, args, n + 1)
<1> DEFINE m == n + 1
           g == [i \in 0 .. m |-> IF i = m THEN f[n] \o WithoutDashes(args[m]) ELSE f[i]]
<1>1. /\ m \in 0 .. m /\ m # 0 /\ m - 1 = n /\ n \in 0 .. n /\ \A i \in 0 .. m : i = m \/ i \in 0 .. n
      /\ \A i \in 0 .. n : i # 0 => i - 1 \in 0 .. n
  OBVIOUS
<1>2. \A i \in 0 .. n : f[i] = IF i = 0 THEN <<>> ELSE f[i - 1] \o WithoutDashes(args[i])
  BY Zenon DEF SymbolsUpTo
<1>3. \A i \in 0 .. n : g[i] = f[i]
  OBVIOUS
<1>4. ASSUME NEW i \in 0 .. m
      PROVE  (IF i = m THEN f[n] \o WithoutDashes(args[m]) ELSE f[i])
             = IF i = 0 THEN <<>> ELSE g[i - 1] \o WithoutDashes(args[i])
  <2> HIDE DEF g
  <2>1. CASE i = m
    BY <1>1, <1>3, <2>1, Zenon
  <2>2. CASE i # m
    BY <1>1, <1>2, <1>3, <2>2, Zenon
  <2> QED  BY <2>1, <2>2
<1>5. g = [i \in 0 .. m |-> IF i = 0 THEN <<>> ELSE g[i - 1] \o WithoutDashes(args[i])]
  BY Zenon, <1>4
<1> QED  BY Zenon, <1>5 DEF SymbolsUpTo

LEMMA SymbolsExist ==
    ASSUME NEW args, NEW n \in Nat
    PROVE  \E f : SymbolsUpTo(f, args, n)
<1> DEFINE G == {k \in Nat : \E f : SymbolsUpTo(f, args, k)}
<1>1. 0 \in G
  <2> DEFINE f == [i \in 0 .. 0 |-> <<>>]
  <2>1. \A i \in 0 .. 0 : <<>> = IF i = 0 THEN <<>> ELSE f[i - 1] \o WithoutDashes(args[i])
    OBVIOUS
  <2>2. f = [i \in 0 .. 0 |-> IF i = 0 THEN <<>> ELSE f[i - 1] \o WithoutDashes(args[i])]
    BY <2>1, Zenon
  <2>3. SymbolsUpTo(f, args, 0)
    BY <2>2, Zenon DEF SymbolsUpTo
  <2>4. \E h : SymbolsUpTo(h, args, 0)
    BY <2>3, Zenon
  <2> QED  BY <2>4
<1>2. ASSUME NEW k \in Nat, k \in G PROVE k + 1 \in G
  <2>1. PICK f : SymbolsUpTo(f, args, k)
    BY <1>2
  <2>2. \E g : SymbolsUpTo(g, args, k + 1)
    BY <2>1, SymbolsFurther
  <2>3. k + 1 \in Nat
    OBVIOUS
  <2> QED  BY <2>2, <2>3
<1> HIDE DEF G
<1>3. n \in G
  BY <1>1, <1>2, UpTo
<1> QED  BY <1>3 DEF G

LEMMA SymbolsIs ==
    ASSUME NEW args, Len(args) \in Nat
    PROVE  SymbolsUpTo(SymbolsOf(args), args, Len(args))
<1>1. \E f : SymbolsUpTo(f, args, Len(args))
  BY SymbolsExist
<1> DEFINE f == CHOOSE f : f = [i \in 0 .. Len(args) |->
                    IF i = 0 THEN <<>> ELSE f[i - 1] \o WithoutDashes(args[i])]
<1>2. SymbolsUpTo(f, args, Len(args))
  BY <1>1, Zenon DEF SymbolsUpTo
<1>3. SymbolsOf(args) = f
  BY Zenon DEF SymbolsOf
<1> QED  BY <1>2, <1>3, Zenon

LEMMA SymbolsAre ==
    ASSUME NEW T, NEW args \in Seq(Seq(T))
    PROVE  /\ SymbolsOf(args)[0] = <<>>
           /\ \A i \in 1 .. Len(args) :
                 SymbolsOf(args)[i] = SymbolsOf(args)[i - 1] \o WithoutDashes(args[i])
           /\ \A i \in 0 .. Len(args) : SymbolsOf(args)[i] \in Seq(T)
<1> DEFINE n == Len(args)
           f == SymbolsOf(args)
<1>1. n \in Nat
  BY LenProperties
<1>2. \A i \in 1 .. n : args[i] \in Seq(T)
  BY ElementOfSeq
<1>3. \A i \in 1 .. n : WithoutDashes(args[i]) \in Seq(T)
  BY <1>2, WithoutConcat
<1>4. \A i \in 0 .. n : f[i] = IF i = 0 THEN <<>> ELSE f[i - 1] \o WithoutDashes(args[i])
  <2>1. SymbolsUpTo(f, args, n)
    BY <1>1, SymbolsIs
  <2> HIDE DEF f, n
  <2> QED  BY <2>1, Zenon DEF SymbolsUpTo
<1> HIDE DEF f, n
<1>5. f[0] = <<>>
  BY <1>1, <1>4
<1>6. ASSUME NEW i \in 1 .. n PROVE f[i] = f[i - 1] \o WithoutDashes(args[i])
  <2>1. i \in 0 .. n /\ i # 0
    BY <1>1
  <2> QED  BY <1>4, <2>1, Zenon
<1>7. \A i \in 0 .. n : f[i] \in Seq(T)
  <2> DEFINE G == {k \in Nat : k <= n => f[k] \in Seq(T)}
  <2>1. 0 \in G
    <3>1. <<>> \in Seq(T)
      BY EmptySeq
    <3> QED  BY <1>5, <3>1
  <2>2. ASSUME NEW k \in Nat, k < n, k \in G PROVE k + 1 \in G
    <3> DEFINE j == k + 1
    <3>1. j \in 1 .. n /\ j - 1 = k /\ j \in Nat /\ k <= n
      BY <1>1, <2>2
    <3>2. f[k] \in Seq(T)
      BY <2>2, <3>1
    <3> HIDE DEF j
    <3>3. f[j] = f[k] \o WithoutDashes(args[j]) /\ WithoutDashes(args[j]) \in Seq(T)
      BY <1>3, <1>6, <3>1
    <3>4. f[j] \in Seq(T)
      BY <3>2, <3>3, ConcatProperties
    <3> QED  BY <3>1, <3>4 DEF j
  <2> HIDE DEF G
  <2>3. \A k \in 0 .. n : k \in G
    BY <1>1, <2>1, <2>2, UpTo
  <2> QED  BY <1>1, <2>3 DEF G
<1> QED  BY <1>5, <1>6, <1>7 DEF f, n

\* One sequence begins with another.
Begins(T, s, t) == \E r \in Seq(T) : t = s \o r

LEMMA BeginsIsPrefix ==
    ASSUME NEW T, NEW s \in Seq(T), NEW t, Begins(T, s, t)
    PROVE  IsPrefix(s, t)
<1>1. PICK r \in Seq(T) : t = s \o r
  BY DEF Begins
<1>2. Len(s) \in Nat /\ Len(r) \in Nat /\ Len(t) = Len(s) + Len(r)
  BY <1>1, LenProperties, ConcatProperties
<1>3. SubSeq(s, 1, Len(s)) = SubSeq(t, 1, Len(s))
  <2> DEFINE n == Len(s)
  <2>1. CASE n = 0
    <3>1. 1 \in Int /\ n \in Int /\ n < 1
      BY <2>1
    <3> HIDE DEF n
    <3>2. SubSeq(s, 1, n) = <<>> /\ SubSeq(t, 1, n) = <<>>
      BY <3>1, SubSeqEmpty
    <3> QED  BY <3>2 DEF n
  <2>2. CASE n # 0
    <3>1. 1 \in 1 .. Len(s) /\ n \in 1 .. Len(s)
      BY <1>2, <2>2
    <3> HIDE DEF n
    <3>2. SubSeq(s \o r, 1, n) = SubSeq(s, 1, n)
      BY <3>1, SubSeqOfConcat1
    <3> QED  BY <1>1, <3>2 DEF n
  <2> QED  BY <2>1, <2>2
<1> QED  BY <1>2, <1>3 DEF IsPrefix

LEMMA BeginsFurther ==
    ASSUME NEW T, NEW s \in Seq(T), NEW t, NEW u \in Seq(T), Begins(T, s, t)
    PROVE  Begins(T, s, t \o u)
<1>1. PICK r \in Seq(T) : t = s \o r
  BY DEF Begins
<1>2. r \o u \in Seq(T)
  BY ConcatProperties
<1>3. t \o u = s \o (r \o u)
  BY <1>1, ConcatAssociative
<1> QED  BY <1>2, <1>3, Zenon DEF Begins

LEMMA SymbolsBegin ==
    ASSUME NEW T, NEW args \in Seq(Seq(T)), NEW i \in 0 .. Len(args)
    PROVE  Begins(T, SymbolsOf(args)[i], SymbolsOf(args)[Len(args)])
<1> DEFINE n == Len(args)
           f == SymbolsOf(args)
<1>1. n \in Nat /\ i \in 0 .. n
  BY LenProperties
<1>2. \A k \in 1 .. n : f[k] = f[k - 1] \o WithoutDashes(args[k])
  BY SymbolsAre
<1>3. \A k \in 0 .. n : f[k] \in Seq(T)
  BY SymbolsAre
<1>4. \A k \in 1 .. n : WithoutDashes(args[k]) \in Seq(T)
  <2>1. \A k \in 1 .. n : args[k] \in Seq(T)
    BY ElementOfSeq
  <2> QED  BY <2>1, WithoutConcat
<1> HIDE DEF f, n
<1>5. f[i] \in Seq(T)
  BY <1>1, <1>3
<1> DEFINE G == {k \in Nat : i <= k /\ k <= n => Begins(T, f[i], f[k])}
<1>6. i = i => Begins(T, f[i], f[i])
  <2>1. <<>> \in Seq(T) /\ f[i] = f[i] \o <<>>
    BY <1>5, EmptySeq, ConcatEmptySeq
  <2> QED  BY <2>1, Zenon DEF Begins
<1>7. 0 \in G
  <2>1. i <= 0 => i = 0
    BY <1>1
  <2> QED  BY <1>6, <2>1
<1>8. ASSUME NEW k \in Nat, k < n, k \in G PROVE k + 1 \in G
  <2> DEFINE j == k + 1
  <2>1. j \in 1 .. n /\ j - 1 = k /\ j \in Nat /\ k <= n /\ (i <= j => i = j \/ i <= k)
    BY <1>1, <1>8
  <2>2. i <= k => Begins(T, f[i], f[k])
    BY <1>8, <2>1
  <2> HIDE DEF j, G
  <2>3. i <= k => Begins(T, f[i], f[j])
    BY <1>2, <1>4, <1>5, <2>1, <2>2, BeginsFurther
  <2>4. i <= j => Begins(T, f[i], f[j])
    BY <1>6, <2>1, <2>3
  <2> QED  BY <2>1, <2>4 DEF j, G
<1> HIDE DEF G
<1>9. \A k \in 0 .. n : k \in G
  BY <1>1, <1>7, <1>8, UpTo
<1>10. n \in 0 .. n /\ i <= n /\ n <= n
  BY <1>1
<1> QED  BY <1>9, <1>10 DEF G, f, n

\* The sort of the symbols.
Symbol == STRING
Argv == argv \in Seq(Seq(Symbol))

\* The symbols in front of a place: an argument, and in it a letter or 0.
InFront(i, s) ==
    IF s = 0 THEN SymbolsOf(argv)[i - 1]
    ELSE SymbolsOf(argv)[i - 1] \o WithoutDashes(SubSeq(argv[i], 1, s - 1))
\* An argument's letters behind its first.
ShortPlace(i, s) == s # 0 => i \in 1 .. Len(argv) /\ s \in 2 .. Len(argv[i])

\* From a place with x in front of it, a call takes what it goes past; or it
\* takes nothing and main leaves the loop.
Passes(r, x) ==
    /\ r.took \in Seq(Symbol)
    /\ \/ /\ r.current \in 1 .. Argc /\ ShortPlace(r.current, r.shrt)
          /\ InFront(r.current, r.shrt) = x \o WithoutDashes(r.took)
       \/ r.took = <<>> /\ (r.ret = "error" \/ r.current > Argc)

\* The place behind a whole argument.
LEMMA InFrontOfNext ==
    ASSUME Argv, NEW i \in 1 .. Len(argv)
    PROVE  /\ i + 1 \in 1 .. Argc /\ argv[i] \in Seq(Symbol)
           /\ InFront(i, 0) \in Seq(Symbol)
           /\ InFront(i + 1, 0) = InFront(i, 0) \o WithoutDashes(argv[i])
<1>1. Len(argv) \in Nat /\ Argc = Len(argv) + 1 /\ argv[i] \in Seq(Symbol)
  BY LenProperties, ElementOfSeq DEF Argv, Argc
<1>2. SymbolsOf(argv)[i] = SymbolsOf(argv)[i - 1] \o WithoutDashes(argv[i])
  BY SymbolsAre DEF Argv
<1>3. (i + 1) - 1 = i /\ i - 1 \in 0 .. Len(argv)
  BY <1>1
<1>4. SymbolsOf(argv)[i - 1] \in Seq(Symbol)
  BY <1>3, SymbolsAre DEF Argv
<1>5. InFront(i, 0) = SymbolsOf(argv)[i - 1]
  BY DEF InFront
<1>6. InFront(i + 1, 0) = SymbolsOf(argv)[(i + 1) - 1]
  BY Zenon DEF InFront
<1>7. InFront(i + 1, 0) = InFront(i, 0) \o WithoutDashes(argv[i])
  BY <1>2, <1>3, <1>5, <1>6, Zenon
<1>8. InFront(i, 0) \in Seq(Symbol)
  BY <1>4, <1>5, Zenon
<1>9. i + 1 \in 1 .. Argc
  BY <1>1
<1> QED  BY <1>1, <1>7, <1>8, <1>9, Zenon

\* An argument up to a letter, the letter, and the rest.
LEMMA Around ==
    ASSUME NEW T, NEW a \in Seq(T), NEW s \in 1 .. Len(a)
    PROVE  /\ SubSeq(a, 1, s - 1) \in Seq(T) /\ <<a[s]>> \in Seq(T) /\ SubSeq(a, s + 1, Len(a)) \in Seq(T)
           /\ SubSeq(a, 1, s) = SubSeq(a, 1, s - 1) \o <<a[s]>>
           /\ a = SubSeq(a, 1, s) \o SubSeq(a, s + 1, Len(a))
<1> DEFINE n == Len(a)
<1>1. n \in Nat /\ s \in 1 .. n /\ \A i \in 1 .. n : a[i] \in T
  BY LenProperties, ElementOfSeq
<1> HIDE DEF n
<1>2. SubSeq(a, 1, s - 1) \in Seq(T)
  <2> DEFINE m == s - 1
             b == 1
  <2>1. m \in Int /\ b \in Int /\ \A i \in b .. m : a[i] \in T
    BY <1>1
  <2> HIDE DEF m, b
  <2>2. SubSeq(a, b, m) \in Seq(T)
    BY <2>1, SubSeqProperties
  <2> QED  BY <2>2 DEF m, b
<1>3. SubSeq(a, s + 1, n) \in Seq(T)
  <2> DEFINE m == s + 1
  <2>1. m \in Int /\ n \in Int /\ \A i \in m .. n : a[i] \in T
    BY <1>1
  <2> HIDE DEF m
  <2>2. SubSeq(a, m, n) \in Seq(T)
    BY <2>1, SubSeqProperties
  <2> QED  BY <2>2 DEF m
<1>4. <<a[s]>> \in Seq(T)
  BY <1>1
<1>5. SubSeq(a, 1, s) = SubSeq(a, 1, s - 1) \o <<a[s]>>
  <2> DEFINE b == 1
  <2>1. b \in 1 .. Len(a) /\ s \in b .. Len(a)
    BY <1>1 DEF n
  <2> HIDE DEF b
  <2>2. SubSeq(a, b, s) = SubSeq(a, b, s - 1) \o <<a[s]>>
    BY <2>1, SubSeqRecursiveSecond
  <2> QED  BY <2>2 DEF b
<1>6. a = SubSeq(a, 1, s) \o SubSeq(a, s + 1, n)
  <2> DEFINE b == 1
  <2>1. b \in 1 .. Len(a) + 1 /\ s \in b - 1 .. Len(a) /\ n \in s .. Len(a)
    BY <1>1 DEF n
  <2> HIDE DEF b, n
  <2>2. SubSeq(a, b, s) \o SubSeq(a, s + 1, n) = SubSeq(a, b, n)
    BY <2>1, ConcatAdjacentSubSeq
  <2> QED  BY <2>2, SubSeqFull DEF b, n
<1> QED  BY <1>2, <1>3, <1>4, <1>5, <1>6 DEF n

LEMMA ThreeParts ==
    ASSUME NEW T, NEW s, NEW t, NEW u, s \in Seq(T), t \in Seq(T), u \in Seq(T)
    PROVE  (s \o t) \o u = s \o (t \o u)
  BY ConcatAssociative

\* The place behind a letter, and behind the argument that it is in.
LEMMA InFrontInside ==
    ASSUME Argv, NEW i \in 1 .. Len(argv), NEW s \in 2 .. Len(argv[i])
    PROVE  /\ InFront(i, s) \in Seq(Symbol) /\ <<argv[i][s]>> \in Seq(Symbol)
           /\ SubSeq(argv[i], s + 1, Len(argv[i])) \in Seq(Symbol)
           /\ InFront(i, s + 1) = InFront(i, s) \o WithoutDashes(<<argv[i][s]>>)
           /\ InFront(i + 1, 0) = InFront(i, s + 1)
                                  \o WithoutDashes(SubSeq(argv[i], s + 1, Len(argv[i])))
<1> DEFINE a == argv[i]
           x == <<a[s]>>
           p == SubSeq(a, 1, s - 1)
           q == SubSeq(a, 1, s)
           r == SubSeq(a, s + 1, Len(a))
           d == InFront(i, 0)
<1>1. a \in Seq(Symbol) /\ d \in Seq(Symbol) /\ InFront(i + 1, 0) = d \o WithoutDashes(a)
  BY InFrontOfNext
<1>2. Len(a) \in Nat /\ s \in 1 .. Len(a) /\ s # 0 /\ s + 1 # 0 /\ (s + 1) - 1 = s
  BY <1>1, LenProperties
<1>3. p \in Seq(Symbol) /\ x \in Seq(Symbol) /\ r \in Seq(Symbol) /\ q = p \o x /\ a = q \o r
  BY <1>1, <1>2, Around
<1>4. InFront(i, s) = d \o WithoutDashes(p)
  BY <1>2, Zenon DEF InFront
<1>5. InFront(i, s + 1) = d \o WithoutDashes(q)
  <2>1. InFront(i, s + 1) = d \o WithoutDashes(SubSeq(a, 1, (s + 1) - 1))
    BY <1>2, Zenon DEF InFront
  <2> QED  BY <1>2, <2>1
<1> HIDE DEF x, p, q, r, d
<1>6. q \in Seq(Symbol)
  BY <1>3, ConcatProperties
<1>7. /\ WithoutDashes(q) = WithoutDashes(p) \o WithoutDashes(x)
      /\ WithoutDashes(p) \in Seq(Symbol) /\ WithoutDashes(x) \in Seq(Symbol)
  BY <1>3, WithoutConcat
<1> DEFINE wp == WithoutDashes(p)
           wx == WithoutDashes(x)
           wq == WithoutDashes(q)
           wr == WithoutDashes(r)
<1>8. wq = wp \o wx /\ wp \in Seq(Symbol) /\ wx \in Seq(Symbol) /\ wq \in Seq(Symbol)
  BY <1>6, <1>7, WithoutConcat
<1>9. WithoutDashes(a) = wq \o wr /\ wr \in Seq(Symbol)
  <2>1. WithoutDashes(q \o r) = wq \o wr /\ wr \in Seq(Symbol)
    BY <1>3, <1>6, WithoutConcat
  <2> QED  BY <1>3, <2>1, Zenon
<1>10. InFront(i, s) = d \o wp /\ InFront(i, s + 1) = d \o wq
  BY <1>4, <1>5
<1> HIDE DEF a, wp, wx, wq, wr
<1>11. InFront(i, s) \in Seq(Symbol)
  BY <1>1, <1>8, <1>10, ConcatProperties
<1>12. InFront(i, s + 1) = InFront(i, s) \o wx
  <2> DEFINE T == Symbol
  <2>0. d \in Seq(T) /\ wp \in Seq(T) /\ wx \in Seq(T)
    BY <1>1, <1>8
  <2> HIDE DEF T
  <2>1. (d \o wp) \o wx = d \o (wp \o wx)
    BY <2>0, ThreeParts, SMTT(30)
  <2> QED  BY <1>8, <1>10, <2>1, Zenon
<1>13. InFront(i + 1, 0) = InFront(i, s + 1) \o wr
  <2> DEFINE T == Symbol
  <2>0. d \in Seq(T) /\ wq \in Seq(T) /\ wr \in Seq(T)
    BY <1>1, <1>8, <1>9
  <2> HIDE DEF T
  <2>1. (d \o wq) \o wr = d \o (wq \o wr)
    BY <2>0, ThreeParts, SMTT(30)
  <2> QED  BY <1>1, <1>9, <1>10, <2>1, Zenon
<1> QED  BY <1>3, <1>11, <1>12, <1>13 DEF a, x, r, wx, wr

\* What a call returns, by its fields.
LEMMA RetPasses ==
    ASSUME NEW ret, NEW arg, NEW cur \in 1 .. Argc, NEW s, NEW took \in Seq(Symbol), NEW x,
           ShortPlace(cur, s), InFront(cur, s) = x \o WithoutDashes(took)
    PROVE  Passes(Ret(ret, arg, cur, s, took), x)
<1> DEFINE r == Ret(ret, arg, cur, s, took)
<1>1. r.current = cur /\ r.shrt = s /\ r.took = took
  BY DEF Ret
<1> HIDE DEF r
<1>2. Passes(r, x)
  BY <1>1, Zenon DEF Passes
<1> QED  BY <1>2 DEF r

LEMMA ErrPasses == ASSUME NEW cur, NEW s, NEW x PROVE Passes(Err(cur, s), x)
<1>1. Err(cur, s).took = <<>> /\ Err(cur, s).ret = "error"
  BY DEF Err, Ret
<1>2. <<>> \in Seq(Symbol)
  BY EmptySeq
<1> QED  BY <1>1, <1>2, Zenon DEF Passes

\* An argument that is no option.
LEMMA ExtraPasses ==
    ASSUME Argv, NEW i \in 1 .. Len(argv)
    PROVE  Passes(LoadExtraArg(i), InFront(i, 0))
<1>1. /\ i + 1 \in 1 .. Argc /\ argv[i] \in Seq(Symbol)
      /\ InFront(i + 1, 0) = InFront(i, 0) \o WithoutDashes(argv[i])
  BY InFrontOfNext
<1>2. ShortPlace(i + 1, 0)
  BY DEF ShortPlace
<1>3. Passes(Ret("extra", argv[i], i + 1, 0, argv[i]), InFront(i, 0))
  BY <1>1, <1>2, RetPasses
<1>4. Arg(i) = argv[i]
  <2>1. Len(argv) \in Nat
    BY LenProperties DEF Argv
  <2> QED  BY <2>1 DEF Arg, Argc
<1> QED  BY <1>3, <1>4, Zenon DEF LoadExtraArg

LEMMA NothingOfDashDash ==
    Len(DashDash) = 2 /\ SubSeq(DashDash, 1, 2) = DashDash /\ WithoutDashes(DashDash) = <<>>
<1> DEFINE c == "-"
           T == {c}
           d == <<c>>
<1>1. DashDash = d \o d /\ Len(d) = 1
  BY DEF DashDash
<1>2. WithoutDashes(d) = <<>>
  BY WithoutDash
<1>3. c \in T
  OBVIOUS
<1> HIDE DEF c, T
<1>4. d \in Seq(T)
  BY <1>3
<1> HIDE DEF d
<1>5. WithoutDashes(d \o d) = WithoutDashes(d) \o WithoutDashes(d) /\ WithoutDashes(d) \in Seq(T)
  BY <1>4, WithoutConcat
<1>6. WithoutDashes(d) \o <<>> = WithoutDashes(d)
  BY <1>5, ConcatEmptySeq
<1>7. DashDash \in Seq(T) /\ Len(DashDash) = 2
  <2>1. d \o d \in Seq(T) /\ Len(d \o d) = Len(d) + Len(d)
    BY <1>4, ConcatProperties
  <2> QED  BY <1>1, <2>1
<1>8. SubSeq(DashDash, 1, Len(DashDash)) = DashDash
  BY <1>7, SubSeqFull
<1> QED  BY <1>1, <1>2, <1>5, <1>6, <1>7, <1>8

\* The argument behind a --, and nothing if there is none.
LEMMA DashDashPasses ==
    ASSUME Argv, NEW i \in 1 .. Len(argv), argv[i] = DashDash
    PROVE  Passes(LoadExtraArg(i + 1), InFront(i, 0))
<1>1. Len(argv) \in Nat /\ Argc = Len(argv) + 1
  BY LenProperties DEF Argv, Argc
<1>2. InFront(i + 1, 0) = InFront(i, 0)
  <2>1. WithoutDashes(DashDash) = <<>>
    BY NothingOfDashDash
  <2>2. InFront(i + 1, 0) = InFront(i, 0) \o WithoutDashes(argv[i]) /\ InFront(i, 0) \in Seq(Symbol)
    BY InFrontOfNext
  <2>3. InFront(i, 0) \o <<>> = InFront(i, 0)
    BY <2>2, ConcatEmptySeq
  <2> QED  BY <2>1, <2>2, <2>3, Zenon
<1>3. CASE i + 1 <= Len(argv)
  <2> DEFINE j == i + 1
  <2>1. j \in 1 .. Len(argv)
    BY <1>1, <1>3
  <2> HIDE DEF j
  <2>2. Passes(LoadExtraArg(j), InFront(j, 0))
    BY <2>1, ExtraPasses
  <2> QED  BY <1>2, <2>2 DEF j
<1>4. CASE ~(i + 1 <= Len(argv))
  <2>1. Arg(i + 1) = <<>> /\ (i + 1) + 1 > Argc
    BY <1>1, <1>4 DEF Arg
  <2>2. LoadExtraArg(i + 1).took = Arg(i + 1) /\ LoadExtraArg(i + 1).current = (i + 1) + 1
    BY DEF LoadExtraArg, Ret
  <2>3. <<>> \in Seq(Symbol)
    BY EmptySeq
  <2> QED  BY <2>1, <2>2, <2>3, Zenon DEF Passes
<1> QED  BY <1>3, <1>4

\* An option that ends its argument, and the next argument if it takes a value.
LEMMA ValuePasses ==
    ASSUME Argv, NEW i \in 1 .. Len(argv), NEW opt, NEW sym, <<sym>> \in Seq(Symbol),
           NEW x \in Seq(Symbol), InFront(i + 1, 0) = x \o WithoutDashes(<<sym>>)
    PROVE  Passes(WithValue(opt, sym, i + 1), x)
<1> DEFINE j == i + 1
<1>1. Len(argv) \in Nat /\ Argc = Len(argv) + 1 /\ j \in 1 .. Argc /\ j # 0
  BY LenProperties DEF Argv, Argc
<1> DEFINE o == <<sym>>
<1>2. o \in Seq(Symbol) /\ InFront(j, 0) = x \o WithoutDashes(o)
  OBVIOUS
<1>3. CASE ~opt.hasArg
  <2>1. ShortPlace(j, 0)
    BY DEF ShortPlace
  <2> HIDE DEF j, o
  <2>2. Passes(Ret(opt.lng, <<>>, j, 0, o), x)
    BY <1>1, <1>2, <2>1, RetPasses
  <2> QED  BY <1>3, <2>2, Zenon DEF WithValue, j, o
<1>4. CASE opt.hasArg /\ j # Argc
  <2> DEFINE a == argv[j]
             p == o \o a
  <2>1. j \in 1 .. Len(argv) /\ Arg(j) = a
    BY <1>1, <1>4 DEF Arg
  <2> HIDE DEF j, o
  <2>2. j + 1 \in 1 .. Argc /\ a \in Seq(Symbol) /\ InFront(j + 1, 0) = InFront(j, 0) \o WithoutDashes(a)
    BY <2>1, InFrontOfNext
  <2> HIDE DEF a
  <2>3. p \in Seq(Symbol)
    BY <1>2, <2>2, ConcatProperties
  <2> DEFINE wo == WithoutDashes(o)
             wa == WithoutDashes(a)
  <2>4. WithoutDashes(p) = wo \o wa /\ wo \in Seq(Symbol) /\ wa \in Seq(Symbol)
    BY <1>2, <2>2, WithoutConcat
  <2> HIDE DEF wo, wa
  <2> DEFINE T == Symbol
  <2>5. x \in Seq(T) /\ wo \in Seq(T) /\ wa \in Seq(T)
    BY <2>4
  <2> HIDE DEF T, p
  <2>6. (x \o wo) \o wa = x \o (wo \o wa)
    BY <2>5, ThreeParts, SMTT(30)
  <2>7. InFront(j + 1, 0) = x \o WithoutDashes(p)
    BY <1>2, <2>2, <2>4, <2>6, Zenon DEF wo, wa
  <2>8. ShortPlace(j + 1, 0)
    BY DEF ShortPlace
  <2>9. Passes(Ret(opt.lng, a, j + 1, 0, p), x)
    BY <2>2, <2>3, <2>7, <2>8, RetPasses
  <2>10. WithValue(opt, sym, j) = Ret(opt.lng, a, j + 1, 0, p)
    BY <1>4, <2>1, Zenon DEF WithValue, MayHaveValue, p, o
  <2> QED  BY <2>9, <2>10, Zenon DEF j
<1>5. CASE opt.hasArg /\ j = Argc
  <2> HIDE DEF j
  <2>1. WithValue(opt, sym, j) = Err(j, 0)
    BY <1>5, Zenon DEF WithValue, MayHaveValue
  <2>2. Passes(Err(j, 0), x)
    BY ErrPasses, Zenon
  <2> QED  BY <2>1, <2>2, Zenon DEF j
<1> QED  BY <1>3, <1>4, <1>5

\* A long option: the argument is -- and its name.
LEMMA LongPasses ==
    ASSUME Argv, current \in 1 .. Len(argv), IsPrefix(DashDash, argv[current])
    PROVE  Passes(HandleLongArg, InFront(current, 0))
<1> DEFINE a == Arg(current)
           name == SubSeq(a, 3, Len(a))
           x == InFront(current, 0)
<1>3. argv[current] = a
  <2>1. Len(argv) \in Nat
    BY LenProperties DEF Argv
  <2> QED  BY <2>1 DEF Arg, Argc
<1>1. /\ a \in Seq(Symbol) /\ x \in Seq(Symbol)
      /\ InFront(current + 1, 0) = x \o WithoutDashes(a)
  BY <1>3, InFrontOfNext
<1>2. Len(DashDash) = 2 /\ Len(a) \in Nat /\ 2 <= Len(a) /\ SubSeq(DashDash, 1, 2) = SubSeq(a, 1, 2)
  <2>1. Len(DashDash) = 2
    BY NothingOfDashDash
  <2>2. Len(a) \in Nat
    BY <1>1, LenProperties
  <2> QED  BY <1>3, <2>1, <2>2 DEF IsPrefix
<1>4. WithoutDashes(a) = WithoutDashes(name) /\ name \in Seq(Symbol)
  <2> DEFINE s == 2
             q == SubSeq(a, 1, s)
             r == SubSeq(a, s + 1, Len(a))
  <2>1. s \in 1 .. Len(a) /\ s + 1 = 3 /\ r = name
    BY <1>2
  <2>2. SubSeq(DashDash, 1, 2) = DashDash
    BY NothingOfDashDash
  <2>3. q = DashDash
    BY <1>2, <2>2
  <2>4. /\ SubSeq(a, 1, s - 1) \in Seq(Symbol) /\ <<a[s]>> \in Seq(Symbol) /\ r \in Seq(Symbol)
        /\ q = SubSeq(a, 1, s - 1) \o <<a[s]>> /\ a = q \o r
    <3> HIDE DEF s, a
    <3> QED  BY <1>1, <2>1, Around
  <2>5. q \in Seq(Symbol)
    BY <2>4, ConcatProperties
  <2> HIDE DEF s, a, q, r, name
  <2>6. WithoutDashes(q \o r) = WithoutDashes(q) \o WithoutDashes(r) /\ WithoutDashes(r) \in Seq(Symbol)
    BY <2>4, <2>5, WithoutConcat
  <2>7. WithoutDashes(q) = <<>>
    BY <2>3, NothingOfDashDash
  <2>8. <<>> \o WithoutDashes(r) = WithoutDashes(r)
    BY <2>6, ConcatEmptySeq
  <2>9. WithoutDashes(a) = WithoutDashes(r)
    BY <2>4, <2>6, <2>7, <2>8, Zenon
  <2> QED  BY <2>1, <2>4, <2>9, Zenon
<1> DEFINE named == {opt \in Options : <<opt.lng>> = name}
           o == CHOOSE opt \in named : TRUE
<1>5. HandleLongArg = IF named = {} THEN Err(current + 1, 0) ELSE WithValue(o, o.lng, current + 1)
  BY Zenon DEF HandleLongArg
<1>6. named # {} => <<o.lng>> = name
  OBVIOUS
<1>7. CASE named = {}
  <2>1. Passes(Err(current + 1, 0), x)
    BY ErrPasses, Zenon
  <2> HIDE DEF named, o, x
  <2> QED  BY <1>5, <1>7, <2>1, Zenon DEF x
<1>8. CASE named # {}
  <2> DEFINE l == o.lng
  <2> HIDE DEF named, o, x, a, name
  <2>1. <<l>> \in Seq(Symbol) /\ InFront(current + 1, 0) = x \o WithoutDashes(<<l>>)
    BY <1>1, <1>4, <1>6, <1>8, Zenon
  <2> HIDE DEF l
  <2>2. Passes(WithValue(o, l, current + 1), x)
    BY <1>1, <2>1, ValuePasses
  <2> QED  BY <1>5, <1>8, <2>2, Zenon DEF l, x
<1> QED  BY <1>7, <1>8

\* A letter: an option whose value, if it has one, is the rest of the argument
\* or the next argument.
LEMMA ShortPasses ==
    ASSUME Argv, current \in 1 .. Len(argv), NEW s \in 2 .. Len(argv[current])
    PROVE  Passes(HandleShortArg(s), InFront(current, s))
<1> DEFINE a == Arg(current)
           c == a[s]
           rest == SubSeq(a, s + 1, Len(a))
           x == InFront(current, s)
           found == {opt \in Options : opt.shrt = c}
           o == CHOOSE opt \in found : TRUE
<1>2. /\ argv[current] = a /\ Len(a) \in Nat /\ current + 1 \in 1 .. Argc /\ current \in 1 .. Argc
      /\ s \in 2 .. Len(a)
  <2>1. Len(argv) \in Nat /\ argv[current] \in Seq(Symbol)
    BY LenProperties, ElementOfSeq DEF Argv
  <2>2. Len(argv[current]) \in Nat
    BY <2>1, LenProperties
  <2> QED  BY <2>1, <2>2 DEF Arg, Argc
<1>1. /\ x \in Seq(Symbol) /\ <<c>> \in Seq(Symbol) /\ rest \in Seq(Symbol)
      /\ InFront(current, s + 1) = x \o WithoutDashes(<<c>>)
      /\ InFront(current + 1, 0) = InFront(current, s + 1) \o WithoutDashes(rest)
  BY <1>2, InFrontInside
<1>3. HandleShortArg(s) = IF found = {} THEN Err(current, s)
                          ELSE IF s = Len(a) THEN WithValue(o, o.shrt, current + 1)
                          ELSE IF o.hasArg THEN Attached(o, rest)
                          ELSE Ret(o.lng, <<>>, current, s + 1, <<o.shrt>>)
  BY Zenon DEF HandleShortArg
<1>4. found # {} => o.shrt = c
  OBVIOUS
<1> DEFINE wc == WithoutDashes(<<c>>)
           wr == WithoutDashes(rest)
<1>5. wr \in Seq(Symbol) /\ wc \in Seq(Symbol) /\ WithoutDashes(<<c>> \o rest) = wc \o wr
  <2> DEFINE p == <<c>>
  <2>1. p \in Seq(Symbol) /\ rest \in Seq(Symbol)
    BY <1>1
  <2> HIDE DEF p, rest
  <2> QED  BY <2>1, WithoutConcat DEF p
<1>6. InFront(current + 1, 0) = x \o (wc \o wr)
  <2> DEFINE T == Symbol
  <2>1. x \in Seq(T) /\ wc \in Seq(T) /\ wr \in Seq(T)
    BY <1>1, <1>5
  <2> HIDE DEF T, x, wc, wr
  <2>2. (x \o wc) \o wr = x \o (wc \o wr)
    BY <2>1, ThreeParts, SMTT(30)
  <2> QED  BY <1>1, <2>2, Zenon DEF wc, wr
<1>7. CASE found = {}
  <2>1. Passes(Err(current, s), x)
    BY ErrPasses, Zenon
  <2> HIDE DEF found, o, x
  <2> QED  BY <1>3, <1>7, <2>1, Zenon DEF x
<1>8. CASE found # {} /\ s = Len(a)
  <2>1. rest = <<>>
    <3> DEFINE m == s + 1
               n == Len(a)
    <3>1. m \in Int /\ n \in Int /\ n < m
      BY <1>2, <1>8
    <3> HIDE DEF m, n
    <3>2. SubSeq(a, m, n) = <<>>
      BY <3>1, SubSeqEmpty
    <3> QED  BY <3>2 DEF m, n
  <2>2. wc \o wr = wc
    <3>1. wr = <<>>
      BY <2>1, WithoutDash
    <3>2. wc \o <<>> = wc
      BY <1>5, ConcatEmptySeq
    <3> QED  BY <3>1, <3>2, Zenon
  <2>3. InFront(current + 1, 0) = x \o WithoutDashes(<<c>>)
    BY <1>6, <2>2, Zenon
  <2> HIDE DEF a, c, x, found, o
  <2>4. Passes(WithValue(o, c, current + 1), x)
    BY <1>1, <2>3, ValuePasses
  <2> QED  BY <1>3, <1>4, <1>8, <2>4, Zenon DEF x
<1>9. CASE found # {} /\ s # Len(a) /\ o.hasArg
  <2> DEFINE p == <<c>> \o rest
  <2>1. p \in Seq(Symbol)
    <3> DEFINE q == <<c>>
    <3>1. q \in Seq(Symbol) /\ rest \in Seq(Symbol)
      BY <1>1
    <3> HIDE DEF q, rest
    <3> QED  BY <3>1, ConcatProperties DEF q
  <2>2. InFront(current + 1, 0) = x \o WithoutDashes(p)
    BY <1>5, <1>6, Zenon
  <2>3. ShortPlace(current + 1, 0)
    BY DEF ShortPlace
  <2> DEFINE i == current + 1
  <2>4. i \in 1 .. Argc
    BY <1>2
  <2> HIDE DEF p, x, i
  <2>5. Passes(Ret(o.lng, rest, i, 0, p), x)
    BY <2>1, <2>2, <2>3, <2>4, RetPasses DEF i
  <2> HIDE DEF a, c, found, o, rest
  <2>6. Attached(o, rest) = Ret(o.lng, rest, i, 0, p)
    BY <1>4, <1>9, Zenon DEF Attached, i, p
  <2> QED  BY <1>3, <1>9, <2>5, <2>6, Zenon DEF x
<1>10. CASE found # {} /\ s # Len(a) /\ ~o.hasArg
  <2> DEFINE t == s + 1
             p == <<c>>
  <2>1. ShortPlace(current, t) /\ t # 0
    BY <1>2, <1>10 DEF ShortPlace
  <2>2. p \in Seq(Symbol) /\ InFront(current, t) = x \o WithoutDashes(p) /\ current \in 1 .. Argc
    BY <1>1, <1>2
  <2> HIDE DEF p, t, x
  <2>3. Passes(Ret(o.lng, <<>>, current, t, p), x)
    BY <2>1, <2>2, RetPasses
  <2> HIDE DEF a, c, found, o, rest
  <2>4. HandleShortArg(s) = Ret(o.lng, <<>>, current, t, p)
    BY <1>3, <1>4, <1>10, Zenon DEF t, p
  <2> QED  BY <2>3, <2>4, Zenon DEF x
<1> QED  BY <1>7, <1>8, <1>9, <1>10

\* Every call.
LEMMA ArgParserPasses ==
    ASSUME Argv, current \in 1 .. Len(argv), shrt \in Nat, parsingDone \in BOOLEAN,
           parsingDone => shrt = 0, ShortPlace(current, shrt)
    PROVE  /\ Passes(ArgParser, InFront(current, shrt))
           /\ parsingDone \/ (shrt = 0 /\ Arg(current) = DashDash) => ArgParser.shrt = 0
<1> DEFINE a == argv[current]
<1>1. a \in Seq(Symbol) /\ Len(a) \in Nat /\ Arg(current) = a
  <2>1. Len(argv) \in Nat /\ a \in Seq(Symbol)
    BY LenProperties, ElementOfSeq DEF Argv
  <2>2. Len(a) \in Nat
    BY <2>1, LenProperties
  <2> QED  BY <2>1, <2>2 DEF Arg, Argc
<1> DEFINE dash == a # <<>> /\ a[1] = "-" /\ shrt = 0
<1>2. ArgParser = CASE parsingDone -> LoadExtraArg(current)
          [] ~parsingDone /\ dash /\ a = DashDash -> LoadExtraArg(current + 1)
          [] ~parsingDone /\ dash /\ a # DashDash /\ IsPrefix(DashDash, a) -> HandleLongArg
          [] ~parsingDone /\ dash /\ ~IsPrefix(DashDash, a) /\ Len(a) > 1 -> HandleShortArg(2)
          [] ~parsingDone /\ shrt # 0 -> HandleShortArg(shrt)
          [] OTHER -> LoadExtraArg(current)
  BY <1>1, Zenon DEF ArgParser
<1>3. \A i : LoadExtraArg(i).shrt = 0
  BY DEF LoadExtraArg, Ret
<1>0. IsPrefix(DashDash, DashDash)
  BY NothingOfDashDash DEF IsPrefix
<1>4. CASE parsingDone
  <2>1. ArgParser = LoadExtraArg(current)
    BY <1>2, <1>4, Zenon
  <2> QED  BY <1>3, <1>4, <2>1, ExtraPasses
<1>5. CASE ~parsingDone /\ dash /\ a = DashDash
  <2>1. ArgParser = LoadExtraArg(current + 1)
    BY <1>0, <1>2, <1>5, Zenon
  <2> QED  BY <1>3, <1>5, <2>1, DashDashPasses
<1>6. CASE ~parsingDone /\ dash /\ a # DashDash /\ IsPrefix(DashDash, a)
  <2>1. ArgParser = HandleLongArg
    BY <1>2, <1>6, Zenon
  <2> QED  BY <1>1, <1>6, <2>1, LongPasses
<1>7. CASE ~parsingDone /\ dash /\ ~IsPrefix(DashDash, a) /\ Len(a) > 1
  <2>1. ArgParser = HandleShortArg(2)
    BY <1>0, <1>2, <1>7, Zenon
  <2>2. InFront(current, 2) = InFront(current, 0)
    <3> DEFINE x == InFront(current, 0)
    <3>1. SubSeq(a, 1, 2 - 1) = <<"-">>
      <4> DEFINE b == 1
      <4>1. b \in 1 .. Len(a) /\ b \in b .. Len(a) /\ b - 1 < b /\ b \in Int /\ b - 1 \in Int
        BY <1>7
      <4> HIDE DEF b
      <4>2. SubSeq(a, b, b) = SubSeq(a, b, b - 1) \o <<a[b]>>
        BY <1>1, <4>1, SubSeqRecursiveSecond
      <4>3. SubSeq(a, b, b - 1) = <<>>
        BY <4>1, SubSeqEmpty
      <4>4. <<>> \o <<"-">> = <<"-">>
        OBVIOUS
      <4>5. a[b] = "-"
        BY <1>7 DEF b
      <4>6. SubSeq(a, b, b) = <<"-">>
        BY <4>2, <4>3, <4>4, <4>5, Zenon
      <4>7. 2 - 1 = b
        BY DEF b
      <4> QED  BY <4>6, <4>7, Zenon DEF b
    <3>2. x \in Seq(Symbol)
      BY InFrontOfNext
    <3>3. x = SymbolsOf(argv)[current - 1]
      BY Zenon DEF InFront
    <3>4. InFront(current, 2) = SymbolsOf(argv)[current - 1] \o WithoutDashes(SubSeq(argv[current], 1, 2 - 1))
      <4>1. 2 # 0
        OBVIOUS
      <4> QED  BY <4>1, Zenon DEF InFront
    <3> HIDE DEF x
    <3>5. InFront(current, 2) = x \o <<>>
      BY <3>1, <3>3, <3>4, WithoutDash, Zenon
    <3>6. x \o <<>> = x
      BY <3>2, ConcatEmptySeq
    <3> QED  BY <3>5, <3>6 DEF x
  <2>3. 2 \in 2 .. Len(a)
    BY <1>1, <1>7
  <2>4. Passes(HandleShortArg(2), InFront(current, 2))
    <3> DEFINE s == 2
    <3>1. s \in 2 .. Len(argv[current])
      BY <2>3
    <3> HIDE DEF s, a
    <3>2. Passes(HandleShortArg(s), InFront(current, s))
      BY <3>1, ShortPasses
    <3> QED  BY <3>2 DEF s
  <2>5. shrt = 0 /\ parsingDone = FALSE
    BY <1>7
  <2>6. ~(Arg(current) = DashDash)
    BY <1>0, <1>1, <1>7
  <2> QED  BY <2>1, <2>2, <2>4, <2>5, <2>6, Zenon
<1>8. CASE ~parsingDone /\ shrt # 0
  <2>1. ArgParser = HandleShortArg(shrt)
    BY <1>2, <1>8, Zenon
  <2>2. shrt \in 2 .. Len(argv[current])
    BY <1>8 DEF ShortPlace
  <2> QED  BY <1>1, <1>8, <2>1, <2>2, ShortPasses
<1>9. CASE ~parsingDone /\ shrt = 0 /\ ~(dash /\ (IsPrefix(DashDash, a) \/ Len(a) > 1))
  <2>1. ArgParser = LoadExtraArg(current)
    BY <1>0, <1>2, <1>9, Zenon
  <2> QED  BY <1>3, <1>9, <2>1, ExtraPasses
<1> QED  BY <1>4, <1>5, <1>6, <1>7, <1>8, <1>9

\* What has been taken up to a place is in front of everything else.
LEMMA InFrontFirst ==
    ASSUME Argv, NEW i \in 1 .. Argc, NEW s, ShortPlace(i, s)
    PROVE  /\ IsPrefix(InFront(i, s), SymbolsOf(argv)[Len(argv)])
           /\ i = Argc => InFront(i, s) = SymbolsOf(argv)[Len(argv)]
<1> DEFINE n == Len(argv)
           all == SymbolsOf(argv)[n]
<1>1. n \in Nat /\ Argc = n + 1
  BY LenProperties DEF Argv, Argc
<1>2. ASSUME NEW k \in 0 .. n PROVE SymbolsOf(argv)[k] \in Seq(Symbol) /\ Begins(Symbol, SymbolsOf(argv)[k], all)
  BY SymbolsAre, SymbolsBegin DEF Argv
<1>3. CASE s = 0
  <2>1. InFront(i, s) = SymbolsOf(argv)[i - 1] /\ i - 1 \in 0 .. n /\ (i = Argc => i - 1 = n)
    BY <1>1, <1>3 DEF InFront
  <2> DEFINE x == SymbolsOf(argv)[i - 1]
  <2>2. x \in Seq(Symbol) /\ Begins(Symbol, x, all)
    BY <1>2, <2>1
  <2> HIDE DEF x, all
  <2>3. IsPrefix(x, all)
    BY <2>2, BeginsIsPrefix
  <2>4. i = Argc => x = all
    BY <2>1, Zenon DEF x, all
  <2> QED  BY <2>1, <2>3, <2>4, Zenon DEF x, all
<1>4. CASE s # 0
  <2>1. i \in 1 .. n /\ s \in 2 .. Len(argv[i]) /\ i # Argc
    BY <1>1, <1>4 DEF ShortPlace
  <2> DEFINE x == InFront(i, s)
             y == InFront(i, s + 1)
             z == InFront(i + 1, 0)
             c == <<argv[i][s]>>
             r == SubSeq(argv[i], s + 1, Len(argv[i]))
             wc == WithoutDashes(c)
             wr == WithoutDashes(r)
  <2>2. x \in Seq(Symbol) /\ y = x \o wc /\ z = y \o wr /\ c \in Seq(Symbol) /\ r \in Seq(Symbol)
    BY <2>1, InFrontInside
  <2>3. z = SymbolsOf(argv)[i]
    <3>1. z = SymbolsOf(argv)[(i + 1) - 1]
      BY Zenon DEF InFront
    <3>2. (i + 1) - 1 = i
      OBVIOUS
    <3> QED  BY <3>1, <3>2, Zenon
  <2>4. Begins(Symbol, z, all)
    <3>1. i \in 0 .. n
      BY <1>1, <2>1
    <3> QED  BY <1>2, <2>3, <3>1, Zenon
  <2>5. wc \in Seq(Symbol) /\ wr \in Seq(Symbol)
    <3> HIDE DEF c, r
    <3> QED  BY <2>2, WithoutConcat
  <2> HIDE DEF x, y, z, wc, wr, c, r, all
  <2>6. Begins(Symbol, x, y)
    BY <2>2, <2>5, Zenon DEF Begins
  <2>7. Begins(Symbol, x, z)
    BY <2>2, <2>5, <2>6, BeginsFurther
  <2>8. PICK e \in Seq(Symbol) : all = z \o e
    BY <2>4 DEF Begins
  <2>9. Begins(Symbol, x, all)
    BY <2>2, <2>7, <2>8, BeginsFurther
  <2>10. IsPrefix(x, all)
    BY <2>2, <2>9, BeginsIsPrefix
  <2> QED  BY <2>1, <2>10 DEF x, all
<1> QED  BY <1>3, <1>4

\* What arg_parser has returned is what is in front of its place.
OrderPlace ==
    /\ taken \in Seq(Symbol) /\ ArgumentsInOrder
    /\ pc = "args" => /\ parsingDone => shrt = 0
                      /\ ShortPlace(current, shrt)
                      /\ WithoutDashes(taken) = InFront(current, shrt)

LEMMA InitOrder == ASSUME DriverInit PROVE OrderPlace
<1>1. argv \in Seq(Seq(STRING)) /\ taken = <<>> /\ current = 1 /\ shrt = 0
  BY ArgvsAssumption DEF DriverInit
<1>2. Argv
  BY <1>1, Zenon DEF Argv, Symbol
<1>3. ShortPlace(current, shrt) /\ taken \in Seq(Symbol)
  BY <1>1, EmptySeq DEF ShortPlace
<1>4. WithoutDashes(taken) = InFront(current, shrt)
  <2>1. InFront(current, shrt) = SymbolsOf(argv)[current - 1]
    BY <1>1, Zenon DEF InFront
  <2>2. current - 1 = 0
    BY <1>1
  <2>3. SymbolsOf(argv)[0] = <<>>
    BY <1>2, SymbolsAre DEF Argv
  <2> QED  BY <1>1, <2>1, <2>2, <2>3, WithoutDash, Zenon
<1>5. current \in 1 .. Argc
  BY <1>1, <1>2, LenProperties DEF Argv, Argc
<1>6. ArgumentsInOrder
  <2>1. /\ IsPrefix(InFront(current, shrt), SymbolsOf(argv)[Len(argv)])
        /\ current = Argc => InFront(current, shrt) = SymbolsOf(argv)[Len(argv)]
    BY <1>2, <1>3, <1>5, InFrontFirst
  <2> QED  BY <1>4, <2>1, Zenon DEF ArgumentsInOrder
<1> QED  BY <1>1, <1>3, <1>4, <1>6 DEF OrderPlace

\* A call of arg_parser, and what main does with what it returns.
LEMMA KeepsOrder ==
    ASSUME DInv, OrderPlace, NEW rets, Takes(rets), pc' = "done" \/ (Continue /\ "error" \notin rets)
    PROVE  OrderPlace'
<1> DEFINE r == ArgParser
           x == InFront(current, shrt)
<1>1. /\ argv \in Seq(Seq(STRING)) /\ shrt \in Nat /\ parsingDone \in BOOLEAN /\ current \in 1 .. (Argc + 1)
      /\ current <= Argc /\ current # Argc /\ pc = "args"
  BY DEF DInv, DriverTypeOK, ArgsPlace, Takes
<1>2. Argv /\ Argv'
  <2>1. argv' = argv
    BY DEF Takes
  <2> QED  BY <1>1, <2>1, Zenon DEF Argv, Symbol
<1>3. Len(argv) \in Nat /\ Argc = Len(argv) + 1 /\ current \in 1 .. Len(argv)
  BY <1>1, LenProperties DEF Argc
<1>4. /\ argv' = argv /\ current' = r.current /\ shrt' = r.shrt /\ taken' = taken \o r.took
      /\ parsingDone' = (parsingDone \/ (shrt = 0 /\ Arg(current) = DashDash)) /\ r.ret \in rets
  BY DEF Takes
<1>5. /\ taken \in Seq(Symbol) /\ ArgumentsInOrder /\ (parsingDone => shrt = 0)
      /\ ShortPlace(current, shrt) /\ WithoutDashes(taken) = x
  BY <1>1 DEF OrderPlace
<1>6. Passes(r, x) /\ (parsingDone \/ (shrt = 0 /\ Arg(current) = DashDash) => r.shrt = 0)
  BY <1>1, <1>2, <1>3, <1>5, ArgParserPasses
<1> HIDE DEF r, x
<1> DEFINE w == r.took
<1>7. w \in Seq(Symbol)
  BY <1>6 DEF Passes
<1> HIDE DEF w
<1>8. taken \o w \in Seq(Symbol) /\ WithoutDashes(taken \o w) = WithoutDashes(taken) \o WithoutDashes(w)
  BY <1>5, <1>7, ConcatProperties, WithoutConcat
<1>9. CASE /\ r.current \in 1 .. Argc /\ ShortPlace(r.current, r.shrt)
           /\ InFront(r.current, r.shrt) = x \o WithoutDashes(r.took)
  <2> DEFINE i == r.current
             s == r.shrt
  <2>1. i \in 1 .. Argc /\ ShortPlace(i, s)
    BY <1>9
  <2> HIDE DEF i, s
  <2>2. /\ IsPrefix(InFront(i, s), SymbolsOf(argv)[Len(argv)])
        /\ i = Argc => InFront(i, s) = SymbolsOf(argv)[Len(argv)]
    BY <1>2, <2>1, InFrontFirst
  <2>3. WithoutDashes(taken') = InFront(i, s)
    BY <1>4, <1>5, <1>8, <1>9, Zenon DEF w, i, s
  <2>4. /\ IsPrefix(WithoutDashes(taken'), SymbolsOf(argv')[Len(argv')])
        /\ current' = Argc' => WithoutDashes(taken') = SymbolsOf(argv')[Len(argv')]
    <3>1. Argc' = Argc
      BY <1>4 DEF Argc
    <3> QED  BY <1>4, <2>2, <2>3, <3>1, Zenon DEF i
  <2>5. ArgumentsInOrder'
    BY <2>4, Zenon DEF ArgumentsInOrder
  <2>6. InFront(current, shrt)' = InFront(i, s)
    BY <1>4, Zenon DEF InFront, i, s
  <2>7. ShortPlace(current, shrt)'
    BY <1>4, <2>1, Zenon DEF ShortPlace, i, s
  <2>8. taken' \in Seq(Symbol)
    BY <1>4, <1>8, Zenon DEF w
  <2>9. parsingDone' => shrt' = 0
    BY <1>4, <1>6, Zenon
  <2> QED  BY <2>3, <2>5, <2>6, <2>7, <2>8, <2>9, Zenon DEF OrderPlace
<1>10. CASE r.took = <<>> /\ (r.ret = "error" \/ r.current > Argc)
  <2>1. taken' = taken
    BY <1>4, <1>5, <1>10, ConcatEmptySeq
  <2>2. pc' # "args"
    <3>1. Argc' = Argc
      BY <1>4 DEF Argc
    <3>2. CASE pc' = "done"
      BY <3>2
    <3>3. CASE Continue /\ "error" \notin rets
      <4>1. current' > Argc
        BY <1>4, <1>10, <3>3
      <4> QED  BY <3>1, <3>3, <4>1 DEF Continue
    <3> QED  BY <3>2, <3>3
  <2>3. ArgumentsInOrder'
    BY <1>4, <1>5, <2>1, <2>2, Zenon DEF ArgumentsInOrder
  <2> QED  BY <1>5, <2>1, <2>2, <2>3, Zenon DEF OrderPlace
<1> QED  BY <1>6, <1>9, <1>10, Zenon DEF Passes

\* The rest of main does not look at the arguments.
LEMMA KeepsTaken ==
    ASSUME OrderPlace, UNCHANGED <<argv, taken>>, pc' # "args"
    PROVE  OrderPlace'
<1>1. ArgumentsInOrder'
  BY Zenon DEF OrderPlace, ArgumentsInOrder
<1>2. taken' \in Seq(Symbol)
  BY Zenon DEF OrderPlace
<1> QED  BY <1>1, <1>2, Zenon DEF OrderPlace

LEMMA NextOrder == ASSUME DInv, OrderPlace, [DriverNext]_driverVars PROVE OrderPlace'
<1>1. CASE OutputArg \/ ExtraArg
  BY <1>1, KeepsOrder DEF OutputArg, ExtraArg
<1>2. CASE GenArg
  BY <1>2, KeepsOrder DEF GenArg
<1>3. CASE LastArg
  BY <1>3, KeepsOrder DEF LastArg, AfterLast
<1>4. CASE ArgsDone
  <2>1. argv' = <<>> /\ taken' = <<>> /\ pc' = "parse"
    BY <1>4 DEF ArgsDone
  <2> DEFINE e == <<>>
             T == {0}
  <2>2. e \in Seq(Seq(T)) /\ e \in Seq(Symbol) /\ Len(e) = 0
    BY EmptySeq
  <2>3. WithoutDashes(e) = e
    BY WithoutDash
  <2> HIDE DEF e, T
  <2>4. SymbolsOf(e)[0] = <<>>
    BY <2>2, SymbolsAre
  <2>5. IsPrefix(e, e)
    BY <2>2 DEF IsPrefix
  <2>6. ArgumentsInOrder'
    BY <2>1, <2>2, <2>3, <2>4, <2>5 DEF ArgumentsInOrder, e
  <2> QED  BY <2>1, <2>2, <2>6 DEF OrderPlace, e
<1>5. CASE Parse
  <2>1. UNCHANGED <<argv, taken>>
    BY <1>5 DEF Parse, NoArgs, argVars
  <2>2. memStatus' \in {"parsing", "accepted", "aborted"}
    BY <1>5, ParserStatus DEF Parse, DInv
  <2>3. pc' # "args"
    BY <1>5, <2>2 DEF Parse
  <2> QED  BY <2>1, <2>3, KeepsTaken
<1>6. CASE Output
  BY <1>6, KeepsTaken DEF Output, NoArgs, argVars
<1>7. CASE CloseInput
  BY <1>7, KeepsTaken DEF CloseInput, CloseFile, NoArgs, argVars
<1>8. CASE CloseOutput
  BY <1>8, KeepsTaken DEF CloseOutput, CloseFile, NoArgs, argVars
<1>9. CASE Clear
  <2>1. UNCHANGED <<argv, taken>> /\ pc' # "args"
    BY <1>9 DEF Clear, NoArgs, argVars
  <2> QED  BY <2>1, KeepsTaken
<1>10. CASE UNCHANGED driverVars
  <2>1. UNCHANGED <<argv, current, shrt, parsingDone, taken, pc>>
    BY <1>10 DEF driverVars, argVars
  <2>2. ArgumentsInOrder'
    BY <2>1, Zenon DEF OrderPlace, ArgumentsInOrder, Argc
  <2>3. (ShortPlace(current, shrt) => ShortPlace(current, shrt)') /\ InFront(current, shrt)' = InFront(current, shrt)
    BY <2>1, Zenon DEF ShortPlace, InFront
  <2> QED  BY <2>1, <2>2, <2>3, Zenon DEF OrderPlace
<1> QED  BY <1>1, <1>2, <1>3, <1>4, <1>5, <1>6, <1>7, <1>8, <1>9, <1>10 DEF DriverNext, ArgStep, Exited

\* For every command line, each letter, word and value is taken once and in
\* order, however options are bundled and values attached; and at the end of
\* argv all of it has been taken.
THEOREM ArgumentsKeepOrder == DriverSpec => []ArgumentsInOrder
<1>1. DriverInit => OrderPlace
  BY InitOrder
<1>2. DInv /\ OrderPlace /\ [DriverNext]_driverVars => OrderPlace'
  BY NextOrder
<1>3. OrderPlace => ArgumentsInOrder
  BY DEF OrderPlace
<1> QED  BY <1>1, <1>2, <1>3, DriverInductive, PTL DEF DriverSpec
=============================================================================
