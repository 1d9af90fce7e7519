------------------------------- MODULE Driver -------------------------------
(***************************************************************************)
(* The program: main.c takes its arguments from arg_parser.c one at a time *)
(* and opens files as it meets them, parses (AstMemory), writes the output *)
(* of a parse that succeeded, closes what it opened and frees the AST.     *)
(*                                                                         *)
(* An argument is a sequence of symbols: "-", the letter of an option, and *)
(* words: an option's long name, a format, the name of a file.             *)
(***************************************************************************)
EXTENDS AstMemory, Integers

CONSTANT Argvs      \* argument vectors, without the program's own name
ASSUME ArgvsAssumption == Argvs \subseteq Seq(Seq(STRING))

VARIABLES
    argv,
    current,        \* current_arg
    shrt,           \* the place in the current argument, 0 for NULL
    parsingDone,    \* parsing_done: a -- has been met
    taken,          \* the symbols arg_parser has returned so far (history)
    in, out,        \* a place in files, Standard or Null
    files,          \* what fopen has opened
    format,         \* out_format
    output,         \* "none", "buffered", "flushed"
    pc              \* where main is; "overrun" is a read behind argv

argVars == <<current, shrt, parsingDone, taken>>
fileVars == <<in, out, files, format, output>>
driverVars == <<argv, argVars, fileVars, pc, memVars>>

Standard == 0       \* stdin, stdout
Null == -1          \* fopen has failed

DriverInit ==
    /\ argv \in Argvs /\ current = 1 /\ shrt = 0 /\ parsingDone = FALSE /\ taken = <<>>
    /\ in = Standard /\ out = Standard /\ files = <<>> /\ format = "assembler" /\ output = "none"
    /\ pc = "args" /\ MemInit

(***************************** The next argument ***************************)
\* bcc_args.
Options == {[lng |-> "output", shrt |-> "o", hasArg |-> TRUE],
            [lng |-> "gen", shrt |-> "x", hasArg |-> TRUE],
            [lng |-> "help", shrt |-> "h", hasArg |-> FALSE],
            [lng |-> "version", shrt |-> "v", hasArg |-> FALSE]}

\* What arg_parser returns, argarg, the state it leaves, and what it has taken
\* from argv.  Behind the last argument is argv's NULL, and then no argv.
Argc == Len(argv) + 1
Arg(i) == IF i < Argc THEN argv[i] ELSE <<>>
Ret(ret, arg, cur, s, took) == [ret |-> ret, arg |-> arg, current |-> cur, shrt |-> s, took |-> took]
Err(cur, s) == Ret("error", <<>>, cur, s, <<>>)
LoadExtraArg(i) == Ret("extra", Arg(i), i + 1, 0, Arg(i))
\* An option, and the whole argument i if it takes a value.
MayHaveValue_Always(i) == TRUE
MayHaveValue(i) == i # Argc
WithValue(opt, sym, i) ==
    IF ~opt.hasArg THEN Ret(opt.lng, <<>>, i, 0, <<sym>>)
    ELSE IF MayHaveValue(i) THEN Ret(opt.lng, Arg(i), i + 1, 0, <<sym>> \o Arg(i))
    ELSE Err(i, 0)

HandleLongArg ==
    LET name == SubSeq(Arg(current), 3, Len(Arg(current)))
        named == {opt \in Options : <<opt.lng>> = name}
    IN  IF named = {} THEN Err(current + 1, 0)
        ELSE LET opt == CHOOSE o \in named : TRUE IN WithValue(opt, opt.lng, current + 1)

\* The rest of an argument is the value.
Attached_Kept(opt, rest) == Ret(opt.lng, rest, current, 0, <<opt.shrt>> \o rest)
Attached(opt, rest) == Ret(opt.lng, rest, current + 1, 0, <<opt.shrt>> \o rest)
HandleShortArg(s) ==
    LET cur == Arg(current)
        found == {opt \in Options : opt.shrt = cur[s]}
        opt == CHOOSE o \in found : TRUE
    IN  IF found = {} THEN Err(current, s)
        ELSE IF s = Len(cur) THEN WithValue(opt, opt.shrt, current + 1)
        ELSE IF opt.hasArg THEN Attached(opt, SubSeq(cur, s + 1, Len(cur)))
        ELSE Ret(opt.lng, <<>>, current, s + 1, <<opt.shrt>>)

DashDash == <<"-", "-">>
ArgParser ==
    LET cur == Arg(current)
        dash == cur # <<>> /\ cur[1] = "-" /\ shrt = 0
    IN  CASE parsingDone -> LoadExtraArg(current)
          [] ~parsingDone /\ dash /\ cur = DashDash -> LoadExtraArg(current + 1)
          [] ~parsingDone /\ dash /\ cur # DashDash /\ IsPrefix(DashDash, cur) -> HandleLongArg
          [] ~parsingDone /\ dash /\ ~IsPrefix(DashDash, cur) /\ Len(cur) > 1 -> HandleShortArg(2)
          [] ~parsingDone /\ shrt # 0 -> HandleShortArg(shrt)
          [] OTHER -> LoadExtraArg(current)

(******************************* main's loop *******************************)
\* One call of arg_parser.
Takes(rets) ==
    LET r == ArgParser
    IN  /\ pc = "args" /\ current # Argc /\ r.ret \in rets
        /\ current' = r.current /\ shrt' = r.shrt /\ taken' = taken \o r.took
        /\ parsingDone' = (parsingDone \/ (shrt = 0 /\ Arg(current) = DashDash))
        /\ UNCHANGED <<argv, output, memVars>>
Continue == pc' = (IF current' > Argc THEN "overrun" ELSE "args")

\* fopen gives a new file, or fails.
Fopen(f, mode) ==
    \/ f = Len(files) + 1 /\ files' = Append(files, [mode |-> mode, open |-> TRUE])
    \/ f = Null /\ UNCHANGED files
Handles == {Null} \cup 1..(Len(files) + 1)

OutputArg ==
    /\ Takes({"output"}) /\ Continue
    /\ \E f \in Handles : Fopen(f, "w+") /\ out' = f
    /\ UNCHANGED <<in, format>>
ExtraArg ==
    /\ Takes({"extra"}) /\ Continue
    /\ \E f \in Handles : Fopen(f, "r") /\ in' = f
    /\ UNCHANGED <<out, format>>
\* A format nobody knows changes nothing.
Formats == {"assembler", "text", "ast"}
GenArg ==
    /\ Takes({"gen"}) /\ Continue
    /\ format' = IF \E f \in Formats : ArgParser.arg = <<f>> THEN Head(ArgParser.arg) ELSE format
    /\ UNCHANGED <<in, out, files>>
\* help, version, and a bad argument: main returns.
AfterLast_Continues == "args"
AfterLast == "done"
LastArg ==
    /\ Takes({"help", "version", "error"}) /\ pc' = AfterLast
    /\ UNCHANGED <<in, out, files, format>>
\* The arguments are not looked at again, and the model forgets them.
ArgsDone ==
    /\ pc = "args" /\ current = Argc /\ pc' = "parse"
    /\ argv' = <<>> /\ current' = 1 /\ shrt' = 0 /\ parsingDone' = FALSE /\ taken' = <<>>
    /\ UNCHANGED <<fileVars, memVars>>

(************************* Parse, write, close, clear **********************)
NoArgs == UNCHANGED <<argv, argVars>>
\* bcc_ast_parse: flex reads stdin when in is NULL.
Parse ==
    /\ pc = "parse" /\ ParserStep
    /\ pc' = CASE memStatus' = "accepted" -> "output"
               [] memStatus' = "aborted" -> "closeIn"
               [] memStatus' = "parsing" -> "parse"
    /\ NoArgs /\ UNCHANGED fileVars
\* bcc_ast_out into out's buffer.  Writing to NULL ends the process, and so may
\* a dump, for a node no function of its table prints.
Output ==
    /\ pc = "output"
    /\ \/ out # Null /\ output' = "buffered" /\ pc' = "closeIn"
       \/ (out = Null \/ format # "assembler") /\ pc' = "fault" /\ UNCHANGED output
    /\ NoArgs /\ UNCHANGED <<in, out, files, format, memVars>>
\* if (f != std) fclose(f): what is buffered is written; fclose(NULL) ends the
\* process.
CloseFile(f, next) ==
    /\ pc' = IF f = Null THEN "fault" ELSE next
    /\ files' = IF f \in DOMAIN files THEN [files EXCEPT ![f].open = FALSE] ELSE files
    /\ output' = IF f = out /\ f \in DOMAIN files /\ output = "buffered" THEN "flushed" ELSE output
    /\ NoArgs /\ UNCHANGED <<in, out, format, memVars>>
CloseInput_IfAccepted ==
    /\ pc = "closeIn"
    /\ IF memStatus = "accepted" THEN CloseFile(in, "closeOut")
       ELSE pc' = "closeOut" /\ NoArgs /\ UNCHANGED <<fileVars, memVars>>
CloseInput == pc = "closeIn" /\ CloseFile(in, "closeOut")
CloseOutput_LeftToExit ==
    pc = "closeOut" /\ pc' = "clear" /\ NoArgs /\ UNCHANGED <<fileVars, memVars>>
CloseOutput == pc = "closeOut" /\ CloseFile(out, "clear")
\* bcc_ast_clear.  Freeing twice aborts the process, and stdout's buffer is lost;
\* an exit writes it.
Clear ==
    /\ pc = "clear" /\ ClearStep
    /\ pc' = CASE memStatus' = "cleared" -> "done"
               [] memStatus' = "doubleFree" -> "fault"
               [] OTHER -> "clear"
    /\ output' = IF pc' = "done" /\ output = "buffered" THEN "flushed" ELSE output
    /\ NoArgs /\ UNCHANGED <<in, out, files, format>>

\* The process has ended.
Exited == pc \in {"done", "fault", "overrun"} /\ UNCHANGED driverVars

ArgStep == OutputArg \/ ExtraArg \/ GenArg \/ LastArg \/ ArgsDone
DriverNext == ArgStep \/ Parse \/ Output \/ CloseInput \/ CloseOutput \/ Clear \/ Exited
\* The loop over the arguments waits for nobody.
DriverSpec == DriverInit /\ [][DriverNext]_driverVars /\ WF_driverVars(ArgStep)

(******************************* Properties ********************************)
DriverTypeOK ==
    /\ current \in 1..(Argc + 1) /\ shrt \in Nat /\ parsingDone \in BOOLEAN
    /\ files \in Seq([mode: {"r", "w+"}, open: BOOLEAN])
    /\ {in, out} \subseteq {Null, Standard} \cup DOMAIN files
    /\ format \in Formats /\ output \in {"none", "buffered", "flushed"}
    /\ pc \in {"args", "parse", "output", "closeIn", "closeOut", "clear", "done", "fault", "overrun"}
    /\ MemTypeOK

\* Every letter, word and value of argv is taken exactly once and in order,
\* however the options are bundled and their values attached, up to the one
\* that ends the loop (arg_parser.c's current_arg and shrt together).
WithoutDashes(syms) ==
    LET kept[k \in 0 .. Len(syms)] ==
            IF k = 0 THEN <<>>
            ELSE IF syms[k] = "-" THEN kept[k - 1] ELSE Append(kept[k - 1], syms[k])
    IN  kept[Len(syms)]
\* Those of the first i arguments, for each i.
SymbolsOf(args) ==
    LET upTo[i \in 0 .. Len(args)] ==
            IF i = 0 THEN <<>> ELSE upTo[i - 1] \o WithoutDashes(args[i])
    IN  upTo
ArgumentsInOrder ==
    LET all == SymbolsOf(argv)[Len(argv)]
        sofar == WithoutDashes(taken)
    IN  /\ IsPrefix(sofar, all)
        /\ pc = "args" /\ current = Argc => sofar = all

\* arg_parser reads behind argv only when a -- is its last argument
\* (arg_parser.c:98-101); a missing value is noticed.
StaysInArgv == pc = "overrun" => Last(argv) = DashDash

\* main leaves a file open only when a later argument has replaced it, or when
\* it returns before the parse (help, a bad argument), and closes none it does
\* not know: no input is closed before the output is written, and each mode goes
\* with its use.
FilesClosed ==
    /\ pc = "done" /\ memStatus = "cleared" =>
          \A f \in DOMAIN files : files[f].open => f \notin {in, out}
    /\ pc \in {"parse", "output"} => \A f \in {in, out} \cap DOMAIN files : files[f].open
    /\ in \in DOMAIN files => files[in].mode = "r"
    /\ out \in DOMAIN files => files[out].mode = "w+"

\* What has been generated reaches its file, whatever happens later, except
\* for an input that could not be opened (main.c:80 closes NULL before the
\* output) and an AST that frees twice with the output in stdout's buffer.
OutputSurvives ==
    /\ pc = "done" => output # "buffered"
    /\ pc = "fault" /\ output = "buffered" => in = Null \/ (out = Standard /\ undone > 0)

\* The loop over the arguments ends for every argv.
ArgsEnd == <>(pc # "args")
=============================================================================
