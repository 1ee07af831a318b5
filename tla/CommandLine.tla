---------------------------- MODULE CommandLine ----------------------------
(***************************************************************************)
(* The command line of the elevated child (apply/elevate.go and            *)
(* app/runtime.go): windowsCommandLine joins and quotes the arguments for  *)
(* ShellExecuteEx, the child's Go runtime takes them apart again and its   *)
(* flag package reads the options.                                         *)
(*                                                                         *)
(* A string is a sequence of characters, of which the blank (a space or a  *)
(* tab), the backslash and the quote have a meaning; the name of a flag is *)
(* one character.                                                          *)
(***************************************************************************)
EXTENDS Naturals, Sequences

CONSTANTS
    Chars,       \* the characters, see StringsAssumption
    ConfigPath,  \* where config.json is, a string
    Dirs         \* what -install-dir or install_dir may be, <<>> for neither

Blank == " "
Backslash == "\\"
Quote == "\""
Backslashes(n) == [i \in 1 .. n |-> Backslash]

\* The flags of main: those that take a value, and those that do not.
Valued == {"-config", "-current-version", "-binary-path", "-install-dir", "-staging"}
Switches ==
    {"-check-once", "-json", "-quiet", "-version", "-notify", "-no-notify", "-install", "-no-dns",
     "-no-system-dns", "-no-service", "-configure", "-apply-config", "-apply-pending"}

Strings == Seq(Chars)

ASSUME StringsAssumption ==
    /\ {Blank, Backslash, Quote, "v"} \cup Valued \cup Switches \subseteq Chars
    /\ ConfigPath \in Strings /\ Dirs \subseteq Strings

-----------------------------------------------------------------------------
(* The parent *)

\* The options of an install: -no-dns, the directory, and -current-version.
\* -no-service goes the same way as -no-dns, -binary-path and -no-notify as
\* -current-version.
InstallOptions == [noDNS : BOOLEAN, dir : Dirs, current : BOOLEAN]
InstallSetsSystemDNS(configDNS, o) == configDNS /\ ~o.noDNS

ElevatedInstallArgs(configDNS, o) ==
    <<<<"-install">>, <<"-quiet">>, <<"-config">>, ConfigPath>>
    \o (IF InstallSetsSystemDNS(configDNS, o) THEN <<>> ELSE <<<<"-no-dns">>>>)
    \o (IF o.dir = <<>> THEN <<>> ELSE <<<<"-install-dir">>, o.dir>>)
    \o (IF o.current THEN <<<<"-current-version">>, <<"v">>>> ELSE <<>>)

\* One character more of what is between the quotes: the text written, and how
\* many backslashes it ends in.  They count double before a quote.
EscapeChar(w, c) ==
    CASE c = Backslash -> [text |-> Append(w.text, c), slashes |-> w.slashes + 1]
      [] c = Quote     -> [text |-> w.text \o Backslashes(w.slashes) \o <<Backslash, Quote>>,
                           slashes |-> 0]
      [] OTHER         -> [text |-> Append(w.text, c), slashes |-> 0]

Quoted(s) ==
    LET quoted[i \in 0 .. Len(s)] ==
          IF i = 0 THEN [text |-> <<Quote>>, slashes |-> 0] ELSE EscapeChar(quoted[i - 1], s[i])
    IN  quoted

NeedsQuote(s) == s = <<>> \/ \E i \in DOMAIN s : s[i] \in {Blank, Quote}

\* A bug: a run of backslashes at the end escapes the closing quote.
EscapeWindowsArg_NoTail(s) ==
    LET end == Quoted(s)[Len(s)]
    IN  IF NeedsQuote(s) THEN Append(end.text, Quote) ELSE s

\* The closing quote doubles the backslashes before it, too.
EscapeWindowsArg(s) ==
    LET end == Quoted(s)[Len(s)]
    IN  IF NeedsQuote(s) THEN end.text \o Backslashes(end.slashes) \o <<Quote>> ELSE s

\* The arguments, with blanks between them.
Join(line, args, i) ==
    (IF i = 1 THEN line ELSE Append(line, Blank)) \o EscapeWindowsArg(args[i])
Joined(args) ==
    LET joined[i \in 0 .. Len(args)] == IF i = 0 THEN <<>> ELSE Join(joined[i - 1], args, i)
    IN  joined
WindowsCommandLine(args) == Joined(args)[Len(args)]

-----------------------------------------------------------------------------
(* The child *)

\* What has been read of a command line: the arguments, the one being read,
\* whether it has begun, is between quotes, has just been closed by a quote, and
\* the backslashes read last.
NothingRead == [args |-> <<>>, arg |-> <<>>, begun |-> FALSE, quoted |-> FALSE,
                closed |-> FALSE, slashes |-> 0]

\* One character more (commandLineToArgv of package os): 2n backslashes before a
\* quote are n, one more makes the quote a character, and so does a second quote
\* right after one that closes.
ReadChar(r, c) ==
    LET flush == r.arg \o Backslashes(r.slashes)
        half == r.arg \o Backslashes(r.slashes \div 2)
    IN  CASE c = Backslash -> [r EXCEPT !.slashes = @ + 1, !.begun = TRUE, !.closed = FALSE]
          [] c = Quote /\ r.slashes % 2 = 1 ->
               [r EXCEPT !.arg = half \o <<Quote>>, !.slashes = 0, !.closed = FALSE]
          [] c = Quote /\ r.slashes % 2 = 0 /\ r.closed ->
               [r EXCEPT !.arg = half \o <<Quote>>, !.closed = FALSE]
          [] c = Quote /\ r.slashes % 2 = 0 /\ ~r.closed ->
               [r EXCEPT !.arg = half, !.slashes = 0, !.begun = TRUE,
                         !.quoted = ~@, !.closed = r.quoted]
          [] c = Blank /\ ~r.quoted ->
               [NothingRead EXCEPT !.args = IF r.begun THEN Append(r.args, flush) ELSE r.args]
          [] OTHER ->
               [r EXCEPT !.arg = flush \o <<c>>, !.slashes = 0, !.begun = TRUE, !.closed = FALSE]

Read(line) ==
    LET read[i \in 0 .. Len(line)] ==
          IF i = 0 THEN NothingRead ELSE ReadChar(read[i - 1], line[i])
    IN  read

\* A blank at the end changes nothing but that it ends an argument.
CommandLineToArgv(line) == Read(Append(line, Blank))[Len(line) + 1].args

\* flag.Parse.  What has been read: the flags, each with its value, <<>> for a flag
\* without one; the flag whose value comes next; and whether something that is no
\* flag has ended them.
NoFlags == [flags |-> {}, next |-> "", ended |-> FALSE]

ParseFlag(r, arg) ==
    LET expects(names) == r.next = "" /\ ~r.ended /\ \E f \in names : arg = <<f>>
    IN  CASE r.next # ""       -> [r EXCEPT !.flags = @ \cup {<<r.next, arg>>}, !.next = ""]
          [] expects(Valued)   -> [r EXCEPT !.next = arg[1]]
          [] expects(Switches) -> [r EXCEPT !.flags = @ \cup {<<arg[1], <<>>>>}]
          [] OTHER             -> [r EXCEPT !.ended = TRUE]

Parsed(argv) ==
    LET parsed[i \in 0 .. Len(argv)] ==
          IF i = 0 THEN NoFlags ELSE ParseFlag(parsed[i - 1], argv[i])
    IN  parsed
ParseFlags(argv) == Parsed(argv)[Len(argv)].flags

\* What main of the child makes of them.
ChildOptions(line) ==
    LET flags == ParseFlags(CommandLineToArgv(line))
        value(f) == IF \E v \in Dirs : <<f, v>> \in flags
                      THEN CHOOSE v \in Dirs : <<f, v>> \in flags ELSE <<>>
    IN  [noDNS |-> \E f \in {"-no-dns", "-no-system-dns"} : <<f, <<>>>> \in flags,
         dir |-> value("-install-dir"),
         current |-> <<"-current-version", <<"v">>>> \in flags]

-----------------------------------------------------------------------------
(* Properties *)

\* A child gets every argument as it was meant, whatever blanks,
\* quotes and backslashes the paths are made of, and installs as its parent would:
\* where the parent would, and pointing the system's DNS at the proxy just if the
\* parent would, whatever config.json says to the child ("-no-dns and
\* -no-system-dns skip the change for that run even when the config value is true").
InstallsAsAsked ==
    \A o \in InstallOptions, parentDNS, childDNS \in BOOLEAN :
        LET args == ElevatedInstallArgs(parentDNS, o)
            line == WindowsCommandLine(args)
            child == ChildOptions(line)
        IN  /\ CommandLineToArgv(line) = args
            /\ child.dir = o.dir /\ child.current = o.current
            /\ InstallSetsSystemDNS(childDNS, child)
                 = (childDNS /\ InstallSetsSystemDNS(parentDNS, o))
=============================================================================
