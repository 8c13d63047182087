------------------------------- MODULE Options -------------------------------
(***************************************************************************)
(* How main reads its command line, and what it starts.                    *)
(*                                                                         *)
(* Every option is looked up by a scan of its own over all the words, and  *)
(* the first hit counts.  Two programs of a benchmark are started by hand  *)
(* with two lines; nothing but these lines makes their tests match.        *)
(*                                                                         *)
(* get_direction and get_parallelism scan for -w, -r, -c and -double, and  *)
(* main does nothing with what they find.                                  *)
(*                                                                         *)
(* The lines of this module are built from options, flags and words that   *)
(* are neither; a value spelled like an option is left out.  The scans     *)
(* would take it for both.                                                 *)
(***************************************************************************)
EXTENDS Integers, Sequences

CONSTANTS
  Words,        \* values, and words that mean nothing to the program
  Number,       \* Number[w]: the number a word stands for, or NotANumber
  NotANumber,
  Missing,      \* the null pointer that follows the last word
  Default,      \* Default[o]: the value of an option that is not given
  IntMax,       \* the largest int
  SizeMax,      \* how many values a size_t has
  Offered,      \* bound: the options, flags and words tried, as sequences
  MaxGroups     \* bound: how many options, flags and words both lines have

ValueOptions == {"-serverip", "-datasize", "-numtuples", "-metric", "-connection"}
Flags        == {"-s", "-w", "-r", "-c", "-double"}
Program      == {"client", "server"}

ASSUME OptionsAssumption ==
  /\ Words \cap (ValueOptions \cup Flags) = {}
  /\ Missing \notin Words \cup ValueOptions \cup Flags
  /\ Default \in [ValueOptions -> Words]
  /\ DOMAIN Number = Words
  /\ \A w \in Words : Number[w] \in Int \/ Number[w] = NotANumber

-----------------------------------------------------------------------------
(* Reading a line.                                                         *)

Given(argv, name) == \E i \in DOMAIN argv : argv[i] = name

\* Variant of Hit: the last hit counts.
HitLast(argv, name) ==
  CHOOSE i \in DOMAIN argv : argv[i] = name /\ \A j \in DOMAIN argv : argv[j] = name => j <= i

\* The scans of get_arg_value and is_server stop at the first hit.
Hit(argv, name) ==
  CHOOSE i \in DOMAIN argv : argv[i] = name /\ \A j \in DOMAIN argv : argv[j] = name => i <= j

\* argv[i + 1], also if argv[i] is the last word.
After(argv, i) == IF i = Len(argv) THEN Missing ELSE argv[i + 1]

ArgValue(argv, name) ==
  IF Given(argv, name) THEN After(argv, Hit(argv, name)) ELSE Default[name]

\* What std::stoi accepts; a string cannot be made from a null pointer.
IsInt(w) == /\ w # Missing
            /\ Number[w] # NotANumber
            /\ Number[w] \in (0 - IntMax - 1)..IntMax

MetricOf(w)     == CASE w = "t" -> "throughput" [] w = "l" -> "latency" [] OTHER -> "all"
ConnectionOf(w) == IF w \in {"rdma", "tcp", "rpc"} THEN w ELSE "rdma"

IsServer(argv) == Given(argv, "-s")

\* Variant of Readable: the client's address is needed by the server as well.
ReadableByAll(argv) ==
  /\ \A o \in {"-datasize", "-numtuples"} : IsInt(ArgValue(argv, o))
  /\ \A o \in {"-metric", "-connection", "-serverip"} : ArgValue(argv, o) # Missing

\* Everything main reads before it creates the server or client.  Any of these
\* failing is an exception nobody catches.
Readable(argv) ==
  /\ \A o \in {"-datasize", "-numtuples"} : IsInt(ArgValue(argv, o))
  /\ \A o \in {"-metric", "-connection"} : ArgValue(argv, o) # Missing
  /\ IsServer(argv) \/ ArgValue(argv, "-serverip") # Missing

\* What main starts: nothing ("aborts", or "exits" for the path that is not
\* made yet), or the tests of one program.  The int becomes a size_t.
Started(argv) ==
  IF ~Readable(argv) THEN [kind |-> "aborts"]
  ELSE IF ConnectionOf(ArgValue(argv, "-connection")) = "rpc" THEN [kind |-> "exits"]
  ELSE [kind       |-> IF IsServer(argv) THEN "server" ELSE "client",
        connection |-> ConnectionOf(ArgValue(argv, "-connection")),
        metric     |-> MetricOf(ArgValue(argv, "-metric")),
        data_size  |-> Number[ArgValue(argv, "-datasize")] % SizeMax]

-----------------------------------------------------------------------------
(* Two people write two lines.                                             *)

VARIABLES
  argv,     \* argv[n]: the line of program n
  settings, \* settings[n]: what its writer means, as pairs of option and value
  groups    \* how many options, flags and words both lines have so far

vars == <<argv, settings, groups>>

\* A writer means an option the first time, and a later one to be ignored.
Means(n, name, value) ==
  IF \E s \in settings[n] : s[1] = name THEN settings[n] ELSE settings[n] \cup {<<name, value>>}

\* A line that ends in an option without its value cannot go on.
Open(n) == argv[n] = <<>> \/ argv[n][Len(argv[n])] \notin ValueOptions

Write(n, words, meant) ==
  /\ Open(n)
  /\ words \in Offered
  /\ groups < MaxGroups
  /\ groups' = groups + 1
  /\ argv' = [argv EXCEPT ![n] = @ \o words]
  /\ settings' = [settings EXCEPT ![n] = meant]

WriteOption(n, o, w) == Write(n, <<o, w>>, Means(n, o, w))
WriteFlag(n, f)      == Write(n, <<f>>, Means(n, f, f))
WriteWord(n, w)      == Write(n, <<w>>, settings[n])
WriteHalf(n, o)      == Write(n, <<o>>, Means(n, o, Missing))

\* The first word is the name of the program.
Init ==
  /\ argv = [n \in Program |-> <<"RdmaTests">>]
  /\ settings = [n \in Program |-> {}]
  /\ groups = 0

Next == \E n \in Program :
  \/ \E o \in ValueOptions, w \in Words : WriteOption(n, o, w)
  \/ \E f \in Flags : WriteFlag(n, f)
  \/ \E w \in Words : WriteWord(n, w)
  \/ \E o \in ValueOptions : WriteHalf(n, o)

Spec == Init /\ [][Next]_vars

-----------------------------------------------------------------------------
(* Properties.                                                             *)

\* What main reads is what was meant, in whatever order, with whatever words
\* in between and however often an option is repeated: no scan is misled by
\* the value of another option, and an option without a value is noticed.
ReadsSettings ==
  \A n \in Program :
    /\ \A o \in ValueOptions :
         \/ <<o, ArgValue(argv[n], o)>> \in settings[n]
         \/ ArgValue(argv[n], o) = Default[o] /\ ~\E s \in settings[n] : s[1] = o
    /\ \A f \in Flags : Given(argv[n], f) <=> <<f, f>> \in settings[n]

\* What a line is to what its writer means by it, T: one setting for each
\* option and flag that is there, and the value that main will find.
LineOK(line, T) ==
  /\ line \in Seq(Words \cup ValueOptions \cup Flags \cup {"RdmaTests"}) /\ line # <<>>
  /\ \A s, t \in T : s[1] = t[1] => s = t
  /\ \A name \in ValueOptions \cup Flags : Given(line, name) <=> \E s \in T : s[1] = name
  /\ \A o \in ValueOptions : Given(line, o) => <<o, ArgValue(line, o)>> \in T
  /\ \A f \in Flags : Given(line, f) => <<f, f>> \in T

\* What makes both properties inductive: what is written later changes nothing
\* about an option that is there.
LinesInv ==
  /\ DOMAIN argv = Program /\ DOMAIN settings = Program
  /\ \A n \in Program : LineOK(argv[n], settings[n])

\* The settings the tests of the two programs depend on.
Shared(n) == {s \in settings[n] : s[1] \in {"-datasize", "-numtuples", "-metric", "-connection"}}

\* Two programs whose lines have the same settings match: they run the same
\* tests, with the same data size and over the same transport, or neither runs
\* any -- unless the client lacks its address.  This is what the other modules
\* assume of two programs that belong together, and nothing else checks it.
StartAlike ==
  /\ Shared("client") = Shared("server")
  /\ ~IsServer(argv["client"]) /\ IsServer(argv["server"])
  /\ <<"-serverip", Missing>> \notin settings["client"]
  => LET c == Started(argv["client"]) s == Started(argv["server"]) IN
     IF s.kind = "server"
     THEN c = [s EXCEPT !.kind = "client"]
     ELSE c = s
=============================================================================
