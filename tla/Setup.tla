-------------------------------- MODULE Setup --------------------------------
(***************************************************************************)
(* From the start of siege to the browsers' lists of URLs: the resource    *)
(* file (init.c, eval.c), the command line and the checks of the           *)
(* configuration (main.c, init.c), the URL list with its variables (cfg.c),*)
(* and the division of the list among the browsers (main.c).               *)
(*                                                                         *)
(* Texts are those of module Url; names of options and values are tokens.  *)
(* Their length, their case and the wording of numbers are left out.       *)
(***************************************************************************)
EXTENDS Url, Slices

CONSTANTS Trials,    \* which command lines siege is started with in which environment: the sets
                     \* lines of [opts: a sequence of [opt, arg], url] and disks of [env, files]
          Numeral,   \* the tokens that are numbers, with their value
          OneLetter, \* the tokens of one character
          HomeRc, SystemRc, DefaultUrls,   \* ~/.siege/siege.conf, CNF_FILE, URL_FILE
          MaxReps,   \* MAXREPS: repeat until the siege is over
          Zlib,      \* built with zlib
          Beyonds,   \* what may lie behind an option without a value in memory
          MaxPasses  \* where the count of the evaluations of one line stops

Switches == {"verbose", "quiet", "parser", "csv", "fullurl", "display-id", "logging", "show-logfile",
             "timestamp", "internet", "benchmark", "cache", "debug", "chunked", "unique", "json_output",
             "expire-session", "follow-location", "zero-data-ok", "spinner"}
Numbers == {"concurrent", "reps", "limit", "delay", "timeout", "attempts", "failures", "proxy-port",
            "ssl-timeout"}
Texts == {"logfile", "file", "url", "user-agent", "ssl-cert", "ssl-key", "ssl-ciphers", "proxy-host"}
Lists == {"nofollow", "login-url", "auth-url", "login", "ftp-login", "proxy-login", "header"}

ASSUME MaxReps \in Nat /\ MaxPasses \in Nat

\* The configuration before the resource file: memset, then the defaults of init_config.
Defaults ==
  [o \in Switches |-> o \in {"unique", "follow-location", "zero-data-ok"}]
  @@ [o \in Numbers |-> CASE o = "reps" -> MaxReps [] o = "limit" -> 255 [] o = "attempts" -> 5
                          [] o = "failures" -> 1024 [] o = "timeout" -> 30 [] o = "proxy-port" -> 3128
                          [] o = "ssl-timeout" -> 300 [] OTHER -> 0]
  @@ [o \in Texts |-> <<>>] @@ [o \in Lists |-> <<>>]
  @@ [secs |-> -1, color |-> TRUE, escaping |-> TRUE, keepalive |-> FALSE, protocol |-> FALSE,
      method |-> "HEAD", encoding |-> <<>>, conttype |-> <<>>, get |-> FALSE, print |-> FALSE,
      config |-> FALSE, mark |-> FALSE]

Lead(v) == IF v = <<>> THEN "" ELSE Head(v)
Atoi(v) == IF Lead(v) \in DOMAIN Numeral THEN Numeral[Lead(v)] ELSE 0

Unit == [u \in {"s", "m", "h"} |-> CASE u = "s" -> 1 [] u = "m" -> 60 [] u = "h" -> 3600]
\* parse_time: the first unit behind the digits counts, minutes without one.
Seconds(v) ==
  LET u == SelectInSeq(v, LAMBDA c : c \in DOMAIN Unit)
  IN IF Lead(v) \notin DOMAIN Numeral \/ Atoi(v) < 0 THEN 0
     ELSE Atoi(v) * (IF u = 0 THEN 60 ELSE Unit[v[u]])

-----------------------------------------------------------------------------
(* Variables: $NAME, ${NAME} or $(NAME), the name up to a closer or "/".   *)

Beyond(t) == After(t, Len(Until(t, {"$"})) + 1)
Reference(t) == IF Lead(Beyond(t)) \in {"{", "("} THEN Tail(Beyond(t)) ELSE Beyond(t)
Name(t) == Until(Reference(t), {"}", ")", "/"})

Value(vars, env, name) ==
  IF name \in DOMAIN vars THEN vars[name] ELSE IF name \in DOMAIN env THEN env[name] ELSE <<>>

\* evaluate: the first reference gives way to its value.  A "$" without a name is looked up
\* in the environment as NULL, and that ends the process (Fatal).
Evaluate(vars, env, t) ==
  LET rest == After(Reference(t), Len(Name(t)))
  IN Until(t, {"$"}) \o Value(vars, env, Name(t))
       \o (IF Lead(rest) \in {"}", ")"} THEN Tail(rest) ELSE rest)
Fatal(t) == Contains(t, "$") /\ Name(t) = <<>>

\* escape: the first backslash goes, wherever it stands.
Unescape(t) == Until(t, {"\\"}) \o After(t, Len(Until(t, {"\\"})) + 1)

\* Mutant: the last definition of a name stays.
HashPut(vars, name, value) == (name :> value) @@ vars

\* hash_add: the first definition of a name stays.
HashAdd(vars, name, value) == IF name \in DOMAIN vars THEN vars ELSE vars @@ (name :> value)

\* The loop of read_cfg_file over an entry: as many passes as it has "$"s, escapes first.
Expand(vars, env, entry) ==
  LET pass(s, dollar) ==
        IF s.dead \/ ~Contains(s.text, "$") THEN s
        ELSE IF Occurs(s.text, <<"\\", "$">>) THEN [s EXCEPT !.text = Unescape(@)]
        ELSE IF Fatal(s.text) THEN [s EXCEPT !.dead = TRUE]
        ELSE [s EXCEPT !.text = Evaluate(vars, env, @)]
  IN FoldLeft(pass, [text |-> entry, dead |-> FALSE], SelectSeq(entry, LAMBDA c : c = "$"))

-----------------------------------------------------------------------------
(* The lines of the two files.                                             *)

Separators == {" ", "=", ":"}

\* readline: a "#" starts a comment anywhere, but not in a login line.
Uncommented(t) == IF Lead(t) \in {"login", "login-url"} THEN t ELSE Until(t, {"#"})

OptionOf(t) == Until(t, Separators)
\* The value; an option that ends its line is followed by whatever lies behind it.
ValuesOf(t) == IF Len(OptionOf(t)) = Len(t) THEN Beyonds ELSE {Strip(After(t, Len(OptionOf(t))), Separators)}

\* parse: comments and blanks go, but blanks in front stay in the caller's line.
Parsed(line) ==
  LET indent == SubSeq(line, 1, Len(line) - Len(TrimLeft(line)))
      body   == Trim(line)
  IN indent \o (IF Lead(body) = "#" THEN <<>>
                ELSE IF Contains(body, "/") \/ ~Contains(body, " ") THEN body
                ELSE TrimRight(Until(body, {"#"})))

WordBreaks == Punct \cup {"$", "{", "}", "(", ")", "\\"}
IsVariableLine(t) == Contains(t, "=") /\ \A c \in ToSet(Until(t, {"="})) : c \notin WordBreaks

-----------------------------------------------------------------------------
(* The directives of the resource file.                                    *)

Assign(my, o, v) ==
  CASE o \in Switches       -> [my EXCEPT ![o] = Lead(v) = "true"]
    [] o \in Numbers        -> [my EXCEPT ![o] = Atoi(v)]
    [] o \in Texts          -> [my EXCEPT ![o] = v]
    [] o = "color"          -> [my EXCEPT !.color = v \notin {<<"false">>, <<"off">>}]
    [] o = "url-escaping"   -> [my EXCEPT !.escaping = Lead(v) # "false"]
    [] o = "connection"     -> [my EXCEPT !.keepalive = Lead(v) = "keep-alive"]
    [] o = "protocol"       -> [my EXCEPT !.protocol = Lead(v) = "HTTP/1.1"]
    [] o = "gmethod"        -> [my EXCEPT !.method = IF v = <<"GET">> THEN "GET" ELSE "HEAD"]
    [] o = "time"           -> [my EXCEPT !.secs = Seconds(v)]
    [] o = "accept-encoding" -> [my EXCEPT !.encoding = IF Contains(v, "gzip") /\ ~Zlib THEN @ ELSE v]
    [] o = "nofollow"       -> [my EXCEPT ![o] = IF Len(v) > 1 THEN Append(@, v) ELSE @]
    [] o \in Lists \ {"nofollow"} -> [my EXCEPT ![o] = Append(@, v)]

Directives == Switches \cup Numbers \cup Texts \cup Lists
              \cup {"color", "url-escaping", "connection", "protocol", "gmethod", "time", "accept-encoding"}

\* The texts the resource file left empty.
Completed(my) ==
  [my EXCEPT !.file = IF @ = <<>> THEN DefaultUrls ELSE @,
             !["user-agent"] = IF @ = <<>> THEN <<"Siege">> ELSE @,
             !.conttype = DefaultType,
             !.encoding = IF @ = <<>> THEN <<"*">> ELSE @,
             !.logfile = IF @ = <<>> THEN <<"siege.log">> ELSE @]

-----------------------------------------------------------------------------
(* The command line.                                                       *)

Take(my, a) ==
  CASE a.opt = "D" -> [my EXCEPT !.debug = TRUE]
    [] a.opt = "C" -> [my EXCEPT !.config = TRUE, !.get = FALSE]
    [] a.opt = "c" -> [my EXCEPT !.concurrent = Atoi(a.arg)]
    [] a.opt = "i" -> [my EXCEPT !.internet = TRUE]
    [] a.opt = "b" -> [my EXCEPT !.benchmark = TRUE]
    [] a.opt = "d" -> [my EXCEPT !.delay = IF Atoi(a.arg) < 0 THEN 0 ELSE Atoi(a.arg)]
    [] a.opt = "g" -> [my EXCEPT !.get = TRUE]
    [] a.opt = "p" -> [my EXCEPT !.print = TRUE, !.concurrent = 1, !.reps = 1]
    [] a.opt = "l" -> [my EXCEPT !.logging = TRUE, !.logfile = IF a.arg = <<>> THEN @ ELSE a.arg]
    [] a.opt = "m" -> [my EXCEPT !.mark = TRUE, !.logging = TRUE]
    [] a.opt = "q" -> [my EXCEPT !.quiet = TRUE]
    [] a.opt = "v" -> [my EXCEPT !.verbose = TRUE]
    [] a.opt = "r" -> [my EXCEPT !.reps = IF a.arg = <<"once">> THEN -1 ELSE Atoi(a.arg)]
    [] a.opt = "t" -> [my EXCEPT !.secs = Seconds(a.arg)]
    [] a.opt = "f" -> [my EXCEPT !.file = a.arg]
    [] a.opt = "A" -> [my EXCEPT !["user-agent"] = a.arg]
    [] a.opt = "T" -> [my EXCEPT !.conttype = a.arg]
    [] a.opt = "N" -> [my EXCEPT !.parser = FALSE]
    [] a.opt = "F" -> [my EXCEPT !["follow-location"] = FALSE]
    [] a.opt = "R" -> my
    [] a.opt = "H" -> [my EXCEPT !.header = Append(@, a.arg)]
    [] a.opt = "j" -> [my EXCEPT !["json_output"] = TRUE]

-----------------------------------------------------------------------------
(* ds_module_check, one of its conditions after the other.                 *)

Delayed(my) == IF my.benchmark THEN [my EXCEPT !.delay = 0] ELSE my
\* Mutant: a time ends --reps=once too.
TimedAlways(my) == IF my.secs > 0 THEN [my EXCEPT !.reps = MaxReps] ELSE my
Timed(my)   == IF my.secs > 0 /\ my.reps > 0 /\ my.reps # MaxReps THEN [my EXCEPT !.reps = MaxReps] ELSE my
Manned(my)  == IF my.concurrent <= 0 THEN [my EXCEPT !.concurrent = 1] ELSE my
Single(my)  == IF my.get
               THEN [my EXCEPT !.concurrent = 1, !.reps = 1, !.logging = FALSE, !.benchmark = TRUE] ELSE my
Hushed(my)  ==
  LET quiet == my.quiet \/ my["json_output"]
  IN IF quiet THEN [my EXCEPT !.quiet = TRUE, !.verbose = FALSE, !.debug = FALSE] ELSE my

\* Mutant: the two are told to be quiet in the wrong order.
CheckLate(my) ==
  LET c == Single(Manned(Timed(Delayed(my)))) IN IF c["json_output"] THEN [c EXCEPT !.quiet = TRUE] ELSE Hushed(c)
DsModuleCheck(my) == Hushed(Single(Manned(Timed(Delayed(my)))))

Capped(my) == IF my.concurrent > my.limit THEN [my EXCEPT !.concurrent = my.limit] ELSE my

-----------------------------------------------------------------------------
VARIABLES world,        \* what siege is started with
          my,           \* the configuration
          defs,         \* the variables of the file being read
          todo,         \* the lines left of that file
          args,         \* the options left of the command line
          line,         \* the directive being evaluated: option, value, passes; or NoLine
          entries,      \* the entries of the URL list
          expanded,     \* the last text that was evaluated: raw, with which definitions, result
          slices,       \* the entries each browser gets under --reps=once
          phase         \* "start", "rc", "args", "check", "urls", "divide", "run", "exit", "crash"

setupVars == <<world, my, defs, todo, args, line, entries, expanded, slices, phase>>

NoLine == [option |-> <<>>, value |-> <<>>, raw |-> <<>>, passes |-> 0]
NoText == [raw |-> <<>>, defs |-> <<>>, text |-> <<>>, entry |-> FALSE]
NoDefs == [n \in {} |-> <<>>]

Init ==
  /\ \E t \in Trials : \E d \in t.disks, l \in t.lines :
       world = [env |-> d.env, files |-> d.files, opts |-> l.opts, url |-> l.url]
  /\ my = Defaults /\ defs = NoDefs /\ todo = <<>> /\ args = <<>> /\ line = NoLine
  /\ entries = <<>> /\ expanded = NoText /\ slices = <<>> /\ phase = "start"

\* parse_rc_cmdline: the first -R; init_config: else SIEGERC, else the file in the home directory.
RcFile ==
  LET r == SelectInSeq(world.opts, LAMBDA a : a.opt = "R")
  IN CASE r > 0                           -> world.opts[r].arg
       [] r = 0 /\ <<"SIEGERC">> \in DOMAIN world.env -> world.env[<<"SIEGERC">>]
       [] OTHER -> IF HomeRc \in DOMAIN world.files THEN HomeRc ELSE SystemRc

\* main to the start of load_conf.
OpenRc ==
  /\ phase = "start"
  /\ IF RcFile \in DOMAIN world.files
     THEN todo' = world.files[RcFile] /\ phase' = "rc" ELSE phase' = "exit" /\ UNCHANGED todo
  /\ UNCHANGED <<world, my, defs, args, line, entries, expanded, slices>>

\* load_conf takes a line apart.
ReadRcLine ==
  /\ phase = "rc" /\ line = NoLine /\ todo # <<>>
  /\ todo' = Tail(todo)
  /\ LET t == Trim(Uncommented(Head(todo))) IN
     IF t = <<>> THEN UNCHANGED line
     ELSE \E v \in ValuesOf(t) : line' = [option |-> OptionOf(t), value |-> v, raw |-> v, passes |-> 0]
  /\ UNCHANGED <<world, my, defs, args, entries, expanded, slices, phase>>

\* One pass of one of its loops: until there is no "$" in the option, then none in the value.
EvaluateDirective ==
  /\ phase = "rc" /\ \E p \in {"option", "value"} : Contains(line[p], "$")
  /\ LET part == IF Contains(line.option, "$") THEN "option" ELSE "value" IN
     IF Fatal(line[part]) THEN phase' = "crash" /\ UNCHANGED line
     ELSE /\ line' = [line EXCEPT ![part] = Evaluate(defs, world.env, @),
                                  !.passes = IF @ = MaxPasses THEN @ ELSE @ + 1]
          /\ UNCHANGED phase
  /\ UNCHANGED <<world, my, defs, todo, args, entries, expanded, slices>>

\* A directive sets its option; any other word is a variable from here on.
Directive ==
  /\ phase = "rc" /\ line # NoLine
  /\ ~Contains(line.option, "$") /\ ~Contains(line.value, "$")
  /\ LET o == Lead(line.option) IN
     CASE Len(line.option) = 1 /\ o = "header" /\ ~Contains(line.value, ":") ->
            phase' = "exit" /\ UNCHANGED <<my, defs>>
       [] Len(line.option) = 1 /\ o \in Directives /\ (o = "header" => Contains(line.value, ":")) ->
            my' = Assign(my, o, line.value) /\ UNCHANGED <<defs, phase>>
       [] OTHER -> defs' = HashAdd(defs, line.option, line.value) /\ UNCHANGED <<my, phase>>
  /\ expanded' = [raw |-> line.raw, defs |-> defs, text |-> line.value, entry |-> FALSE]
  /\ line' = NoLine
  /\ UNCHANGED <<world, todo, args, entries, slices>>

EndOfRc ==
  /\ phase = "rc" /\ line = NoLine /\ todo = <<>>
  /\ my' = Completed(my) /\ defs' = NoDefs /\ args' = world.opts /\ phase' = "args"
  /\ UNCHANGED <<world, todo, line, entries, expanded, slices>>

\* parse_cmdline, one option; -V, -h and a header without ":" end the process.
Argument ==
  /\ phase = "args" /\ args # <<>>
  /\ args' = Tail(args)
  /\ LET a == Head(args) IN
     IF a.opt \in {"V", "h"} \/ (a.opt = "H" /\ ~Contains(a.arg, ":"))
     THEN phase' = (IF a.opt = "V" /\ my.debug THEN phase ELSE "exit") /\ UNCHANGED my
     ELSE my' = Take(my, a) /\ UNCHANGED phase
  /\ UNCHANGED <<world, defs, todo, line, entries, expanded, slices>>

\* The rest of __config_setup; -g needs a URL, -C only shows the configuration.
Configured ==
  /\ phase = "args" /\ args = <<>>
  /\ LET given == IF world.url = <<>> THEN my ELSE [my EXCEPT !.url = world.url] IN
     IF given.get /\ given.url = <<>> THEN my' = given /\ phase' = "exit"
     ELSE IF given.config THEN my' = DsModuleCheck(given) /\ phase' = "exit"
     ELSE my' = Capped(DsModuleCheck(given)) /\ phase' = "check"
  /\ UNCHANGED <<world, defs, todo, args, line, entries, expanded, slices>>

\* __urls_setup: the one URL, or the lines of a file.
OpenUrls ==
  /\ phase = "check"
  /\ CASE my.url # <<>> -> entries' = <<my.url>> /\ phase' = "divide" /\ UNCHANGED todo
       [] my.url = <<>> /\ my.file \in DOMAIN world.files ->
            todo' = world.files[my.file] /\ phase' = "urls" /\ UNCHANGED entries
       [] OTHER -> phase' = "exit" /\ UNCHANGED <<todo, entries>>
  /\ UNCHANGED <<world, my, defs, args, line, expanded, slices>>

\* read_cfg_file, one line.
ReadUrlLine ==
  /\ phase = "urls" /\ todo # <<>>
  /\ todo' = Tail(todo)
  /\ LET t == Parsed(Head(todo))
         got == Expand(defs, world.env, t)
     IN CASE t = <<>> -> UNCHANGED <<defs, entries, expanded, phase>>
          [] t # <<>> /\ IsVariableLine(t) ->
               /\ defs' = HashAdd(defs, OptionOf(t), Strip(After(t, Len(OptionOf(t))), Separators))
               /\ UNCHANGED <<entries, expanded, phase>>
          [] OTHER ->
               /\ expanded' = [raw |-> t, defs |-> defs, text |-> got.text, entry |-> TRUE]
               /\ IF got.dead THEN phase' = "crash" /\ UNCHANGED entries
                  ELSE entries' = Append(entries, got.text) /\ UNCHANGED phase
               /\ UNCHANGED defs
  /\ UNCHANGED <<world, my, args, line, slices>>

EndOfUrls ==
  /\ phase = "urls" /\ todo = <<>>
  /\ phase' = IF entries = <<>> THEN "exit" ELSE "divide"
  /\ UNCHANGED <<world, my, defs, todo, args, line, entries, expanded, slices>>

HasHost(text) == LET h == NewUrl(text).host IN h # <<>> /\ h \notin {<<c>> : c \in OneLetter}

\* main: every browser the whole list, or under --reps=once a slice of it each.
Divide ==
  /\ phase = "divide" /\ phase' = "run"
  /\ LET n == Len(entries)
         k == my.concurrent
         cut(i) == SelectSeq(SubSeq(entries, BeginUrl(i, n, k) + 1, EndUrl(i, n, k)), HasHost)
     IN slices' = IF my.reps > 0 THEN <<>> ELSE [i \in 1 .. k |-> cut(i - 1)]
  /\ UNCHANGED <<world, my, defs, todo, args, line, entries, expanded>>

Next ==
  \/ OpenRc \/ ReadRcLine \/ EvaluateDirective \/ Directive \/ EndOfRc \/ Argument \/ Configured
  \/ OpenUrls \/ ReadUrlLine \/ EndOfUrls \/ Divide

Spec == Init /\ [][Next]_setupVars

-----------------------------------------------------------------------------
Over == {"run", "exit", "crash"}

TypeOK ==
  /\ DOMAIN my = DOMAIN Defaults
  /\ \A o \in Switches : my[o] \in BOOLEAN
  /\ \A o \in Numbers : my[o] \in Int
  /\ phase \in Over \cup {"start", "rc", "args", "check", "urls", "divide"}

(***************************************************************************)
(* What the browsers are started with makes sense (ds_module_check,        *)
(* __config_setup): at least one user and not more than the limit, if the  *)
(* limit is positive; one URL or more; either a time or a number of        *)
(* repetitions to end after, but for -g, which asks once; nothing verbose  *)
(* about a quiet siege; no delay in a benchmark, but for the benchmark     *)
(* that -g makes of itself after the delay was looked at.                  *)
(***************************************************************************)
ConfigRunnable ==
  /\ TypeOK
  /\ phase = "run" =>
       /\ my.limit > 0 => my.concurrent \in 1 .. my.limit
       /\ entries # <<>>
       /\ my.secs > 0 /\ my.reps > 0 => my.reps = MaxReps \/ my.get
       /\ my.quiet => ~my.verbose /\ ~my.debug
       /\ my["json_output"] => my.quiet
       /\ my.benchmark /\ my.delay > 0 => my.get
       /\ my.get => my.concurrent <= 1 /\ my.reps = 1 /\ ~my.logging

\* An option and the last argument given with it.
Said(o) == \E i \in DOMAIN world.opts : world.opts[i].opt = o
Arg(o) == world.opts[SelectLastInSeq(world.opts, LAMBDA a : a.opt = o)].arg

(***************************************************************************)
(* The command line decides over the resource file, and where it does not  *)
(* there is a reason (main.c parses it after the file; ds_module_check     *)
(* comes after both): -r gives way to a time, -c to the limit, both to -g  *)
(* and -p, -d to a benchmark, -v and -D to a quiet siege, -l to -g.        *)
(***************************************************************************)
CommandLineWins ==
  phase = "run" =>
    /\ Said("c") /\ ~Said("g") /\ ~Said("p") =>
         LET n == IF Atoi(Arg("c")) <= 0 THEN 1 ELSE Atoi(Arg("c"))
         IN my.concurrent = IF n > my.limit THEN my.limit ELSE n
    /\ Said("r") /\ ~Said("g") /\ ~Said("p") =>
         LET n == IF Arg("r") = <<"once">> THEN -1 ELSE Atoi(Arg("r"))
         IN my.reps = IF my.secs > 0 /\ n > 0 THEN MaxReps ELSE n
    /\ Said("t") => my.secs = Seconds(Arg("t"))
    /\ Said("d") => LET n == IF Atoi(Arg("d")) < 0 THEN 0 ELSE Atoi(Arg("d"))
                   IN my.delay = n \/ (my.benchmark /\ my.delay = 0)
    /\ Said("q") \/ Said("j") => my.quiet
    /\ Said("v") => my.verbose = ~my.quiet
    /\ Said("D") => my.debug = ~my.quiet
    /\ Said("b") => my.benchmark
    /\ Said("i") => my.internet
    /\ Said("N") => ~my.parser
    /\ Said("F") => ~my["follow-location"]
    /\ Said("l") \/ Said("m") => my.logging = ~my.get
    /\ Said("l") /\ Arg("l") # <<>> => my.logfile = Arg("l")
    /\ Said("f") => my.file = Arg("f")
    /\ Said("A") => my["user-agent"] = Arg("A")
    /\ Said("T") => my.conttype = Arg("T")
    /\ Said("H") => Last(my.header) = Arg("H")
    /\ world.url # <<>> => entries = <<world.url>>

\* What a text should become: from left to right an escaped "$" is a "$" and a reference its
\* value, with no second look at either.
RECURSIVE Meant(_, _, _)
Meant(vars, env, t) ==
  LET c == Until(t, {"$", "\\"})
      r == After(t, Len(c))
      after == After(Reference(r), Len(Name(r)))
  IN IF r = <<>> THEN t
     ELSE IF IsPrefix(<<"\\", "$">>, r) THEN c \o <<"$">> \o Meant(vars, env, After(r, 2))
     ELSE IF Head(r) = "\\" THEN c \o <<"\\">> \o Meant(vars, env, Tail(r))
     ELSE c \o Value(vars, env, Name(r))
            \o Meant(vars, env, IF Lead(after) \in {"}", ")"} THEN Tail(after) ELSE after)

\* The value of the first line, of those read, that defines a name.
FirstDefinition(n) ==
  LET all  == world.files[my.file]
      read == SubSeq(all, 1, Len(all) - Len(todo))
      i    == SelectInSeq(read, LAMBDA l : IsVariableLine(Parsed(l)) /\ OptionOf(Parsed(l)) = n)
  IN Strip(After(Parsed(read[i]), Len(n)), Separators)

\* Where the passes go astray: an escaped "$" in front of a reference becomes one itself, a "$"
\* in a value is looked up again, and the first backslash need not be that of the "$".
Astray(t, vars) ==
  \/ \E i, j \in DOMAIN t : i + 1 < j /\ t[i] = "\\" /\ t[j] = "$" /\ t[j - 1] # "\\"
  \/ \E i \in DOMAIN t : t[i] = "\\" /\ (i = Len(t) \/ t[i + 1] # "$")
  \/ \E n \in DOMAIN vars : Contains(vars[n], "$")
  \/ \E n \in DOMAIN world.env : Contains(world.env[n], "$")

(***************************************************************************)
(* Variables are replaced by what they stood for when the line was read    *)
(* (evaluate, escape, and the loops around them in init.c and cfg.c): the  *)
(* first definition of a name, else the environment, else nothing.  No "$" *)
(* of the resource file is left.  Both loops end: that of the resource     *)
(* file unless the environment refers to itself.  Only a "$" without a     *)
(* name ends siege.                                                        *)
(***************************************************************************)
VariablesExpanded ==
  /\ ~expanded.entry => ~Contains(expanded.text, "$")
  /\ expanded # NoText /\ ~Astray(expanded.raw, expanded.defs) /\ phase # "crash" =>
       expanded.text = Meant(expanded.defs, world.env, expanded.raw)
  /\ phase = "urls" => \A n \in DOMAIN defs : defs[n] = FirstDefinition(n)
  /\ line.passes = MaxPasses => \E n \in DOMAIN world.env : Contains(world.env[n], "$")
  /\ phase = "crash" =>
       \/ Fatal(line.option) \/ Fatal(line.value) \/ Fatal(expanded.text)

(***************************************************************************)
(* Under --reps=once each entry with a host is requested by exactly one    *)
(* browser, in the order of the list, and no browser is given two entries  *)
(* more than another (the slices of main.c).                               *)
(***************************************************************************)
OnceCoversTheList ==
  phase = "run" /\ my.reps <= 0 /\ my.concurrent > 0 =>
    /\ FlattenSeq(slices) = SelectSeq(entries, HasHost)
    /\ \A i, j \in 0 .. my.concurrent - 1 :
         LET size(b) == EndUrl(b, Len(entries), my.concurrent) - BeginUrl(b, Len(entries), my.concurrent)
         IN size(i) <= size(j) + 1
=============================================================================
