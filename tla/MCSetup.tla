------------------------------- MODULE MCSetup -------------------------------
(* Setup on resource files of two directives, URL lists of up to three lines   *)
(* and command lines of two options.                                           *)
EXTENDS Setup

MCPortNumber == [t \in {"80"} |-> 80]
MCNumeral == [t \in {"-1", "0", "1", "2", "3", "5"} |->
                CASE t = "-1" -> -1 [] t = "0" -> 0 [] t = "1" -> 1 [] t = "2" -> 2 [] t = "3" -> 3 [] OTHER -> 5]

Urls1 == <<"urls", "txt">>
Other == <<"other", "txt">>
MCHomeRc == <<"home", "rc">>
MCSystemRc == <<"system", "rc">>
MCContentType == <<>>
MCBeyonds == { <<>>, <<"true">> }

Is(o, v) == <<o, " ", "=", " ">> \o v
Dollar(n) == <<"$", "{", n, "}">>

\* Resource files: every directive, then pairs of those that meet.
Plain ==
  { Is(o, <<"true">>) : o \in Switches } \cup { Is(o, <<"2">>) : o \in Numbers }
  \cup { Is(o, <<"a">>) : o \in {"user-agent", "ssl-cert", "url", "proxy-host", "auth-url", "login-url", "ftp-login"} }
  \cup { Is("file", Other), Is("color", <<"off">>), Is("url-escaping", <<"false">>), Is("gmethod", <<"GET">>),
         Is("connection", <<"keep-alive">>), Is("protocol", <<"HTTP/1.1">>), Is("accept-encoding", <<"gzip">>),
         Is("nofollow", <<"ads", ".", "com">>), Is("nofollow", <<"a">>), Is("header", <<"X", ":", "y">>),
         Is("header", <<"X">>), Is("limit", <<"0">>), Is("concurrent", <<"-1">>), Is("time", <<"5">>),
         <<"verbose">>, <<" ", "#", "x">>, <<"login", "=", "a", "#", "b">>, <<" ", "login", "=", "a", "#", "b">> }
Meeting ==
  { Is("time", <<"5", "s">>), Is("reps", <<"3">>), Is("limit", <<"1">>), Is("concurrent", <<"3">>),
    Is("benchmark", <<"true">>), Is("delay", <<"2">>), Is("quiet", <<"true">>), Is("verbose", <<"true">>),
    Is("json_output", <<"true">>), Is("debug", <<"true">>), Is("logging", <<"true">>), Is("time", <<"x">>) }
Variables ==
  { Is("ROOT", <<"a">>), Is("ROOT", <<"b">>), Is("ROOT", Dollar("HOME")), Is("file", Dollar("ROOT")),
    Is("file", Dollar("HOME") \o <<"/", "x">>), Is("logfile", <<"$", "ROOT", "/">> \o Dollar("LOG")),
    Is("file", Dollar("SELF")), Is("file", <<"$">>), <<"$", "(", "WHAT", ")", "=", "true">> }
RcFiles == { <<a>> : a \in Plain } \cup { <<a, b>> : a, b \in Meeting } \cup { <<a, b>> : a, b \in Variables }

\* URL lists.
Www == <<"www", ".", "org">>
HostRef == <<"http", ":", "/", "/", "$", "(", "HOST", ")", "/", "a">>
Lines ==
  { <<"HOST", "=">> \o Www, <<"HOST", "=", "cdn">>, <<"HOST", "=">> \o Dollar("HOME"), HostRef,
    HostRef \o <<"?", "p", "=", "\\", "$", "5">>, <<"a">> \o HostRef, <<"\\", "$", "5", "/">> \o HostRef,
    HostRef \o <<"&", "q", "=">> \o Dollar("HOME"), Www \o <<"/", "?", "q", "=", "$">>,
    <<" ", "#", "x">>, <<"#", "x">>, Www \o <<" ", "#", "x">>, <<"/", "x">>, <<>> }
Lists3 == { <<a, b>> : a, b \in Lines }
Hosts == <<Www, <<"cdn">>, <<"a">>, <<"/", "x">>, <<"www", ".", "net">>, <<"ftp", ".", "org">>, <<"last">>>>
UrlLists == Lists3 \cup { SubSeq(Hosts, 1, n) : n \in 0 .. 7 }

MCEnv == (<<"HOME">> :> <<"home">>) @@ (<<"LOG">> :> <<"log">>)
SelfEnv == MCEnv @@ (<<"SELF">> :> <<"$", "SELF">>)
RcEnv == MCEnv @@ (<<"SIEGERC">> :> MCSystemRc)

Opt(o, v) == [opt |-> o, arg |-> v]
Options ==
  { Opt(o, <<>>) : o \in {"D", "C", "i", "b", "g", "p", "l", "m", "q", "v", "N", "F", "j"} }
  \cup { Opt("c", <<"2">>), Opt("c", <<"0">>), Opt("r", <<"2">>), Opt("r", <<"once">>), Opt("t", <<"2", "m">>),
         Opt("d", <<"-1">>), Opt("d", <<"3">>), Opt("l", <<"log">>), Opt("f", Other), Opt("H", <<"Y", ":", "z">>) }
Alone == { Opt("V", <<>>), Opt("h", <<>>), Opt("H", <<"Y">>), Opt("A", <<"agent">>), Opt("T", <<"text">>),
           Opt("R", MCSystemRc), Opt("R", <<"none">>), Opt("f", <<"none">>) }

Files(rc, list) == (MCHomeRc :> rc) @@ (MCSystemRc :> <<Is("quiet", <<"true">>)>>) @@ (Urls1 :> list) @@ (Other :> <<Www>>)
Disk(rc) == [env |-> MCEnv, files |-> Files(rc, <<Www>>)]
Bare == Files(<<>>, <<Www>>)
Line(opts, url) == [opts |-> opts, url |-> url]
Once(k) == <<Opt("c", <<k>>), Opt("r", <<"once">>)>>
Trial(disks, lines) == [disks |-> disks, lines |-> lines]

MCTrials ==
  { Trial({Disk(rc) : rc \in RcFiles}, {Line(<<>>, <<>>), Line(<<>>, Www)}),
    Trial({Disk(<<a, b>>) : a, b \in Meeting}, {Line(<<o>>, Www) : o \in Options}),
    Trial({Disk(<<a>>) : a \in Meeting}, {Line(<<o, p>>, Www) : o, p \in Options}),
    Trial({Disk(<<a>>) : a \in Meeting}, {Line(<<o>>, url) : o \in Options \cup Alone, url \in {<<>>, Www}}),
    Trial({[env |-> MCEnv, files |-> Files(<<>>, list)] : list \in UrlLists},
          {Line(opts, <<>>) : opts \in {<<>>} \cup {Once(k) : k \in {"1", "2", "3", "5"}}}),
    Trial({[env |-> SelfEnv, files |-> Files(<<v>>, <<HostRef \o Dollar("SELF")>>)] : v \in Variables}
          \cup {[env |-> RcEnv, files |-> Bare]}
          \cup {[env |-> MCEnv, files |-> [f \in fs |-> Bare[f]]] : fs \in {{Urls1, MCSystemRc}, {Urls1}}},
          {Line(<<>>, <<>>)}) }
=============================================================================
