-------------------------------- MODULE MCAuth --------------------------------
(* Auth for two browsers, four logins and a challenge of every sort. *)
EXTENDS Auth

MCLogins == << [scheme |-> "FTP",   text |-> <<"bob">>],
               [scheme |-> "PROXY", text |-> <<"pat", ":", "pw", ":", "px">>],
               [scheme |-> "HTTP",  text |-> <<"jeff", ":", "pw", ":", "r1">>],
               [scheme |-> "HTTP",  text |-> <<"joe", ":", "pw">>] >>
MCBeyond == <<"junk">>
MCLoginUrls == <<"u1", "u2">>
C(k, t, r, n, s) == [kind |-> k, type |-> t, realm |-> r, nonce |-> n, sound |-> s]
S(ms, cs) == [challenges |-> cs, methods |-> ms, login |-> FALSE]
MCSites ==
  { [S({"GET"}, { C("www", "BASIC", <<"r2">>, 0, TRUE) }) EXCEPT !.login = TRUE],
    S({"GET"}, { C("www", "BASIC", <<"r1">>, 0, TRUE), C("www", "BASIC", <<"r2">>, 0, TRUE) }),
    S({"GET"}, { C("www", "BASIC", <<"r1">>, 0, TRUE), C("proxy", "BASIC", <<"px">>, 0, TRUE) }),
    S({"GET"}, { C("www", "DIGEST", <<"r1">>, 5, TRUE), C("www", "BASIC", <<"r2">>, 0, TRUE) }),
    S({"POST"}, { C("www", "DIGEST", <<"r1">>, 5, TRUE), C("proxy", "DIGEST", <<"r2">>, 6, TRUE) }),
    S({"GET"}, { C("proxy", "DIGEST", <<>>, 5, TRUE), C("proxy", "BASIC", <<"r1">>, 0, TRUE),
                 C("proxy", "NTLM", <<>>, 0, TRUE) }),
    S({"GET"}, { C("www", "DIGEST", <<"r1">>, 5, FALSE) }),
    S({"GET"}, { C("www", "NTLM", <<>>, 0, TRUE), C("www", "NTLM", <<>>, 7, TRUE),
                 C("www", "NTLM", <<>>, 8, FALSE) }) }
MCSymmetry == Permutations(Browsers)
===============================================================================
