------------------------------- MODULE MCCache -------------------------------
(* Cache with two hosts that share a path, a hash whose keys collide and a    *)
(* table that has to grow.                                                    *)
EXTENDS Cache

Paths == {"/a", "/b"}
MCUrls == { [host |-> "h", path |-> "/a"], [host |-> "i", path |-> "/a"], [host |-> "h", path |-> "/b"] }
MCKeys == Fields \X Paths
MCFnv == [k \in MCKeys |-> IF k = <<"expires", "/a">> THEN 3 ELSE IF k = <<"etag", "/b">> THEN 7 ELSE
                           IF k = <<"last-modified", "/a">> THEN 11 ELSE IF k[2] = "/a" THEN 4 ELSE 6]

N(n) == [kind |-> "name", name |-> n]
\* 18:00:00, which is printed 18:0:0, and 18:10:10.
Time == [kind |-> "time", sec |-> 64800, width |-> 8]
Round == [kind |-> "time", sec |-> 65410, width |-> 8]
V(v, d) == [kind |-> "number", val |-> v, digits |-> d, sign |-> "none"]
HttpDate(wday, mday, mon, year) == <<N(wday), V(mday, 2), N(mon), V(year, 4), Time, N("GMT")>>
Feb9  == HttpDate("Tue", 9, "Feb", 2016)
Mar1  == <<N("Tue"), N("Mar"), V(1, 1), Round, V(2016, 4)>>
Nov00 == <<N("Monday"), V(6, 2), N("Nov"), V(0, 2), Time, N("GMT")>>
Epoch == HttpDate("Thu", 1, "Jan", 1970)
Zero  == <<V(0, 1)>>

H(n, v) == [name |-> n, value |-> v]
MCAnswers ==
  { <<H("etag", "e1")>>, <<H("etag", "e2"), H("last-modified", Feb9), H("expires", Mar1)>>,
    <<H("expires", Feb9), H("etag", "")>>, <<H("expires", Zero), H("last-modified", Mar1)>>,
    <<H("last-modified", Epoch), H("expires", Epoch)>>, <<H("last-modified", Nov00), H("expires", Mar1)>>, <<>> }
MCVals == { Etag(t) : t \in {"e1", "e2", ""} } \cup { DateOf(t) : t \in {Feb9, Mar1, Nov00, Epoch, Zero} }
MCClock == << <<Days(2016, 1, 9), 64797>>, <<Days(2016, 1, 9), 64801>>, <<Days(2016, 2, 2), 0>> >>
===============================================================================
