--------------------------------- MODULE Date ---------------------------------
(***************************************************************************)
(* Dates in headers (date.c).  A text is the sequence of its words, which  *)
(* is what skip() leaves of it: [kind |-> "name", name], [kind |->         *)
(* "number", val, digits, sign] or [kind |-> "time", sec, width], a width  *)
(* being how many characters it takes: 8 for 08:49:37, 7 for 8:49:37.  A   *)
(* time is <<days, seconds of the day>> from 1970 on, in GMT: the local    *)
(* time zone mktime goes through cancels out, but for hours around a       *)
(* change of the clocks.                                                   *)
(***************************************************************************)
EXTENDS Integers, Sequences, SequencesExt

Months == <<"Jan", "Feb", "Mar", "Apr", "May", "Jun", "Jul", "Aug", "Sep", "Oct", "Nov", "Dec">>
Wdays  == <<"Mon", "Tue", "Wed", "Thu", "Fri", "Sat", "Sun">>   \* wday
Weekdays == {"Sunday", "Monday", "Tuesday", "Wednesday", "Thursday", "Friday", "Saturday"}
\* tz, of which a few, in seconds to add; -1 is none.
TzOffset(name) ==
  CASE name \in {"GMT", "UTC", "WET"} -> 0 [] name = "BST" -> -3600 [] name = "EST" -> 18000
    [] name = "CET" -> -3600 [] OTHER -> -1

Before == <<0, 31, 59, 90, 120, 151, 181, 212, 243, 273, 304, 334>>
Leap(y) == y % 4 = 0 /\ (y % 100 # 0 \/ y % 400 = 0)
LeapDays(y) == ((y - 1) \div 4) - ((y - 1) \div 100) + ((y - 1) \div 400)

\* mktime, for a month counted from 0.
Days(year, mon, mday) ==
  365 * (year - 1970) + LeapDays(year) - LeapDays(1970) + Before[mon + 1]
  + (IF Leap(year) /\ mon > 1 THEN 1 ELSE 0) + mday - 1

\* gmtime: the year a day is in, near the one that years of 365 days would give, and the month.
YearOf(day) ==
  LET e == 1970 + (day \div 365)
  IN CHOOSE y \in e - 6 .. e + 1 : Days(y, 0, 1) <= day /\ day < Days(y + 1, 0, 1)
MonthOf(day, year) ==
  CHOOSE m \in 0 .. 11 : Days(year, m, 1) <= day /\ (m = 11 \/ day < Days(year, m + 1, 1))

Earlier(s, t) == s[1] < t[1] \/ (s[1] = t[1] /\ s[2] < t[2])

Bad == <<-1, 86399>>        \* the time -1

\* The words of a text.  Eight digits are a year, a month and a day.
Words == [kind : {"name"}, name : STRING]
         \cup { w \in [kind : {"number"}, val : Nat, digits : Nat, sign : STRING] :
                  w.digits = 8 => (w.val % 10000) \div 100 \in 1 .. 12 }
         \cup [kind : {"time"}, sec : { s \in Nat : s < 86400 }, width : 5 .. 8]
\* What servers send: a time has two digits for each number (and a second one would be read
\* as three numbers).
Texts == { t \in Seq(Words) : \A i, j \in DOMAIN t :
             t[i].kind = "time" => t[i].width = 8 /\ (t[j].kind = "time" => i = j) }

-----------------------------------------------------------------------------
\* __checkmonth
MonthNo(n) == SelectInSeq(Months, LAMBDA m : m = n) - 1

\* What __strtotime has read so far; -1 is unset, and which day of the week is never used.
Unread == [wday |-> -1, mon |-> -1, mday |-> -1, year |-> -1, tz |-> -1, sec |-> -1,
           next |-> "mday"]

Name(d, n) ==
  LET day == n \in ToSet(Wdays) \cup Weekdays
      mon == MonthNo(n)
  IN IF d.wday = -1 /\ day THEN [d EXCEPT !.wday = 0]
     ELSE IF d.mon = -1 /\ mon # -1 THEN [d EXCEPT !.mon = mon]
     ELSE IF d.tz = -1 /\ TzOffset(n) # -1 THEN [d EXCEPT !.tz = TzOffset(n)]
     ELSE [d EXCEPT !.next = "bad"]

\* A year becomes years since 1900, unless it is 1970.
Since1900(val) == IF val > 1970 THEN val - 1900 ELSE val

Number(d, w) ==
  LET zone == d.tz = -1 /\ w.digits = 4 /\ w.val < 1300 /\ w.sign # "none"
      off  == ((w.val \div 100) * 60 + (w.val % 100)) * 60
      e    == IF zone THEN [d EXCEPT !.tz = IF w.sign = "+" THEN -off ELSE off] ELSE d
      day  == e.next = "mday" /\ e.mday = -1
      f    == IF day THEN [e EXCEPT !.next = "year"] ELSE e
  IN IF w.digits = 8 /\ e.year = -1 /\ e.mon = -1 /\ e.mday = -1
     THEN [e EXCEPT !.year = w.val \div 10000, !.mon = ((w.val % 10000) \div 100) - 1, !.mday = w.val % 100]
     ELSE IF zone THEN e
     ELSE IF day /\ w.val \in 1 .. 31 THEN [f EXCEPT !.mday = w.val]
     ELSE IF f.next = "year" /\ f.year = -1
     THEN [f EXCEPT !.year = Since1900(w.val), !.next = IF f.mday = -1 THEN "mday" ELSE @]
     ELSE [f EXCEPT !.next = "bad"]

\* A time is passed over as eight characters.  One of seven ends with the space behind it; of
\* GMT, behind a shorter one that siege itself printed, MT or T is left, which is nothing.
Word(d, w) ==
  IF d.next = "bad" THEN d
  ELSE CASE w.kind = "name" -> Name(d, w.name)
         [] w.kind = "number" -> Number(d, w)
         [] w.kind = "time" -> [d EXCEPT !.sec = w.sec, !.next = IF w.width < 7 THEN "bad" ELSE @]

\* __strtotime: six words at most.
Strtotime(text) ==
  LET d == FoldLeft(Word, Unread, SubSeq(text, 1, IF Len(text) > 6 THEN 6 ELSE Len(text)))
      s == (IF d.sec = -1 THEN 0 ELSE d.sec) + (IF d.tz = -1 THEN 0 ELSE d.tz)
  IN IF text = <<>> THEN <<0, 0>>
     ELSE IF d.next = "bad" \/ d.mday = -1 \/ d.mon = -1 \/ d.year = -1 THEN Bad
     ELSE IF d.year > 2037 THEN <<24855, 11647>>
     ELSE <<Days(1900 + d.year, d.mon, d.mday) + (s \div 86400), s % 86400>>

-----------------------------------------------------------------------------
\* date_expired; an entity tag or no date at all counts as expired.
DateOf(text) == [kind |-> "date", at |-> Strtotime(text)]
Etag(tag) == [kind |-> "etag", tag |-> tag]

\* Mutant: a date is good for the rest of its day.
ExpiredTomorrow(d, now) == d.kind # "date" \/ d.at[1] < now[1]

Expired(d, now) == d.kind # "date" \/ Earlier(d.at, now)

\* How many digits %d prints, and characters %d:%d:%d.
Digits(n) == IF n < 10 THEN 1 ELSE IF n < 100 THEN 2 ELSE IF n < 1000 THEN 3 ELSE 4
Width(sec) == Digits(sec \div 3600) + Digits((sec % 3600) \div 60) + Digits(sec % 60) + 2

\* date_get_rfc850, from gmtime's fields: the name is that of the day after, the year counts
\* from 1900, and no number has a zero before it.
Rfc850(at) ==
  LET year == YearOf(at[1])
      mon  == MonthOf(at[1], year)
      abs(n) == IF n < 0 THEN -n ELSE n
      num(n) == [kind |-> "number", val |-> abs(n), digits |-> Digits(abs(n)),
                 sign |-> IF n < 0 THEN "-" ELSE "none"]
      word(n) == [kind |-> "name", name |-> n]
  IN IF year = 1900 THEN <<>>
     ELSE <<word(Wdays[((at[1] + 4) % 7) + 1]), num(at[1] - Days(year, mon, 1) + 1), word(Months[mon + 1]),
            num(year - 1900), [kind |-> "time", sec |-> at[2], width |-> Width(at[2])], word("GMT")>>
===============================================================================
