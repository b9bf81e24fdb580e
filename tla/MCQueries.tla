----------------------------- MODULE MCQueries -----------------------------
(***************************************************************************)
(* A day of two hours of two minutes of two seconds.  The dates of the     *)
(* client are all days of years around leap years and centuries; the times *)
(* of posts are seconds around midnight of New Year 1971, and a day that   *)
(* 1971 does not have.                                                     *)
(***************************************************************************)
EXTENDS Queries

MCTexts == {<<1970, 12, 31, 1, 1, 0>>, <<1970, 12, 31, 1, 1, 1>>, <<1971, 1, 1, 0, 0, 0>>,
            <<1971, 1, 1, 0, 1, 1>>, <<1971, 2, 29, 0, 0, 0>>}
MCStarts == {MIN_DATETIME, <<1970, 12, 31, 1, 1, 1>>, <<1971, 1, 1, 0, 0, 0>>}
MCEnds == {<<1971, 1, 1, 0, 0, 0>>, <<1971, 2, 1, 0, 0, 0>>}

MCDates ==
  { d \in {1970, 1971, 1972, 1999, 2000, 2001, 2099, 2100, 2101, 2400} \X (1..12) \X (1..31) \X {<<0, 0, 0>>, <<1, 1, 1>>} :
      d[3] <= days_in_month(d[1], d[2]) }
MCClientDates == { <<d[1], d[2], d[3]>> \o d[4] : d \in MCDates }
MCRanges == {1, FromDdHhMmSs(1, 0, 0, 0), FromDdHhMmSs(29, 1, 0, 0), FromDdHhMmSs(366, 0, 1, 1)}
=============================================================================
