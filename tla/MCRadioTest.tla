---------------------------- MODULE MCRadioTest ----------------------------
(* Instances of RadioTest for TLC: up to three values of each setting, the *)
(* refused ones too.                                                       *)
EXTENDS RadioTest

Entered ==
  {<<"mode", 2>>, <<"preamble", 2>>,
   <<"mcs", 5>>, <<"rate", 133>>, <<"len", 5000>>,
   <<"ruTone", 242>>, <<"ruIndex", 2>>, <<"power", 10>>, <<"power", 27>>,
   <<"power", 30>>, <<"capture", 100>>, <<"other", 1>>,
   <<"he", 1>>, <<"country", 2>>, <<"switch", 1>>, <<"xo", 1>>, <<"xo", 7>>}
=============================================================================
