----------------------------- MODULE MCHostViews -----------------------------
(***************************************************************************)
(* Three hosts, two checks.  Texts: 1 and 2 are the ids of the checks, 1   *)
(* is a name of a check, too; 3 .. 9 are others.  The addresses have       *)
(* octets of 4 bits; one is above half of the range.  Some texts and the   *)
(* output of a critical check have what must be quoted.                    *)
(***************************************************************************)
EXTENDS WebExports

Record(name, display, ip, hostname, group) ==
  [name |-> name, display_name |-> display, ipv4 |-> ip, hostname |-> hostname, group |-> group,
   ip_text |-> IF ip = <<>> THEN 0 ELSE name + 10]

MCHostRecord == <<Record(5, 0, <<12, 0, 0, 1>>, 4, 7),
                  Record(3, 6, <<3, 15, 0, 2>>, 0, 8),
                  Record(4, 0, <<>>, 9, 7)>>

MCThreshold == <<1, 2>>

MCLimit == [f \in LimitFields |-> CASE f \in {"alerts", "host_page", "alert_page"} -> 2
                                    [] f = "stats" -> 6
                                    [] OTHER -> 2]

MCSpelling == [t \in 0 .. 20 |->
  CASE t = 0 -> <<>>
    [] t = 1 -> <<"a", ",", "b">>
    [] t = 5 -> <<"q", "c", "q">>
    [] t = 6 -> <<"d", "n">>
    [] OTHER -> <<ToString(t)>>]

MCOutput == [code \in ExitCodes |-> CASE code = 2 -> 6 [] code = 1 -> 5 [] OTHER -> 0]

MCSubstrings == {<<4, 14>>, <<4, 4>>, <<4, 5>>}
=============================================================================
