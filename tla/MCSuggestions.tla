------------------------------ MODULE MCSuggestions ------------------------------
(* Two domains of which one's label begins the other's; inputs of one, two, three*)
(* and four parts, right, wrong and incomplete.                                  *)
EXTENDS Suggestions

MCDomains == {[sld |-> "my", tld |-> "eth"], [sld |-> "mylogin", tld |-> "test"]}
In(sld, tld) == [node |-> "a", sld |-> sld, tld |-> tld, more |-> FALSE]
MCInputs ==
    {In(NoPart, NoPart), In("", NoPart), In("myl", NoPart), In("my", "e"), In("my", "tes"),
     In("", "e"), In("m@", "e"), In("my", "a"), 
     [In("my", NoPart) EXCEPT !.node = "-"], [In("my", "tes") EXCEPT !.more = TRUE]}
MCBegins ==
    {<<"", "my">>, <<"", "mylogin">>, <<"my", "my">>, <<"my", "mylogin">>, <<"myl", "mylogin">>,
     <<"mylogin", "mylogin">>, <<"", "eth">>, <<"e", "eth">>, <<"", "test">>, <<"tes", "test">>}
================================================================================
