-------------------------------- MODULE MCSvg --------------------------------
EXTENDS Svg

MCPoints == {[x |-> 0, y |-> 0], [x |-> 30, y |-> 7]}
MCRadii == {5}
MCSizes == {20}
MCFonts == {"", "Verdana"}

None   == [kind |-> "monostate", val |-> "none"]
White  == [kind |-> "string", val |-> "white"]
Under  == [kind |-> "rgba", val |-> <<255, 255, 255, 1>>]
Green  == [kind |-> "rgb", val |-> <<0, 128, 0>>]

(* the PathProps settings MapRender gives its objects: a bus line, a      *)
(* label's underlayer, a label's title and a stop circle                  *)
MCProps ==
    {[fill |-> [kind |-> "string", val |-> "none"], stroke |-> Green, width |-> <<14>>,
      cap |-> <<"ROUND">>, join |-> <<"ROUND">>],
     [fill |-> Under, stroke |-> Under, width |-> <<3>>, cap |-> <<"ROUND">>, join |-> <<"ROUND">>],
     [fill |-> Green, stroke |-> None, width |-> Unset, cap |-> Unset, join |-> Unset],
     [fill |-> White, stroke |-> None, width |-> Unset, cap |-> Unset, join |-> Unset]}

(* stop and bus names: one with special characters inside, one that      *)
(* starts with one                                                         *)
MCDatas == {<<"A", " ", "&", " ", "B">>, <<"<", "1", ">">>}

=============================================================================
