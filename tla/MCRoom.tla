------------------------------- MODULE MCRoom -------------------------------
(* A light that speaks of hues, one that speaks of red, green and blue, a fan, a
   shaker, a fog machine and a seat; and what each of them is scored with. *)
EXTENDS Room

MCKind == [id \in {"hue", "lamp", "fan", "shaker", "fog", "seat"} |->
    CASE id \in {"hue", "lamp"} -> "light" [] id = "fan" -> "wind"
      [] id = "shaker" -> "shake" [] id = "fog" -> "fog" [] id = "seat" -> "motion"]

Point(t, v) == [t |-> t, value |-> v]
Curve(id, points) ==
    [instrument |-> id, type |-> "curve", space |-> "", step |-> FALSE, cues |-> <<>>, points |-> points]
Cue(t, params, duration) == [t |-> t, action |-> "hit", params |-> params, duration |-> duration]
Cues(id, cues) ==
    [instrument |-> id, type |-> "cue", space |-> "", step |-> FALSE, cues |-> cues, points |-> <<>>]

Amount(n) == [intensity |-> n]
Hsi(h, s, i) == [h |-> h, s |-> s, i |-> i]

Setting(tracks, rigs, films, levels, offered) ==
    [score |-> tracks, rigs |-> rigs, films |-> films, levels |-> levels, offered |-> offered]

MCSettings ==
    {Setting(<<Curve("lamp", <<Point(0, [r |-> 1000, g |-> 0, b |-> 0]),
                               Point(2000, [r |-> 0, g |-> 0, b |-> 0])>>)>>,
             {{"lamp"}}, {"a"}, {}, {"light-strobe"}),
     Setting(<<Curve("hue", <<Point(0, Hsi(900, 1000, 800)), Point(4000, Hsi(100, 1000, 0))>>)>>,
             {{"hue"}}, {}, {400}, {"light-lightning"}),
     Setting(<<Cues("shaker", <<Cue(0, Amount(500), 3000)>>), Curve("fan", <<>>)>>,
             {{"shaker", "fan"}, {"fan"}}, {}, {400}, {"wind-gust", "shake-stutter"}),
     Setting(<<Cues("fog", <<>>), Cues("seat", <<Cue(2000, [roll |-> 500], 0)>>)>>,
             {{"fog", "seat"}}, {}, {400}, {"fog-fade", "motion-drop"})}

\* A fan that the score says changes in steps.
MCSteps ==
    {Setting(<<[Curve("fan", <<Point(0, Amount(0)), Point(4000, Amount(1000))>>) EXCEPT !.step = TRUE]>>,
             {{"fan"}}, {}, {}, {})}

MCSeats == {"seat", "shaker"}
MCColours == {<<255, 128, 0>>, <<90, 90, 90>>}
=============================================================================
