---------------------------- MODULE MCPageVideo ----------------------------
(***************************************************************************)
(* A page with a DASH object called "videocontainer", the live TV object   *)
(* called "video", a film, and a second live TV object with children, called*)
(* "playerObject".                                                         *)
(***************************************************************************)
EXTENDS PageVideo

MCOrder == <<"dash", "tv", "film", "tv2">>
MCType == [dash |-> "dash", film |-> "av", tv |-> "broadcast", tv2 |-> "broadcast"]
MCId == [dash |-> "videocontainer", film |-> "other", tv |-> "video", tv2 |-> "playerObject"]
MCRects == {<<0, 0>>, <<640, 360>>, <<600, 800>>, <<1280, 720>>}
MCPages ==
  LET Page(where, data, missing) ==
        [site |-> where, present |-> {"dash", "film", "tv"}, data |-> data, missing |-> missing]
  IN {Page("hbbtv.zdf.de", "url", {}), Page("hbbtv.daserste.de", "empty", {}),
      Page("hbbtv.daserste.de", "url", {"playerbar[0]", "playerbar[0].parent"})}
=============================================================================
