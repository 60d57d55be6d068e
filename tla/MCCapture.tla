----------------------------- MODULE MCCapture -----------------------------
(* Small instances of Capture for TLC. *)
EXTENDS Capture

MCKinds == {"stream", "readwrite", "file"}
MCScenes == {FileImage(1), FileImage(2)}
MCWindow == [x |-> 0, w |-> 1]

MCGeometry(g) == <<Req("window", g), Req("refresh", None), Req("window?", None)>>
MCPeriod(p) == <<Req("period", p), Req("period?", None)>>
MCAttr(k) == <<Req("attr", k), Req("attr?", k)>>
MCEmpty(k) == <<Req("attr=", k), Req("attr?", k)>>

MCCommands == {MCGeometry(Whole), MCGeometry(MCWindow), MCPeriod("on"), MCAttr("sync"),
               MCEmpty("Restart")}
MCOneScene == {FileImage(0)}
MCLiveKinds == {"stream", "file"}
MCLive == {MCPeriod("on"), <<Req("refresh", None)>>, MCEmpty("loop")}
=============================================================================
