----------------------------- MODULE MCSession -----------------------------
(* Small instances of Session for TLC. *)
EXTENDS Session, TLC
CONSTANT p1

MCTrig == {"TCMD", "TECHO", "TOPEN", "USER"}
MCMethods == {"new", "open", "openwait", "close", "post", "command", "untimed",
              "illegal", "sync", "timeout"}
MCProcedural == {"new", "open", "trigdef", "trigwait", "trigask", "trigdrop", "timeout",
                 "case", "do", "close"}
=============================================================================
