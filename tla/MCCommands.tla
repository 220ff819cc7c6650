----------------------------- MODULE MCCommands -----------------------------
(***************************************************************************)
(* Two commands on one config.toml with two runners, one of them with TLS  *)
(* settings; or two jobs that call the helper.                             *)
(***************************************************************************)
EXTENDS Commands

MCOld == <<[token |-> "r1", tls |-> FALSE], [token |-> "r2", tls |-> TRUE]>>
MCNewToken(p) == p

MCConfigCalls ==
  {[name |-> "register", valid |-> FALSE, token |-> "none", leave |-> FALSE, tls |-> FALSE],
   [name |-> "register", valid |-> TRUE, token |-> "none", leave |-> FALSE, tls |-> TRUE],
   [name |-> "register", valid |-> TRUE, token |-> "none", leave |-> TRUE, tls |-> FALSE],
   [name |-> "register", valid |-> TRUE, token |-> "r1", leave |-> FALSE, tls |-> FALSE],
   [name |-> "unregister", which |-> "all"],
   [name |-> "unregister", which |-> "name", token |-> "r2"],
   [name |-> "unregister", which |-> "name", token |-> "nobody"],
   [name |-> "unregister", which |-> "token", token |-> "r2"],
   [name |-> "verify", token |-> "none", delete |-> TRUE],
   [name |-> "verify", token |-> "r1", delete |-> TRUE],
   [name |-> "verify", token |-> "none", delete |-> FALSE]}

MCLaterCalls == {[name |-> "verify", token |-> "none", delete |-> TRUE]}

MCHelperCalls ==
  {[name |-> "cache-archiver", paths |-> {"src", "obj"}, untracked |-> FALSE, url |-> TRUE],
   [name |-> "cache-archiver", paths |-> {"elsewhere"}, untracked |-> TRUE, url |-> FALSE],
   [name |-> "cache-extractor", url |-> TRUE], [name |-> "cache-extractor", url |-> FALSE],
   [name |-> "artifacts-uploader", paths |-> {"src", "obj"}, untracked |-> FALSE, format |-> "zip"],
   [name |-> "artifacts-uploader", paths |-> {"src"}, untracked |-> TRUE, format |-> "raw"],
   [name |-> "artifacts-downloader"]}

MCSymmetry == Permutations(Jobs)
=============================================================================
