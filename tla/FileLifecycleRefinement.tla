----------------------- MODULE FileLifecycleRefinement -----------------------
(***************************************************************************)
(* FileLifecycle implements ShareService.  An upload is a share once its   *)
(* client has the link and the token; it is shared while its row and its   *)
(* bytes are in place; a download has found it once its row has been read. *)
(***************************************************************************)
EXTENDS FileLifecycle

shareState ==
    [u \in Requests |-> IF u \notin Acknowledged THEN "none"
                        ELSE IF Available(u) THEN "shared" ELSE "withdrawn"]

shareReleased == {u \in Requests : Ended(u)}

\* what a download of u has got: an answer other than 200 and 404 is no answer,
\* and bytes that are not u's are nothing ShareService allows
gotten(r) ==
    CASE req[r].status = "ok" /\ req[r].got = CopyOf(req[r].about) -> "file"
      [] req[r].status = "ok" /\ req[r].got # CopyOf(req[r].about) -> "garbage"
      [] req[r].status = "notFound" -> "miss"
      [] OTHER -> "nothing"

shareReading ==
    [r \in Requests |->
        IF req[r].op = "download" /\ req[r].about \in Acknowledged
        THEN [file |-> req[r].about, got |-> gotten(r)]
        ELSE [file |-> None, got |-> "nothing"]]

Abstract == INSTANCE ShareService WITH
    Shares <- Requests, Readers <- Requests,
    state <- shareState, released <- shareReleased, reading <- shareReading

\* The handlers and the cleanup loop together behave like a service in which a
\* file, once shared, is withdrawn only after its release, never comes back,
\* and is read whole or not at all.
ImplementsShareService == Abstract!ShareSpec
==============================================================================
