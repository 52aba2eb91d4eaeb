--------------------------- MODULE AgentRegistry ---------------------------
(***************************************************************************)
(* The handlers of the agent implement the registry of assets.  The tables *)
(* are the registry; a request lasts as long as its thread is busy, also   *)
(* when a create has turned into the deletion of its own asset.            *)
(***************************************************************************)
EXTENDS AssetAgent

Doing == [t \in Threads |->
  IF pc[t] = "idle" THEN "nothing" ELSE IF job[t].end = "KO" THEN "create" ELSE job[t].op]

Subject == [t \in Threads |-> IF Doing[t] \in {"create", "update"} THEN job[t].asset ELSE None]

R == INSTANCE Registry WITH
       Names <- Assets, Nobody <- None, Spared <- RC0, Clients <- Threads,
       assets <- rows, above <- parent, feeds <- links,
       doing <- Doing, subject <- Subject, answer <- reply

(* Whatever steps the handlers of asset-server.cc and of the legacy actor  *)
(* take, and however they interleave, each is one step of the registry or  *)
(* none: what DB::insert, DB::update and AssetImpl::remove do to the       *)
(* tables is what their own request may do.                                *)
ImplementsRegistry == R!Spec
=============================================================================
