-------------------------- MODULE MCNotifications --------------------------
(* A small instance of Notifications for TLC. *)
EXTENDS Notifications, TLC

(* Two triggers of one type. *)
SomeTriggers == <<"tell", "page", "combat">>
Types == "tell" :> "tell" @@ "page" :> "tell" @@ "combat" :> "combat"

=============================================================================
