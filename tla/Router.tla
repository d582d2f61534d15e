------------------------------- MODULE Router -------------------------------
(***************************************************************************)
(* server/Router.cpp with the routes that setupRoutes of server/main.cpp   *)
(* registers.  A route is a verb and a target; the target is compared as a *)
(* whole, query string included.                                           *)
(***************************************************************************)

(* addRouter, called for every route before the io threads start. *)
m_router_get == {"/", "/users/info", "/users/avatar"}
m_router_post ==
  {"/users/register", "/users/verify_code", "/users/login", "/users/avatar",
   "/users/password", "/users/bind",
   "/playlists", "/playlists/songs", "/playlists/add", "/playlists/erase",
   "/playlists/create", "/playlists/delete",
   "/history", "/history/add", "/history/erase", "/history/clear", "/history/like"}

HasRoute(request) ==
  \/ request.method = "GET" /\ request.target \in m_router_get
  \/ request.method = "POST" /\ request.target \in m_router_post

(* The statuses handleRouter may answer with, or, if the handler throws,   *)
(* Session::handleRequest.  A handler with a route is free to answer       *)
(* "handled", which stands for every status of its own.                    *)
Statuses(request) ==
  IF HasRoute(request) THEN {"handled", "internal_server_error"} ELSE {"not_found"}

(* The one handler that waits for another machine: sendVerifyCode sends a  *)
(* mail through libcurl without a time limit.                              *)
SendsMail(request) == request = [method |-> "POST", target |-> "/users/verify_code"]
=============================================================================
