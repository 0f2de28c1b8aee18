---------------------------- MODULE MCBotScheduler ----------------------------
(* Small instances of BotScheduler: three bots, with a human among them or not,*)
(* in an order that is not that of their guids, as a hash map yields them.     *)
EXTENDS BotScheduler

Mixed == <<1, 4, 2, 3, 5>>
Scrambled == <<3, 1, 2>>
================================================================================
