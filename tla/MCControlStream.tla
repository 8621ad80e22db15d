-------------------------- MODULE MCControlStream --------------------------
(***************************************************************************)
(* Model checking of ControlStream with bytes of 4 bits: a varint has 1    *)
(* byte up to 3, 2 up to 63, 4 up to 16383 and 8 up to 2^30 - 1.  The      *)
(* numbers and lengths of the messages lie on both sides of each boundary. *)
(***************************************************************************)
EXTENDS ControlStream

Name == <<1, 2>>
Long == [i \in 1 .. 5 |-> i]   \* its length needs two bytes

ServerSetup(params)  == [type |-> "ServerSetup", body |-> [params |-> params]]
Announce(id, ns)     == [type |-> "Announce", body |-> [request_id |-> id, track_namespace |-> ns]]
AnnounceOk(id)       == [type |-> "AnnounceOk", body |-> [request_id |-> id]]
SubscribeError(id, code, reason) ==
    [type |-> "SubscribeError",
     body |-> [request_id |-> id, error_code |-> code, retry_interval |-> 0, reason |-> reason]]
SubscribeAnnounces(id, ns, params) ==
    [type |-> "SubscribeAnnounces",
     body |-> [request_id |-> id, track_namespace |-> ns, params |-> params]]
SubscribeOk(id, alias, expires, order, largest) ==
    [type |-> "SubscribeOk",
     body |-> [request_id |-> id, track_alias |-> alias, expires_ms |-> expires,
               group_order |-> order, content_exists |-> largest # <<0, 0>>,
               largest_group_id |-> largest[1], largest_object_id |-> largest[2]]]
Subscribe(id, ns, priority, jwt, extra) ==
    [type |-> "Subscribe",
     body |-> [request_id |-> id, track_namespace |-> ns, track_name |-> Name,
               priority |-> priority, group_order |-> 1, forward |-> 1,
               filter_type |-> kFilterLatestGroup, authorization |-> jwt, extra_params |-> extra]]

First == ServerSetup(<<>>)

\* One message of every kind after the setup, and two of the shortest.
MCScripts ==
    {<<First, m>> : m \in
        {SubscribeOk(2, 1, 0, 0, <<0, 0>>), SubscribeOk(64, 16384, 3, 2, <<4, 63>>),
         SubscribeError(3, 16383, Long), Announce(1, <<Name, <<>>>>),
         SubscribeAnnounces(5, <<>>, <<IntParam(4, 64), BytesParam(3, Name)>>),
         Subscribe(3, <<Name>>, 15, <<>>, <<>>),
         Subscribe(1073741823, <<Long>>, 0, Long, <<BytesParam(65281, Name)>>)}}
    \cup {<<First, AnnounceOk(3), AnnounceOk(4)>>,
          <<ServerSetup(<<IntParam(2, 100), BytesParam(1, Long)>>), Announce(7, <<>>)>>}

MCRequests ==
    <<Subscribe(0, <<Long>>, 8, Long, <<BytesParam(65281, <<0>>)>>),
      Announce(2, <<Name>>)>>

MCSetup == [path |-> <<15>>, max_subscribe_id |-> 100]
=============================================================================
