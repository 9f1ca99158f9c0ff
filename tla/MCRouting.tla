------------------------------ MODULE MCRouting ------------------------------
(* A catalogue of containers that collide, repeat themselves, carry malformed
   labels, ask for public, unmanaged and upper-case names and for names with
   outer dots or spaces, and have their preferred port ignored or unpublished.
   Names are generated under dev.test and looked up under test. *)
EXTENDS Routing

Tcp(p) == [port |-> p, protocol |-> "tcp"]
Udp(p) == [port |-> p, protocol |-> "udp"]

Container(name, compose, ports, labels) ==
  [name |-> name, compose |-> compose, parsed |-> <<"acme", "api">>, running |-> TRUE,
   ports |-> ports, malformed |-> {}, labels |-> labels @@ NoPreferences]

Plain == [domain |-> <<>>]

MCCatalogue == {
  Container(1, <<"acme", "api">>, <<Tcp(9000), Tcp(8080)>>, Plain),
  Container(2, <<"acme", "web">>, <<Tcp(3306), Tcp(80)>>, Plain),
  Container(3, <<"acme">>, <<Udp(53), Tcp(3000)>>, [priority |-> <<1>>]),
  [Container(4, <<"crm", "db">>, <<Tcp(9000)>>,
             [domain |-> <<<<"api", "acme", "dev", "test">>>>, priority |-> <<1>>,
              port |-> <<9000>>])
     EXCEPT !.malformed = {"priority", "port"}],
  Container(5, <<"crm", "web">>, <<Tcp(9000), Tcp(8080)>>,
            [domains |-> <<<<"api", "acme", "dev", "test">>, <<"crm", "dev", "test">>,
                           <<"api", "acme", "dev", "test">>>>, port |-> <<9000>>]),
  Container(6, <<"acme", "dns">>, <<Udp(80)>>, Plain),
  Container(7, <<"acme", "redis">>, <<Tcp(80)>>, [enable |-> <<TRUE>>]),
  Container(8, <<"acme", "api">>, <<Tcp(80)>>, [domain |-> <<<<"acme", "com">>>>]),
  Container(9, <<"acme", "api">>, <<Tcp(443)>>,
            [domains |-> <<<<"api", "local">>, <<"API", "acme", "dev", "test">>, <<"acme", "io">>,
                           <<"api", "test">>>>,
             root |-> <<FALSE>>, priority |-> <<0 - 1>>]),
  Container(10, <<"crm", "api">>, <<Tcp(80), Tcp(9000)>>, [port |-> <<7>>]),
  Container(11, <<"crm", "old">>, <<Tcp(3306), Tcp(9000)>>,
            [domain |-> <<<<"", "api", "dev", "test">>>>]),
  [Container(12, <<"acme", "api">>, <<Tcp(80)>>, Plain) EXCEPT !.running = FALSE]
}

MCOverrides ==
  <<"crm", "api">> :> ([enable |-> <<FALSE>>, root |-> <<TRUE>>, port |-> <<9000>>,
                         domains |-> <<<<" api", "dev", "test">>>>,
                         scheme |-> <<"https">>, priority |-> <<1>>] @@ NoPreferences)

MCSuffix == <<"dev", "test">>
MCManagedSuffix == <<"test">>
MCPreferredPorts == <<443, 80, 8080, 3000>>
MCFolded == "API" :> "api"
MCTrimmed == " api" :> "api"
==============================================================================
