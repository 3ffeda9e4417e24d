-------------------------- MODULE MCParsePipeline --------------------------
(* Texts of up to three lines of every kind over an empty document, and    *)
(* one-line texts over the documents of two interfaces, up to two OSPF     *)
(* processes and up to two BGP instances.                                  *)
EXTENDS ParsePipeline, FiniteSets

MCIfaces == {"Gi1", "Gi2"}
MCVrfs == {"RED"}
MCSteps == 2

Top == [depth : {"top"}, no : {FALSE}, by : {"value"}, step : {1}, fails : BOOLEAN,
        known : {TRUE}, registered : BOOLEAN, listed : {TRUE}, benign : {FALSE}]
       \cup [depth : {"top"}, no : BOOLEAN, by : {"nobody"}, step : {0}, fails : {FALSE},
             known : {FALSE}, registered : {FALSE}, listed : {TRUE}, benign : {FALSE}]
       \cup [depth : {"top"}, no : {FALSE}, by : {"value"}, step : {0}, fails : BOOLEAN,
             known : {TRUE}, registered : {FALSE}, listed : {TRUE}, benign : {FALSE}]
Positive == [depth : {"child", "below"}, no : {FALSE}, by : {"value"}, step : {1}, fails : BOOLEAN,
             known : {FALSE}, registered : {FALSE}, listed : {TRUE}, benign : {FALSE}]
            \cup [depth : {"child", "below"}, no : {FALSE}, by : {"nobody"}, step : {0}, fails : {FALSE},
                  known : {FALSE}, registered : {FALSE}, listed : BOOLEAN, benign : {FALSE}]
Negation == [depth : {"child", "below"}, no : {TRUE}, by : {"queue", "ledger"}, step : {1, 2},
             fails : BOOLEAN, known : {FALSE}, registered : {FALSE}, listed : {FALSE}, benign : {FALSE}]
            \cup [depth : {"child", "below"}, no : {TRUE}, by : {"derived", "nobody"}, step : {0},
                  fails : {FALSE}, known : {FALSE}, registered : {FALSE}, listed : {FALSE}, benign : BOOLEAN]
            \cup [depth : {"child"}, no : {TRUE}, by : {"value"}, step : {1},
                  fails : {FALSE}, known : {FALSE}, registered : {FALSE}, listed : {FALSE}, benign : {TRUE}]
MCLines == Top \cup Positive \cup Negation

MCTexts == {<<t>> : t \in Top} \cup {<<t, l>> : t \in Top, l \in MCLines}
           \cup {<<t, l, m>> : t \in Top, l \in Negation, m \in Negation}

Unset == [i \in MCIfaces |-> ModelDefault]
Silent == [f \in IfaceFields |-> None]
Quiet == [i \in MCIfaces |-> Silent]
NoVrf == [v \in MCVrfs |-> VrfDefault]
Empty0 == [ifaces |-> Unset, vrfs |-> NoVrf, ospf |-> <<>>, bgp |-> <<>>]

\* One interface varies, the other one is default.
Gi1(p, r, m, n) == [Unset EXCEPT !["Gi1"] = [ospf_passive |-> p, ospf_priority |-> r,
                                             ospf_mtu_ignore |-> m, ospf_process_id |-> n]]
Speaks(p, r, m) == [Quiet EXCEPT !["Gi1"] = [ospf_passive |-> p, ospf_priority |-> r,
                                             ospf_mtu_ignore |-> m, ospf_process_id |-> "v1"]]
Areas == {<<>>} \cup {<<[interfaces |-> {"Gi1"}, settings |-> s]>> :
                        s \in {Quiet, Speaks(True, "v1", True), Speaks(False, Zero, False)}}
Processes == [id : {"v1"}, passive : SUBSET {"Gi1"}, non_passive : {{}, {"Gi1"}},
              passive_default : BOOLEAN, areas : Areas]
Other == {[id |-> "v2", passive |-> {}, non_passive |-> {"Gi1"}, passive_default |-> FALSE, areas |-> <<>>],
          [id |-> "v2", passive |-> {"Gi1"}, non_passive |-> {}, passive_default |-> TRUE,
           areas |-> <<[interfaces |-> {"Gi2"}, settings |-> Speaks(True, "v2", False)],
                       [interfaces |-> {"Gi1"}, settings |-> Speaks(None, Zero, True)]>>]}
OspfDocuments ==
  {[ifaces |-> Gi1(p, r, m, n), vrfs |-> NoVrf, ospf |-> o, bgp |-> <<>>] :
     p \in {None, False, True}, r \in {None, Zero}, m \in {False, True}, n \in {None, "v1"},
     o \in {<<x>> : x \in Processes} \cup {<<x, y>> : x \in Processes, y \in Other}}
Instances == [vrf : {None, "RED"}, said : [rd : {None, "v1"}, route_target_import : {Blank, "v2"}]]
VrfDocuments ==
  {[ifaces |-> Unset, vrfs |-> [v \in MCVrfs |-> [rd |-> d, route_target_import |-> t]],
    ospf |-> <<>>, bgp |-> <<x, y>>] :
     d \in {None, "v2"}, t \in {Blank, "v1"}, x \in Instances, y \in Instances}
MCDocuments == {Empty0} \cup OspfDocuments \cup VrfDocuments

Hostname == CHOOSE t \in Top : t.step = 0 /\ t.by = "value" /\ ~t.fails
MCInputs == (MCTexts \X {Empty0}) \cup ({<<Hostname>>} \X MCDocuments)
=============================================================================
