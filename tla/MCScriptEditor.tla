--------------------------- MODULE MCScriptEditor ---------------------------
EXTENDS ScriptProps

\* Scripts as they come: a loop with a repeated key, a dangling edge and no FAQs; a
\* section nothing leads to; a valid file whose order is not that of its sections; a
\* straight line as the package agent-schema wants it.
MCRaws ==
    LET Plain(keys, edges) == [i \in DOMAIN keys |-> Section(keys[i], i, edges[i])]
        a == <<"a">>
        b == <<"b">>
        Swapped(s) == [s EXCEPT ![1].order = 2, ![2].order = 1]
        x == [key |-> "x", pre |-> FALSE, required |-> FALSE, phone |-> TRUE, lead |-> TRUE]
    IN  { [sections |-> Plain(<<a, a>>, << <<a, CLOSE, b>>, Terminal >>), vars |-> <<x, x>>,
           used |-> {"x"}],
          [sections |-> Plain(<<a, b, FAQS, CLOSE>>, << <<CLOSE>>, <<CLOSE>>, Terminal, Terminal >>),
           vars |-> <<Phone, LeadName>>, used |-> {}],
          [sections |-> Swapped(Plain(<<a, b, FAQS>>, << <<a>>, <<a>>, Terminal >>)),
           vars |-> <<Phone, LeadName>>, used |-> {"phone"}],
          [sections |-> RepairedInPackage(Plain(<<a, CLOSE>>, << <<b>>, Terminal >>)),
           vars |-> <<Phone>>, used |-> {}] }
=============================================================================
