----------------------------- MODULE MCFirewall -----------------------------
EXTENDS Firewall

\* "web" has one row, two while it is moved, or none, and is then found by
\* podman; "gone" is known to nobody.
MCRows == [web |-> {{1}, {2}, {1, 2}, {}}, gone |-> {{}}]
MCInspected == [web |-> 2, gone |-> 0]

=============================================================================
