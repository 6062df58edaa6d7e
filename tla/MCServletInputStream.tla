------------------------ MODULE MCServletInputStream ------------------------
EXTENDS ServletInputStream

CONSTANTS p1, p2

MCPool == {p1, p2}

=============================================================================
