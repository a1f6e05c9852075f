-------------------------- MODULE MCComponentSystem --------------------------
\* ComponentSystem for TLC: a rendering with a Deployment, two Services and an
\* Ingress, which orderMap does not know, in another order than the map's.
EXTENDS ComponentSystem

Rendering == <<21, 16, 0, 16>>
==============================================================================
